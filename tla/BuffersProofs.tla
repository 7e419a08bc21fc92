---------------------------- MODULE BuffersProofs ----------------------------
(* Codec2Buffers keeps HandlesOwned, for any number of objects and          *)
(* resources; and ColorFormats keeps PlanesFit, for every width and height. *)
EXTENDS Codec2Buffers, ColorFormats, FiniteSetTheorems, TLAPS

C2Entries == C2Resources \cup {C2None}

C2Record ==
  [state : {"free", "live", "dying"}, owner : {"data", "handle"}, mapper : BOOLEAN,
   init : {"NO_ERROR", "NO_INIT", "error"}, kind : {"buffer", "slot"}, handle : C2Entries,
   held : C2Entries, locked : Int]

C2TypeOK ==
  /\ c2Allowed \in BOOLEAN
  /\ c2Object \in [C2Objects -> C2Record]
  /\ gHardwareBuffers \in [C2Objects -> C2Entries]
  /\ c2Live \subseteq C2Resources
  /\ c2Locks \in [C2Resources -> Int]

(* What the state of an object says about what it owns: at most one thing,  *)
(* known by the same address through handle and table, or, once the        *)
(* destructor runs, through held alone; and something if it is usable and   *)
(* not the empty slot.                                                      *)
C2Phase(o) ==
  LET object == c2Object[o]
      entry  == gHardwareBuffers[o]
  IN
  /\ object.state = "free" => object = C2Free /\ entry = C2None
  /\ object.state = "live" =>
       /\ object.held = C2None
       /\ object.owner = "data" => object.handle = entry
       /\ object.owner = "handle" => entry = C2None /\ object.mapper
       /\ object.init # "NO_ERROR" => object.handle = C2None
       /\ object.init = "NO_ERROR" /\ object.kind = "buffer" => object.handle # C2None
  /\ object.state = "dying" =>
       /\ object.handle = C2None /\ entry = C2None /\ object.locked = 0
       /\ object.init # "NO_ERROR" => object.held = C2None
  /\ object.owner = "handle" => c2Allowed

(* What o holds, C2None when it holds nothing.                              *)
C2Held(o) == IF c2Object[o].state = "live" THEN c2Object[o].handle ELSE c2Object[o].held

C2Apart ==
  /\ \A o \in C2Objects : C2Held(o) # C2None => C2Held(o) \in c2Live
  /\ \A r \in c2Live : \E o \in C2Objects : C2Held(o) = r
  /\ \A o, p \in C2Objects : o # p /\ C2Held(o) # C2None => C2Held(o) # C2Held(p)

C2LocksInv ==
  /\ \A r \in C2Resources \ c2Live : c2Locks[r] = 0
  /\ \A o \in C2Objects : C2Held(o) # C2None =>
       c2Locks[C2Held(o)] = IF gHardwareBuffers[o] # C2None THEN c2Object[o].locked ELSE 0

C2IInv == C2TypeOK /\ (\A o \in C2Objects : C2Phase(o)) /\ C2Apart /\ C2LocksInv

-----------------------------------------------------------------------------
(* A process that has made no object yet.                                  *)
LEMMA C2InitKeeps == C2Init => C2IInv
  BY C2Assumption DEF C2Init, C2IInv, C2TypeOK, C2Record, C2Entries, C2Phase, C2Held, C2Apart,
     C2LocksInv, C2Free, C2None

(* An object owns what it holds, and nothing else.                          *)
LEMMA C2OwnsHeld ==
  ASSUME C2TypeOK, NEW o \in C2Objects, C2Phase(o)
  PROVE  C2Owns(o) = {C2Held(o)} \ {C2None}
  BY C2Assumption DEF C2TypeOK, C2Record, C2Phase, C2Owns, C2Held, C2Free, C2None, C2Entries

(* A step at o: the other objects stay as they are, and with them what they *)
(* hold.                                                                    *)
C2StepAt(o) ==
  /\ c2Allowed' = c2Allowed
  /\ C2TypeOK'
  /\ \A p \in C2Objects \ {o} : /\ c2Object'[p] = c2Object[p]
                                /\ gHardwareBuffers'[p] = gHardwareBuffers[p]

(* What C2StepAt leaves alone keeps its phase and what it holds.            *)
LEMMA C2Others ==
  ASSUME NEW o \in C2Objects, C2StepAt(o), \A p \in C2Objects : C2Phase(p), C2Phase(o)'
  PROVE  /\ \A p \in C2Objects : C2Phase(p)'
         /\ \A p \in C2Objects \ {o} : C2Held(p)' = C2Held(p)
  BY DEF C2StepAt, C2Phase, C2Held

(* Nothing changes hands: o has what it had, and so have its locks.         *)
LEMMA C2Keeps ==
  ASSUME C2IInv, NEW o \in C2Objects, C2StepAt(o), C2Phase(o)', C2Held(o)' = C2Held(o),
         c2Live' = c2Live, c2Locks' = c2Locks,
         C2Held(o) # C2None => c2Locks[C2Held(o)] =
            IF gHardwareBuffers'[o] # C2None THEN c2Object'[o].locked ELSE 0
  PROVE  C2IInv'
<1>1. /\ \A p \in C2Objects : C2Phase(p)'
      /\ \A p \in C2Objects \ {o} : C2Held(p)' = C2Held(p)
  BY C2Others DEF C2IInv
<1>2. \A p \in C2Objects : C2Held(p)' = C2Held(p)
  BY <1>1
<1>3. C2Apart'
  BY <1>2 DEF C2IInv, C2Apart
<1>4. C2LocksInv'
  BY <1>2 DEF C2IInv, C2LocksInv, C2StepAt
<1> QED
  BY <1>1, <1>3, <1>4 DEF C2IInv, C2StepAt

(* o, which had nothing, takes a resource that was free.                    *)
LEMMA C2Takes ==
  ASSUME C2IInv, NEW o \in C2Objects, C2StepAt(o), C2Phase(o)', C2Held(o) = C2None,
         NEW r \in C2Fresh, C2Held(o)' = r, c2Live' = c2Live \cup {r}, c2Locks' = c2Locks,
         c2Object'[o].locked = 0
  PROVE  C2IInv'
<1>1. /\ \A p \in C2Objects : C2Phase(p)'
      /\ \A p \in C2Objects \ {o} : C2Held(p)' = C2Held(p)
  BY C2Others DEF C2IInv
<1>2. r \in C2Resources /\ r \notin c2Live /\ r # C2None
  BY C2Assumption DEF C2Fresh, C2None
<1>3. C2Apart'
  <2>1. \A p \in C2Objects : C2Held(p)' # C2None => C2Held(p)' \in c2Live'
    BY <1>1 DEF C2IInv, C2Apart
  <2>2. ASSUME NEW s \in c2Live'
        PROVE  \E p \in C2Objects : C2Held(p)' = s
    <3>1. CASE s = r
      BY <3>1
    <3>2. CASE s \in c2Live
      <4>1. PICK p \in C2Objects : C2Held(p) = s
        BY <3>2 DEF C2IInv, C2Apart
      <4>2. p # o
        BY <3>2, <4>1, C2Assumption DEF C2IInv, C2TypeOK, C2None
      <4> QED
        BY <4>1, <4>2, <1>1
    <3> QED
      BY <3>1, <3>2
  <2>3. \A p, q \in C2Objects : p # q /\ C2Held(p)' # C2None => C2Held(p)' # C2Held(q)'
    BY <1>1, <1>2 DEF C2IInv, C2Apart
  <2> QED
    BY <2>1, <2>2, <2>3 DEF C2Apart
<1>4. C2LocksInv'
  BY <1>1, <1>2 DEF C2IInv, C2LocksInv, C2StepAt
<1> QED
  BY <1>1, <1>3, <1>4 DEF C2IInv, C2StepAt

(* o gives back the unlocked resource it had.                               *)
LEMMA C2Gives ==
  ASSUME C2IInv, NEW o \in C2Objects, C2StepAt(o), C2Phase(o)', C2Held(o)' = C2None,
         c2Live' = c2Live \ {C2Held(o)}, c2Locks' = c2Locks,
         gHardwareBuffers[o] = C2None
  PROVE  C2IInv'
<1>1. /\ \A p \in C2Objects : C2Phase(p)'
      /\ \A p \in C2Objects \ {o} : C2Held(p)' = C2Held(p)
  BY C2Others DEF C2IInv
<1>3. C2Apart'
  BY <1>1 DEF C2IInv, C2Apart
<1>4. C2LocksInv'
  <2>1. ASSUME NEW r \in C2Resources, r \notin c2Live'
        PROVE  c2Locks'[r] = 0
    <3>1. CASE r \in c2Live
      <4>1. r = C2Held(o) /\ r # C2None
        BY <2>1, <3>1, C2Assumption DEF C2None
      <4> QED
        BY <4>1 DEF C2IInv, C2LocksInv
    <3>2. CASE r \notin c2Live
      BY <3>2 DEF C2IInv, C2LocksInv
    <3> QED
      BY <3>1, <3>2
  <2>2. ASSUME NEW p \in C2Objects, C2Held(p)' # C2None
        PROVE  c2Locks'[C2Held(p)'] = IF gHardwareBuffers'[p] # C2None
                                      THEN c2Object'[p].locked ELSE 0
    BY <2>2, <1>1 DEF C2IInv, C2LocksInv, C2StepAt
  <2> QED
    BY <2>1, <2>2 DEF C2LocksInv
<1> QED
  BY <1>1, <1>3, <1>4 DEF C2IInv, C2StepAt

(* o's buffer is locked or unlocked, and o is told.                         *)
LEMMA C2Counts ==
  ASSUME C2IInv, NEW o \in C2Objects, C2StepAt(o), C2Phase(o)', C2Held(o)' = C2Held(o),
         gHardwareBuffers[o] # C2None, gHardwareBuffers'[o] = gHardwareBuffers[o],
         c2Object[o].state = "live", c2Live' = c2Live,
         c2Locks' = [c2Locks EXCEPT ![gHardwareBuffers[o]] = c2Object'[o].locked]
  PROVE  C2IInv'
<1>1. /\ \A p \in C2Objects : C2Phase(p)'
      /\ \A p \in C2Objects \ {o} : C2Held(p)' = C2Held(p)
  BY C2Others DEF C2IInv
<1>2. gHardwareBuffers[o] = C2Held(o) /\ C2Held(o) \in C2Resources /\ C2Held(o) \in c2Live
  BY DEF C2IInv, C2Phase, C2Held, C2Apart, C2TypeOK, C2Record, C2Entries
<1>3. \A p \in C2Objects : C2Held(p)' = C2Held(p)
  BY <1>1
<1>4. C2Apart'
  BY <1>3 DEF C2IInv, C2Apart
<1>5. C2LocksInv'
  <2>1. \A r \in C2Resources \ c2Live' : c2Locks'[r] = 0
    BY <1>2 DEF C2IInv, C2LocksInv, C2TypeOK
  <2>2. ASSUME NEW p \in C2Objects \ {o}, C2Held(p) # C2None
        PROVE  c2Locks'[C2Held(p)] = c2Locks[C2Held(p)]
    BY <1>2, <2>2 DEF C2IInv, C2Apart, C2TypeOK
  <2>3. c2Locks'[C2Held(o)] = c2Object'[o].locked
    BY <1>2 DEF C2IInv, C2TypeOK
  <2> QED
    BY <1>3, <2>1, <2>2, <2>3 DEF C2IInv, C2LocksInv, C2StepAt
<1> QED
  BY <1>1, <1>4, <1>5 DEF C2IInv, C2StepAt

-----------------------------------------------------------------------------
(* What the common constructor leaves behind.                               *)
LEMMA C2Constructed ==
  ASSUME NEW usable \in BOOLEAN, NEW mapper \in BOOLEAN
  PROVE  LET object == GraphicBufferV34(usable, mapper) IN
         /\ object \in C2Record
         /\ object.state = "live" /\ object.owner = "data" /\ object.mapper = mapper
         /\ object.init = (IF usable THEN "NO_ERROR" ELSE "NO_INIT")
         /\ object.handle = C2None /\ object.held = C2None /\ object.locked = 0
<1>1. C2Free \in C2Record
  BY DEF C2Free, C2Record, C2Entries
<1>2. GraphicBufferV34(usable, mapper) \in C2Record
  BY <1>1, Zenon DEF GraphicBufferV34, C2Record
<1> QED
  BY <1>2 DEF GraphicBufferV34, C2Free

(* A constructor that ends without a buffer.                                *)
LEMMA C2MakesEmpty ==
  ASSUME C2IInv, NEW o \in C2Objects, c2Object[o].state = "free",
         NEW object \in C2Record, object.state = "live", object.owner = "data",
         object.handle = C2None, object.held = C2None, object.locked = 0,
         object.init = "NO_ERROR" => object.kind = "slot",
         C2Set(o, object), UNCHANGED <<c2Allowed, gHardwareBuffers, c2Live, c2Locks>>
  PROVE  C2IInv'
<1>1. c2Object'[o] = object
  BY DEF C2Set, C2IInv, C2TypeOK
<1>2. C2StepAt(o)
  BY DEF C2StepAt, C2Set, C2IInv, C2TypeOK
<1>3. gHardwareBuffers[o] = C2None /\ c2Object[o] = C2Free
  BY DEF C2IInv, C2Phase
<1>4. C2Phase(o)'
  BY <1>1, <1>3 DEF C2Phase
<1>5. C2Held(o) = C2None /\ C2Held(o)' = C2None
  BY <1>1, <1>3 DEF C2Held, C2Free
<1> QED
  BY <1>2, <1>4, <1>5, C2Keeps

(* A constructor that ends with one: a clone, or an entry in the table.     *)
LEMMA C2MakesOwner ==
  ASSUME C2IInv, NEW o \in C2Objects, c2Object[o].state = "free", NEW r \in C2Fresh,
         NEW object \in C2Record, object.state = "live", object.init = "NO_ERROR",
         object.handle = r, object.held = C2None, object.locked = 0,
         object.owner = "handle" => object.mapper /\ c2Allowed,
         C2Set(o, object),
         gHardwareBuffers' = IF object.owner = "data" THEN [gHardwareBuffers EXCEPT ![o] = r]
                                                      ELSE gHardwareBuffers,
         c2Live' = c2Live \cup {r}, UNCHANGED <<c2Allowed, c2Locks>>
  PROVE  C2IInv'
<1>1. c2Object'[o] = object
  BY DEF C2Set, C2IInv, C2TypeOK
<1>2. C2StepAt(o)
  BY DEF C2StepAt, C2Set, C2IInv, C2TypeOK, C2Entries, C2Fresh
<1>3. gHardwareBuffers[o] = C2None /\ c2Object[o] = C2Free
  BY DEF C2IInv, C2Phase
<1>4. gHardwareBuffers'[o] = IF object.owner = "data" THEN r ELSE C2None
  BY <1>3 DEF C2IInv, C2TypeOK
<1>5. C2Phase(o)'
  BY <1>1, <1>4, C2Assumption DEF C2Phase, C2Record, C2Fresh, C2None
<1>6. C2Held(o) = C2None /\ C2Held(o)' = r
  BY <1>1, <1>3 DEF C2Held, C2Free
<1>7. c2Object'[o].locked = 0
  BY <1>1
<1> QED
  BY <1>2, <1>5, <1>6, <1>7, C2Takes

-----------------------------------------------------------------------------
(* The constructors keep the invariant, whichever way they end.             *)
LEMMA C2Constructs ==
  ASSUME C2IInv, NEW o \in C2Objects,
         \/ Construct(o)
         \/ ConstructAllocated(o)
         \/ \E method \in C2Methods, given \in BOOLEAN : ConstructWithHandle(o, method, given)
  PROVE  C2IInv'
<1>1. c2Object[o].state = "free"
  BY Zenon DEF Construct, ConstructAllocated, ConstructWithHandle
<1> DEFINE Empty(object) == /\ C2Set(o, object)
                            /\ UNCHANGED <<c2Allowed, gHardwareBuffers, c2Live, c2Locks>>
<1>2. ASSUME NEW mapper \in BOOLEAN, NEW init \in {"NO_INIT", "error"},
             Empty([GraphicBufferV34(TRUE, mapper) EXCEPT !.init = init])
      PROVE  C2IInv'
  <2> DEFINE object == [GraphicBufferV34(TRUE, mapper) EXCEPT !.init = init]
  <2>1. /\ object \in C2Record /\ object.state = "live" /\ object.owner = "data"
        /\ object.handle = C2None /\ object.held = C2None /\ object.locked = 0
        /\ object.init # "NO_ERROR"
    <3> DEFINE made == GraphicBufferV34(TRUE, mapper)
    <3>1. /\ made \in C2Record /\ made.state = "live" /\ made.owner = "data"
          /\ made.handle = C2None /\ made.held = C2None /\ made.locked = 0
      BY C2Constructed, Zenon
    <3> HIDE DEF made
    <3>2. object = [made EXCEPT !.init = init]
      BY DEF made
    <3> HIDE DEF object
    <3>3. object \in C2Record
      BY <3>1, <3>2, Zenon DEF C2Record
    <3> QED
      BY <3>1, <3>2, <3>3 DEF C2Record
  <2>2. C2Set(o, object) /\ UNCHANGED <<c2Allowed, gHardwareBuffers, c2Live, c2Locks>>
    BY <1>2
  <2> HIDE DEF object
  <2> QED
    BY <1>1, <2>1, <2>2, C2MakesEmpty
<1>3. ASSUME refuse(o)
      PROVE  C2IInv'
  <2> DEFINE object == GraphicBufferV34(FALSE, TRUE)
  <2>1. /\ object \in C2Record /\ object.state = "live" /\ object.owner = "data"
        /\ object.handle = C2None /\ object.held = C2None /\ object.locked = 0
        /\ object.init # "NO_ERROR"
    BY C2Constructed
  <2>2. C2Set(o, object) /\ UNCHANGED <<c2Allowed, gHardwareBuffers, c2Live, c2Locks>>
    BY <1>3, Zenon DEF refuse
  <2> HIDE DEF object
  <2> QED
    BY <1>1, <2>1, <2>2, C2MakesEmpty
<1>4. CASE Construct(o)
  <2> DEFINE object == [GraphicBufferV34(TRUE, TRUE) EXCEPT !.kind = "slot"]
  <2>1. /\ object \in C2Record /\ object.state = "live" /\ object.owner = "data"
        /\ object.handle = C2None /\ object.held = C2None /\ object.locked = 0
        /\ object.kind = "slot"
    BY C2Constructed DEF C2Record
  <2>2. refuse(o) \/ Empty(object)
    BY <1>4, Zenon DEF Construct
  <2> HIDE DEF object
  <2> QED
    BY <1>1, <1>3, <2>1, <2>2, C2MakesEmpty
<1>5. \A err \in C2Status : C2Failed(err) \in {"NO_INIT", "error"}
  BY DEF C2Status, C2Failed
<1>6. CASE ConstructAllocated(o)
  <2> DEFINE Failed(err) == Empty([GraphicBufferV34(TRUE, FALSE) EXCEPT !.init = C2Failed(err)])
  <2>1. CASE \E err \in C2Status : Failed(err)
    BY <2>1, <1>2, <1>5, Zenon
  <2>2. CASE ~(\E err \in C2Status : Failed(err))
    <3>1. PICK b \in C2Fresh :
            /\ c2Live' = c2Live \cup {b}
            /\ gHardwareBuffers' = [gHardwareBuffers EXCEPT ![o] = b]
            /\ C2Set(o, [GraphicBufferV34(TRUE, FALSE) EXCEPT !.handle = b])
            /\ UNCHANGED <<c2Allowed, c2Locks>>
      BY <1>6, <2>2, Zenon DEF ConstructAllocated, allocate
    <3> DEFINE object == [GraphicBufferV34(TRUE, FALSE) EXCEPT !.handle = b]
    <3>2. /\ object \in C2Record /\ object.state = "live" /\ object.init = "NO_ERROR"
          /\ object.handle = b /\ object.held = C2None /\ object.locked = 0
          /\ object.owner = "data" /\ object.mapper = FALSE
      BY C2Constructed, Zenon DEF C2Record, C2Entries, C2Fresh
    <3>3. C2Set(o, object)
      BY <3>1
    <3> HIDE DEF object
    <3> QED
      BY <1>1, <3>1, <3>2, <3>3, C2MakesOwner, Zenon
  <2> QED
    BY <2>1, <2>2
<1>7. ASSUME NEW method \in C2Methods, NEW given \in BOOLEAN, ConstructWithHandle(o, method, given)
      PROVE  C2IInv'
  <2> DEFINE Failed(init) == Empty([GraphicBufferV34(TRUE, TRUE) EXCEPT !.init = init])
  <2>1. CASE refuse(o) \/ Failed("NO_INIT") \/ \E err \in C2Status : Failed(C2Failed(err))
    BY <2>1, <1>2, <1>3, <1>5, Zenon
  <2>2. CASE ~(refuse(o) \/ Failed("NO_INIT") \/ \E err \in C2Status : Failed(C2Failed(err)))
    <3>1. PICK h \in C2Fresh :
            /\ c2Live' = c2Live \cup {h}
            /\ C2Set(o, [GraphicBufferV34(TRUE, TRUE) EXCEPT !.owner = "handle", !.handle = h])
            /\ c2Allowed
            /\ UNCHANGED <<c2Allowed, gHardwareBuffers, c2Locks>>
      BY <1>7, <2>2, Zenon DEF ConstructWithHandle, importClone
    <3> DEFINE object == [GraphicBufferV34(TRUE, TRUE) EXCEPT !.owner = "handle", !.handle = h]
    <3>2. /\ object \in C2Record /\ object.state = "live" /\ object.init = "NO_ERROR"
          /\ object.handle = h /\ object.held = C2None /\ object.locked = 0
          /\ object.owner = "handle" /\ object.mapper = TRUE
      BY C2Constructed, Zenon DEF C2Record, C2Entries, C2Fresh
    <3>3. C2Set(o, object)
      BY <3>1
    <3> HIDE DEF object
    <3> QED
      BY <1>1, <3>1, <3>2, <3>3, C2MakesOwner
  <2> QED
    BY <2>1, <2>2
<1> QED
  BY <1>4, <1>6, <1>7

(* The first half of the destructor: a clone is freed, an entry moves from  *)
(* the table into the destructor's hands.                                   *)
LEMMA C2DestroyBegins ==
  ASSUME C2IInv, NEW o \in C2Objects, DestroyBegins(o)
  PROVE  C2IInv'
<1> DEFINE object == c2Object[o]
<1>1. /\ object.state = "live" /\ object.locked = 0
      /\ c2Object'[o] = [object EXCEPT !.state = "dying", !.handle = C2None,
                                       !.held = gHardwareBuffers[o]]
      /\ gHardwareBuffers'[o] = C2None
      /\ c2Locks' = c2Locks /\ c2Allowed' = c2Allowed
  BY DEF DestroyBegins, C2Set, C2IInv, C2TypeOK
<1>2. C2StepAt(o)
  <2>1. c2Live' \subseteq c2Live
    BY DEF DestroyBegins
  <2>2. /\ gHardwareBuffers' \in [C2Objects -> C2Entries]
        /\ c2Object' = [c2Object EXCEPT ![o] = c2Object'[o]]
    BY <1>1 DEF DestroyBegins, C2Set, C2IInv, C2TypeOK, C2Entries
  <2>3. c2Object'[o] \in C2Record
    <3>1. c2Object[o] \in C2Record /\ gHardwareBuffers[o] \in C2Entries /\ C2None \in C2Entries
      BY DEF C2IInv, C2TypeOK, C2Entries
    <3> QED
      BY <1>1, <3>1, Zenon DEF C2Record
  <2>4. C2TypeOK'
    BY <1>1, <2>1, <2>2, <2>3 DEF C2IInv, C2TypeOK
  <2> QED
    BY <1>1, <2>2, <2>4 DEF DestroyBegins, C2StepAt, C2IInv, C2TypeOK
<1>3. C2Phase(o)'
  BY <1>1 DEF C2Phase, C2IInv, C2TypeOK, C2Record
<1>4. C2Held(o) = object.handle /\ C2Held(o)' = gHardwareBuffers[o]
  BY <1>1 DEF C2Held, C2IInv, C2TypeOK
<1>5. CASE object.owner = "handle"
  <2>1. gHardwareBuffers[o] = C2None /\ object.mapper
    BY <1>1, <1>5 DEF C2IInv, C2Phase
  <2>2. c2Live' = c2Live \ {C2Held(o)}
    BY <1>4, <1>5, <2>1, C2Assumption DEF DestroyBegins, C2IInv, C2TypeOK, C2None
  <2> QED
    BY <1>1, <1>2, <1>3, <1>4, <2>1, <2>2, C2Gives
<1>6. CASE object.owner = "data"
  <2>1. gHardwareBuffers[o] = object.handle
    BY <1>1, <1>6 DEF C2IInv, C2Phase
  <2>2. c2Live' = c2Live
    BY <1>6 DEF DestroyBegins
  <2>3. C2Held(o) # C2None => c2Locks[C2Held(o)] = 0
    BY <1>1, <1>4, <2>1 DEF C2IInv, C2LocksInv
  <2> QED
    BY <1>1, <1>2, <1>3, <1>4, <2>1, <2>2, <2>3, C2Keeps
<1> QED
  BY <1>5, <1>6 DEF C2IInv, C2TypeOK, C2Record

(* The second half: the AHardwareBuffer is released and the memory is free. *)
LEMMA C2DestroyEnds ==
  ASSUME C2IInv, NEW o \in C2Objects, DestroyEnds(o)
  PROVE  C2IInv'
<1>1. c2Object'[o] = C2Free /\ gHardwareBuffers[o] = C2None /\ gHardwareBuffers'[o] = C2None
  BY DEF DestroyEnds, C2Set, C2IInv, C2TypeOK, C2Phase
<1>2. C2StepAt(o)
  <2>1. c2Live' \subseteq c2Live
    BY DEF DestroyEnds
  <2> QED
    BY <1>1, <2>1 DEF DestroyEnds, C2Set, C2StepAt, C2IInv, C2TypeOK, C2Record, C2Entries, C2Free
<1>3. C2Phase(o)'
  BY <1>1 DEF C2Phase, C2Free
<1>4. C2Held(o) = c2Object[o].held /\ C2Held(o)' = C2None
  BY <1>1 DEF DestroyEnds, C2Held, C2Free
<1>5. c2Live' = c2Live \ {C2Held(o)} /\ c2Locks' = c2Locks
  BY <1>4 DEF DestroyEnds
<1> QED
  BY <1>1, <1>2, <1>3, <1>4, <1>5, C2Gives

(* A lock that is given back changes nothing; one that holds, and an        *)
(* unlock, are counted at the buffer and at the object alike.               *)
LEMMA C2LockSteps ==
  ASSUME C2IInv, NEW o \in C2Objects, lockYCbCr(o) \/ unlock(o)
  PROVE  C2IInv'
<1>1. /\ c2Object[o].state = "live" /\ gHardwareBuffers[o] # C2None
      /\ gHardwareBuffers' = gHardwareBuffers /\ c2Live' = c2Live /\ c2Allowed' = c2Allowed
  BY DEF lockYCbCr, unlock
<1>2. c2Object[o].owner = "data" /\ c2Object[o].handle = gHardwareBuffers[o]
  BY <1>1 DEF C2IInv, C2Phase, C2TypeOK, C2Record
<1>3. c2Locks[gHardwareBuffers[o]] = c2Object[o].locked
  BY <1>1, <1>2 DEF C2IInv, C2LocksInv, C2Held
<1>4. PICK d \in {-1, 0, 1} :
        /\ c2Locks' = IF d = 0 THEN c2Locks ELSE [c2Locks EXCEPT ![gHardwareBuffers[o]] = @ + d]
        /\ C2Set(o, [c2Object[o] EXCEPT !.locked = @ + d])
  <2>1. CASE unlock(o)
    <3>1. /\ c2Locks' = [c2Locks EXCEPT ![gHardwareBuffers[o]] = @ - 1]
          /\ C2Set(o, [c2Object[o] EXCEPT !.locked = @ - 1])
      BY <2>1 DEF unlock
    <3>2. c2Locks[gHardwareBuffers[o]] - 1 = c2Locks[gHardwareBuffers[o]] + (-1)
          /\ c2Object[o].locked - 1 = c2Object[o].locked + (-1)
      BY <1>3 DEF C2IInv, C2TypeOK, C2Record
    <3>3. /\ c2Locks' = [c2Locks EXCEPT ![gHardwareBuffers[o]] = @ + (-1)]
          /\ C2Set(o, [c2Object[o] EXCEPT !.locked = @ + (-1)])
      BY <3>1, <3>2, Zenon
    <3>4. -1 \in {-1, 0, 1} /\ -1 # 0
      OBVIOUS
    <3> QED
      BY <3>3, <3>4
  <2>2. CASE lockYCbCr(o)
    BY <2>2 DEF lockYCbCr
  <2> QED
    BY <2>1, <2>2
<1>5. /\ c2Object'[o] \in C2Record
      /\ c2Object'[o].locked = c2Object[o].locked + d
      /\ c2Object'[o].state = "live" /\ c2Object'[o].owner = "data"
      /\ c2Object'[o].handle = c2Object[o].handle /\ c2Object'[o].held = c2Object[o].held
      /\ c2Object'[o].init = c2Object[o].init /\ c2Object'[o].kind = c2Object[o].kind
  BY <1>1, <1>2, <1>4 DEF C2Set, C2IInv, C2TypeOK, C2Record
<1>6. C2StepAt(o)
  <2>1. /\ c2Object' \in [C2Objects -> C2Record]
        /\ \A p \in C2Objects \ {o} : c2Object'[p] = c2Object[p]
    BY <1>4, <1>5 DEF C2Set, C2IInv, C2TypeOK
  <2>2. c2Locks' \in [C2Resources -> Int]
    BY <1>1, <1>4 DEF C2IInv, C2TypeOK, C2Entries
  <2> QED
    BY <1>1, <2>1, <2>2 DEF C2StepAt, C2IInv, C2TypeOK
<1>7. C2Phase(o)' /\ C2Held(o)' = C2Held(o)
  BY <1>1, <1>2, <1>5 DEF C2Phase, C2Held, C2IInv
<1>8. CASE d = 0
  <2>1. c2Object'[o].locked = c2Object[o].locked
    BY <1>5, <1>8 DEF C2IInv, C2TypeOK, C2Record
  <2> QED
    BY <1>1, <1>2, <1>3, <1>4, <1>6, <1>7, <1>8, <2>1, C2Keeps DEF C2Held
<1>9. CASE d # 0
  <2>1. c2Locks' = [c2Locks EXCEPT ![gHardwareBuffers[o]] = c2Object'[o].locked]
    BY <1>3, <1>4, <1>5, <1>9
  <2> QED
    BY <1>1, <1>6, <1>7, <2>1, C2Counts, Zenon
<1> QED
  BY <1>8, <1>9

-----------------------------------------------------------------------------
(* C2IInv is inductive.                                                     *)
LEMMA C2StepKeeps == C2IInv /\ [C2Next]_c2Vars => C2IInv'
<1> SUFFICES ASSUME C2IInv, [C2Next]_c2Vars PROVE C2IInv'
  OBVIOUS
<1>1. CASE UNCHANGED c2Vars
  <2>1. \A o \in C2Objects : C2Held(o)' = C2Held(o) /\ C2Phase(o)'
    BY <1>1 DEF c2Vars, C2Held, C2Phase, C2IInv
  <2> QED
    BY <1>1, <2>1 DEF c2Vars, C2IInv, C2TypeOK, C2Apart, C2LocksInv
<1>2. CASE C2Next
  <2>1. PICK o \in C2Objects :
          \/ Construct(o) \/ ConstructAllocated(o)
          \/ \E method \in C2Methods, given \in BOOLEAN : ConstructWithHandle(o, method, given)
          \/ DestroyBegins(o) \/ DestroyEnds(o) \/ lockYCbCr(o) \/ unlock(o)
    BY <1>2 DEF C2Next
  <2> QED
    BY <2>1, C2Constructs, C2DestroyBegins, C2DestroyEnds, C2LockSteps
<1> QED
  BY <1>1, <1>2

(* What the invariant says of HandlesOwned.                                 *)
LEMMA C2Implies == C2IInv => HandlesOwned
<1> SUFFICES ASSUME C2IInv PROVE HandlesOwned
  OBVIOUS
<1>1. \A o \in C2Objects : C2Owns(o) = {C2Held(o)} \ {C2None}
  BY C2OwnsHeld DEF C2IInv
<1>2. c2Live = UNION {C2Owns(o) : o \in C2Objects}
  <2>1. ASSUME NEW r \in c2Live
        PROVE  \E o \in C2Objects : r \in C2Owns(o)
    <3>1. PICK o \in C2Objects : C2Held(o) = r
      BY DEF C2IInv, C2Apart
    <3>2. r # C2None
      BY C2Assumption DEF C2IInv, C2TypeOK, C2None
    <3> QED
      BY <1>1, <3>1, <3>2
  <2>2. \A o \in C2Objects : C2Owns(o) \subseteq c2Live
    BY <1>1 DEF C2IInv, C2Apart
  <2> QED
    BY <2>1, <2>2
<1>3. \A o, p \in C2Objects : o # p => C2Owns(o) \cap C2Owns(p) = {}
  BY <1>1 DEF C2IInv, C2Apart
<1>4. ASSUME NEW o \in C2Objects
      PROVE  LET object == c2Object[o] IN
             /\ object.state = "free" => C2Owns(o) = {}
             /\ Cardinality(C2Owns(o)) <= 1
             /\ object.init # "NO_ERROR" => C2Owns(o) = {}
             /\ object.state = "live" /\ object.init = "NO_ERROR" /\ object.kind = "buffer" =>
                  C2Owns(o) # {}
             /\ object.owner = "handle" => c2Allowed
             /\ gHardwareBuffers[o] # C2None => c2Locks[gHardwareBuffers[o]] = object.locked
  <2>1. C2Phase(o) /\ c2Object[o] \in C2Record
    BY DEF C2IInv, C2TypeOK
  <2>2. c2Object[o].state = "free" => C2Held(o) = C2None
    BY <2>1 DEF C2Phase, C2Held, C2Free
  <2>3. c2Object[o].init # "NO_ERROR" => C2Held(o) = C2None
    BY <2>1, <2>2 DEF C2Phase, C2Held, C2Record
  <2>7. c2Object[o].state = "live" /\ c2Object[o].init = "NO_ERROR" /\ c2Object[o].kind = "buffer" =>
          C2Held(o) # C2None
    BY <2>1 DEF C2Phase, C2Held
  <2>4. gHardwareBuffers[o] # C2None => C2Held(o) = gHardwareBuffers[o]
    BY <2>1 DEF C2Phase, C2Held, C2Record
  <2>5. gHardwareBuffers[o] # C2None => c2Locks[gHardwareBuffers[o]] = c2Object[o].locked
    BY <2>4 DEF C2IInv, C2LocksInv
  <2>6. Cardinality(C2Owns(o)) <= 1
    <3>1. C2Owns(o) = {} \/ C2Owns(o) = {C2Held(o)}
      BY <1>1
    <3>2. Cardinality({}) = 0 /\ Cardinality({C2Held(o)}) = 1
      BY FS_EmptySet, FS_Singleton, Zenon
    <3> QED
      BY <3>1, <3>2
  <2> QED
    BY <1>1, <2>1, <2>2, <2>3, <2>5, <2>6, <2>7 DEF C2Phase
<1> QED
  BY <1>2, <1>3, <1>4 DEF HandlesOwned, C2IInv, C2LocksInv

(* HandlesOwned, for any number of objects, resources and methods: the     *)
(* constructors, the two halves of the destructor and the locks of         *)
(* compat/codec2-v34's GraphicBuffer leak nothing, free nothing twice and  *)
(* leave no lock on what they release.                                     *)
THEOREM HandlesOwnedHolds == C2Spec => []HandlesOwned
<1>1. C2Spec => []C2IInv
  BY C2InitKeeps, C2StepKeeps, PTL DEF C2Spec
<1> QED
  BY <1>1, C2Implies, PTL

-----------------------------------------------------------------------------
(* Picture geometry: rounding and products. *)

\* A plane is not smaller for being multiplied out.
LEMMA ProductGrows ==
  ASSUME NEW a \in Nat, NEW b \in Nat, NEW c \in Nat, NEW d \in Nat, a <= c, b <= d
  PROVE  a * b \in Nat /\ a * b <= c * d
<1>1. a * b <= c * b
  OBVIOUS
<1>2. c * b <= c * d
  OBVIOUS
<1>3. a * b \in Nat /\ c * b \in Nat /\ c * d \in Nat
  OBVIOUS
<1> QED BY <1>1, <1>2, <1>3

\* A plane with a row and a column is not empty.
LEMMA ProductPositive ==
  ASSUME NEW a \in Nat, NEW b \in Nat, a > 0, b > 0
  PROVE  a * b > 0
OBVIOUS

\* Rounding a division up.
LEMMA RoundedUp ==
  ASSUME NEW n \in Nat, NEW r \in Nat, r > 0
  PROVE  LET q == MMM_COLOR_FMT_ROUNDUP(n, r)
         IN  q \in Nat /\ q * r \in Nat /\ n <= q * r /\ q * r < n + r
<1> DEFINE m == n + (r - 1)
           q == m \div r
<1>1. m \in Nat
  OBVIOUS
<1>2. q \in Nat /\ q * r <= m /\ m < q * r + r
  BY <1>1
<1>3. q * r \in Nat
  BY <1>2
<1>4. MMM_COLOR_FMT_ROUNDUP(n, r) = q
  BY DEF MMM_COLOR_FMT_ROUNDUP
<1> HIDE DEF q
<1>5. n <= q * r /\ q * r < n + r
  BY <1>2, <1>3
<1> QED BY <1>2, <1>3, <1>4, <1>5

\* It grows with what is rounded.
LEMMA RoundedUpGrows ==
  ASSUME NEW m \in Nat, NEW n \in Nat, NEW r \in Nat, r > 0, m <= n
  PROVE  MMM_COLOR_FMT_ROUNDUP(m, r) <= MMM_COLOR_FMT_ROUNDUP(n, r)
<1>1. PICK a, b \in Nat : a = MMM_COLOR_FMT_ROUNDUP(m, r) /\ b = MMM_COLOR_FMT_ROUNDUP(n, r)
  BY RoundedUp, Zenon
<1>2. a * r < m + r /\ n <= b * r
  BY <1>1, RoundedUp
<1>3. SUFFICES ASSUME b + 1 <= a PROVE FALSE
  BY <1>1
<1>4. (b + 1) * r <= a * r
  BY <1>3, ProductGrows
<1>5. (b + 1) * r = b * r + r
  OBVIOUS
<1>6. a * r \in Nat /\ b * r \in Nat
  OBVIOUS
<1> QED BY <1>2, <1>4, <1>5, <1>6

\* Aligning a size, for any alignment.
LEMMA Aligned ==
  ASSUME NEW n \in Nat, NEW a \in Nat, a > 0
  PROVE  LET s == MMM_COLOR_FMT_ALIGN(n, a)
         IN  s \in Nat /\ n <= s /\ s < n + a
BY RoundedUp DEF MMM_COLOR_FMT_ALIGN

\* ... as an aligned size does.
LEMMA AlignedGrows ==
  ASSUME NEW m \in Nat, NEW n \in Nat, NEW a \in Nat, a > 0, m <= n
  PROVE  MMM_COLOR_FMT_ALIGN(m, a) <= MMM_COLOR_FMT_ALIGN(n, a)
<1>1. MMM_COLOR_FMT_ROUNDUP(m, a) \in Nat /\ MMM_COLOR_FMT_ROUNDUP(n, a) \in Nat
  BY RoundedUp, Zenon
<1> QED BY <1>1, RoundedUpGrows, ProductGrows DEF MMM_COLOR_FMT_ALIGN

\* A number of pages.
LEMMA Pages ==
  ASSUME NEW n \in Nat
  PROVE  MMM_COLOR_FMT_ROUNDUP(n, 4096) \in Nat /\ Page(n) = MMM_COLOR_FMT_ROUNDUP(n, 4096) * 4096
BY RoundedUp DEF Page, MMM_COLOR_FMT_ALIGN

\* Pages: whole, and large enough.
LEMMA Paged ==
  ASSUME NEW n \in Nat
  PROVE  Page(n) \in Nat /\ n <= Page(n) /\ Page(Page(n)) = Page(n)
<1>1. PICK q \in Nat : q = MMM_COLOR_FMT_ROUNDUP(n, 4096) /\ Page(n) = q * 4096
  BY Pages
<1>2. Page(n) \in Nat /\ n <= Page(n)
  BY Aligned DEF Page
<1>3. Page(q * 4096) = q * 4096
  BY DEF Page, MMM_COLOR_FMT_ALIGN, MMM_COLOR_FMT_ROUNDUP
<1> QED BY <1>1, <1>2, <1>3

\* A larger picture takes no fewer pages.
LEMMA PagedGrows ==
  ASSUME NEW m \in Nat, NEW n \in Nat, m <= n
  PROVE  Page(m) <= Page(n)
BY AlignedGrows DEF Page

\* Two half pictures take at least as many pages as one.
LEMMA PagedTwice ==
  ASSUME NEW m \in Nat, NEW n \in Nat, m <= 2 * n
  PROVE  Page(m) <= 2 * Page(n)
<1>1. PICK q \in Nat : q = MMM_COLOR_FMT_ROUNDUP(m, 4096) /\ Page(m) = q * 4096
  BY Pages
<1>2. PICK p \in Nat : p = MMM_COLOR_FMT_ROUNDUP(n, 4096) /\ Page(n) = p * 4096
  BY Pages
<1>3. Page(m) < m + 4096 /\ n <= Page(n)
  BY Aligned DEF Page
<1> QED BY <1>1, <1>2, <1>3

-----------------------------------------------------------------------------
(* Strides and scan lines. *)

\* An aligned size, and that of a larger one.
LEMMA Alignments ==
  ASSUME NEW m \in Nat, NEW n \in Nat, NEW a \in Nat, a > 0, m <= n
  PROVE  /\ MMM_COLOR_FMT_ALIGN(m, a) \in Nat /\ m <= MMM_COLOR_FMT_ALIGN(m, a)
         /\ MMM_COLOR_FMT_ALIGN(m, a) <= MMM_COLOR_FMT_ALIGN(n, a)
BY Aligned, AlignedGrows

\* The larger half of a size.
LEMMA Halved ==
  ASSUME NEW n \in Nat
  PROVE  /\ Half(n) \in Nat /\ n <= 2 * Half(n) /\ 2 * Half(n) <= n + 1
         /\ n \div 2 \in Nat /\ n \div 2 <= Half(n) /\ n - n \div 2 = Half(n)
BY DEF Half

\* Halves grow, too.
LEMMA HalvedGrows ==
  ASSUME NEW m \in Nat, NEW n \in Nat, m <= n
  PROVE  Half(m) <= Half(n)
BY DEF Half

\* The luma stride grows with the width.
LEMMA YStrideGrows ==
  ASSUME NEW f \in mmm_color_fmts, NEW m \in Nat, NEW n \in Nat, m <= n
  PROVE  MMM_COLOR_FMT_Y_STRIDE(f, m) \in Nat /\ MMM_COLOR_FMT_Y_STRIDE(f, m) <= MMM_COLOR_FMT_Y_STRIDE(f, n)
<1>1. CASE f = "NV12_512"
  BY <1>1, Alignments DEF MMM_COLOR_FMT_Y_STRIDE
<1>2. CASE f \in {"NV12", "NV21", "NV12_UBWC"}
  BY <1>2, Alignments DEF MMM_COLOR_FMT_Y_STRIDE
<1>3. CASE f = "NV12_BPP10_UBWC"
  <2> DEFINE third(w) == (MMM_COLOR_FMT_ALIGN(w, 192) * 4) \div 3
  <2>1. MMM_COLOR_FMT_ALIGN(m, 192) \in Nat /\ MMM_COLOR_FMT_ALIGN(n, 192) \in Nat
        /\ MMM_COLOR_FMT_ALIGN(m, 192) <= MMM_COLOR_FMT_ALIGN(n, 192)
    BY Alignments
  <2>2. third(m) \in Nat /\ third(n) \in Nat /\ third(m) <= third(n)
    BY <2>1
  <2>3. \A w \in Nat : MMM_COLOR_FMT_Y_STRIDE(f, w) = IF w = 0 THEN 0 ELSE MMM_COLOR_FMT_ALIGN(third(w), 256)
    BY <1>3 DEF MMM_COLOR_FMT_Y_STRIDE
  <2> HIDE DEF third
  <2>4. MMM_COLOR_FMT_ALIGN(third(m), 256) \in Nat /\ MMM_COLOR_FMT_ALIGN(third(n), 256) \in Nat
        /\ MMM_COLOR_FMT_ALIGN(third(m), 256) <= MMM_COLOR_FMT_ALIGN(third(n), 256)
    BY <2>2, Alignments
  <2> QED BY <2>3, <2>4
<1>4. CASE f \in {"P010_UBWC", "P010"}
  <2>1. MMM_COLOR_FMT_ALIGN(m * 2, 256) \in Nat /\ MMM_COLOR_FMT_ALIGN(n * 2, 256) \in Nat
        /\ MMM_COLOR_FMT_ALIGN(m * 2, 256) <= MMM_COLOR_FMT_ALIGN(n * 2, 256)
    BY Alignments
  <2> QED BY <1>4, <2>1 DEF MMM_COLOR_FMT_Y_STRIDE
<1>5. CASE f = "P010_512"
  <2>1. MMM_COLOR_FMT_ALIGN(m * 2, 512) \in Nat /\ MMM_COLOR_FMT_ALIGN(n * 2, 512) \in Nat
        /\ MMM_COLOR_FMT_ALIGN(m * 2, 512) <= MMM_COLOR_FMT_ALIGN(n * 2, 512)
    BY Alignments
  <2> QED BY <1>5, <2>1 DEF MMM_COLOR_FMT_Y_STRIDE
<1>6. CASE f \in UbwcRgb \cup {"RGBA8888"}
  BY <1>6 DEF MMM_COLOR_FMT_Y_STRIDE, UbwcRgb
<1> QED BY <1>1, <1>2, <1>3, <1>4, <1>5, <1>6 DEF mmm_color_fmts, LinearYuv, UbwcYuv

\* The luma scan lines grow with the height.
LEMMA YScanlinesGrow ==
  ASSUME NEW f \in mmm_color_fmts, NEW m \in Nat, NEW n \in Nat, m <= n
  PROVE  /\ MMM_COLOR_FMT_Y_SCANLINES(f, m) \in Nat
         /\ MMM_COLOR_FMT_Y_SCANLINES(f, m) <= MMM_COLOR_FMT_Y_SCANLINES(f, n)
BY Alignments DEF MMM_COLOR_FMT_Y_SCANLINES

\* So do the chroma scan lines.
LEMMA UVScanlinesGrow ==
  ASSUME NEW f \in mmm_color_fmts, NEW m \in Nat, NEW n \in Nat, m <= n
  PROVE  /\ MMM_COLOR_FMT_UV_SCANLINES(f, m) \in Nat
         /\ MMM_COLOR_FMT_UV_SCANLINES(f, m) <= MMM_COLOR_FMT_UV_SCANLINES(f, n)
<1>1. Half(m) \in Nat /\ Half(n) \in Nat /\ Half(m) <= Half(n)
  BY Halved, HalvedGrows
<1> QED BY <1>1, Alignments DEF MMM_COLOR_FMT_UV_SCANLINES

\* Metadata of a plane, for tiles of any size.
LEMMA MetaGrows ==
  ASSUME NEW m \in Nat, NEW n \in Nat, m <= n, NEW tile, tile[1] \in Nat, tile[1] > 0, tile[2] \in Nat, tile[2] > 0
  PROVE  /\ MetaStride(m, tile) \in Nat /\ MetaStride(m, tile) <= MetaStride(n, tile)
         /\ MetaScanlines(m, tile) \in Nat /\ MetaScanlines(m, tile) <= MetaScanlines(n, tile)
         /\ MetaStride(m, tile) * tile[1] >= m /\ MetaScanlines(m, tile) * tile[2] >= m
<1>1. ASSUME NEW r \in Nat, r > 0, NEW a \in Nat, a > 0
      PROVE  LET s(k) == MMM_COLOR_FMT_ALIGN(MMM_COLOR_FMT_ROUNDUP(k, r), a)
             IN  s(m) \in Nat /\ s(m) <= s(n) /\ s(m) * r >= m
  <2>1. PICK p, q \in Nat : p = MMM_COLOR_FMT_ROUNDUP(m, r) /\ q = MMM_COLOR_FMT_ROUNDUP(n, r)
    BY <1>1, RoundedUp, Zenon
  <2>6. p <= q
    BY <1>1, <2>1, RoundedUpGrows
  <2>2. PICK s \in Nat : s = MMM_COLOR_FMT_ALIGN(p, a)
    BY <1>1, Aligned
  <2>7. p <= s /\ s <= MMM_COLOR_FMT_ALIGN(q, a)
    BY <1>1, <2>2, <2>6, Alignments
  <2>3. p * r >= m /\ p * r \in Nat
    BY <1>1, <2>1, RoundedUp
  <2>4. p * r <= s * r /\ s * r \in Nat
    BY <1>1, <2>7, ProductGrows
  <2>5. s * r >= m
    BY <2>3, <2>4
  <2> QED BY <2>1, <2>2, <2>5, <2>7
<1> QED BY <1>1 DEF MetaStride, MetaScanlines

\* A tile has a width and a height; half of it is wide enough for the second plane.
LEMMA Tiles ==
  ASSUME NEW f \in mmm_color_fmts
  PROVE  /\ f \in UbwcYuv => /\ YTile(f)[1] \in Nat /\ YTile(f)[1] > 0 /\ YTile(f)[2] \in Nat /\ YTile(f)[2] > 0
                             /\ UVTile(f)[1] \in Nat /\ UVTile(f)[1] > 0 /\ UVTile(f)[2] \in Nat /\ UVTile(f)[2] > 0
         /\ RgbTile(f)[1] \in Nat /\ RgbTile(f)[1] > 0 /\ RgbTile(f)[2] \in Nat /\ RgbTile(f)[2] > 0
         /\ RgbBytes(f) \in Nat /\ RgbBytes(f) > 0
<1>1. CASE f = "NV12_UBWC"
  BY <1>1 DEF YTile, UVTile, RgbTile, RgbBytes
<1>2. CASE f = "P010_UBWC"
  BY <1>2 DEF YTile, UVTile, RgbTile, RgbBytes
<1>3. CASE f = "NV12_BPP10_UBWC"
  BY <1>3 DEF YTile, UVTile, RgbTile, RgbBytes
<1>4. CASE f \notin UbwcYuv
  BY <1>4 DEF RgbTile, RgbBytes
<1> QED BY <1>1, <1>2, <1>3, <1>4 DEF UbwcYuv

\* The metadata of luma and chroma grow with the picture.
LEMMA YuvMetaGrows ==
  ASSUME NEW f \in mmm_color_fmts, NEW m \in Nat, NEW n \in Nat, m <= n
  PROVE  /\ MMM_COLOR_FMT_Y_META_STRIDE(f, m) \in Nat
         /\ MMM_COLOR_FMT_Y_META_STRIDE(f, m) <= MMM_COLOR_FMT_Y_META_STRIDE(f, n)
         /\ MMM_COLOR_FMT_Y_META_SCANLINES(f, m) \in Nat
         /\ MMM_COLOR_FMT_Y_META_SCANLINES(f, m) <= MMM_COLOR_FMT_Y_META_SCANLINES(f, n)
         /\ MMM_COLOR_FMT_UV_META_STRIDE(f, m) \in Nat
         /\ MMM_COLOR_FMT_UV_META_STRIDE(f, m) <= MMM_COLOR_FMT_UV_META_STRIDE(f, n)
         /\ MMM_COLOR_FMT_UV_META_SCANLINES(f, m) \in Nat
         /\ MMM_COLOR_FMT_UV_META_SCANLINES(f, m) <= MMM_COLOR_FMT_UV_META_SCANLINES(f, n)
<1>1. CASE f \notin UbwcYuv
  BY <1>1 DEF MMM_COLOR_FMT_Y_META_STRIDE, MMM_COLOR_FMT_Y_META_SCANLINES,
              MMM_COLOR_FMT_UV_META_STRIDE, MMM_COLOR_FMT_UV_META_SCANLINES
<1>2. CASE f \in UbwcYuv
  <2>1. /\ YTile(f)[1] \in Nat /\ YTile(f)[1] > 0 /\ YTile(f)[2] \in Nat /\ YTile(f)[2] > 0
        /\ UVTile(f)[1] \in Nat /\ UVTile(f)[1] > 0 /\ UVTile(f)[2] \in Nat /\ UVTile(f)[2] > 0
    BY <1>2, Tiles, Zenon
  <2>2. Half(m) \in Nat /\ Half(n) \in Nat /\ Half(m) <= Half(n)
    BY Halved, HalvedGrows
  <2>3. /\ MetaStride(m, YTile(f)) \in Nat /\ MetaStride(n, YTile(f)) \in Nat
        /\ MetaStride(m, YTile(f)) <= MetaStride(n, YTile(f))
        /\ MetaScanlines(m, YTile(f)) \in Nat /\ MetaScanlines(n, YTile(f)) \in Nat
        /\ MetaScanlines(m, YTile(f)) <= MetaScanlines(n, YTile(f))
    <3>1. n <= n
      OBVIOUS
    <3> QED BY <2>1, <3>1, MetaGrows, Zenon
  <2>4. /\ MetaStride(Half(m), UVTile(f)) \in Nat /\ MetaStride(Half(n), UVTile(f)) \in Nat
        /\ MetaStride(Half(m), UVTile(f)) <= MetaStride(Half(n), UVTile(f))
        /\ MetaScanlines(Half(m), UVTile(f)) \in Nat /\ MetaScanlines(Half(n), UVTile(f)) \in Nat
        /\ MetaScanlines(Half(m), UVTile(f)) <= MetaScanlines(Half(n), UVTile(f))
    BY <2>1, <2>2, MetaGrows
  <2> QED BY <1>2, <2>3, <2>4 DEF MMM_COLOR_FMT_Y_META_STRIDE, MMM_COLOR_FMT_Y_META_SCANLINES,
              MMM_COLOR_FMT_UV_META_STRIDE, MMM_COLOR_FMT_UV_META_SCANLINES
<1> QED BY <1>1, <1>2

\* So do an RGB plane and its metadata.
LEMMA RgbGrows ==
  ASSUME NEW f \in mmm_color_fmts, NEW m \in Nat, NEW n \in Nat, m <= n
  PROVE  /\ MMM_COLOR_FMT_RGB_STRIDE(f, m) \in Nat
         /\ MMM_COLOR_FMT_RGB_STRIDE(f, m) <= MMM_COLOR_FMT_RGB_STRIDE(f, n)
         /\ MMM_COLOR_FMT_RGB_SCANLINES(f, m) \in Nat
         /\ MMM_COLOR_FMT_RGB_SCANLINES(f, m) <= MMM_COLOR_FMT_RGB_SCANLINES(f, n)
         /\ MMM_COLOR_FMT_RGB_META_STRIDE(f, m) \in Nat
         /\ MMM_COLOR_FMT_RGB_META_STRIDE(f, m) <= MMM_COLOR_FMT_RGB_META_STRIDE(f, n)
         /\ MMM_COLOR_FMT_RGB_META_SCANLINES(f, m) \in Nat
         /\ MMM_COLOR_FMT_RGB_META_SCANLINES(f, m) <= MMM_COLOR_FMT_RGB_META_SCANLINES(f, n)
<1>1. /\ RgbTile(f)[1] \in Nat /\ RgbTile(f)[1] > 0 /\ RgbTile(f)[2] \in Nat /\ RgbTile(f)[2] > 0
      /\ RgbBytes(f) \in Nat /\ RgbBytes(f) > 0
  BY Tiles, Zenon
<1>2. /\ MetaStride(m, RgbTile(f)) \in Nat /\ MetaStride(n, RgbTile(f)) \in Nat
      /\ MetaStride(m, RgbTile(f)) <= MetaStride(n, RgbTile(f))
      /\ MetaScanlines(m, RgbTile(f)) \in Nat /\ MetaScanlines(n, RgbTile(f)) \in Nat
      /\ MetaScanlines(m, RgbTile(f)) <= MetaScanlines(n, RgbTile(f))
  BY <1>1, MetaGrows
<1>3. m * RgbBytes(f) \in Nat /\ n * RgbBytes(f) \in Nat /\ m * RgbBytes(f) <= n * RgbBytes(f)
  BY <1>1, ProductGrows
<1>4. /\ MMM_COLOR_FMT_ALIGN(m * RgbBytes(f), 256) \in Nat /\ MMM_COLOR_FMT_ALIGN(n * RgbBytes(f), 256) \in Nat
      /\ MMM_COLOR_FMT_ALIGN(m * RgbBytes(f), 256) <= MMM_COLOR_FMT_ALIGN(n * RgbBytes(f), 256)
  BY <1>3, Alignments
<1>5. /\ MMM_COLOR_FMT_RGB_STRIDE(f, m) \in Nat
      /\ MMM_COLOR_FMT_RGB_STRIDE(f, m) <= MMM_COLOR_FMT_RGB_STRIDE(f, n)
  BY <1>4 DEF MMM_COLOR_FMT_RGB_STRIDE
<1>6. /\ MMM_COLOR_FMT_RGB_SCANLINES(f, m) \in Nat
      /\ MMM_COLOR_FMT_RGB_SCANLINES(f, m) <= MMM_COLOR_FMT_RGB_SCANLINES(f, n)
  BY Alignments DEF MMM_COLOR_FMT_RGB_SCANLINES
<1> QED BY <1>2, <1>5, <1>6 DEF MMM_COLOR_FMT_RGB_META_STRIDE, MMM_COLOR_FMT_RGB_META_SCANLINES

\* Every sample and every tile of a picture lies within its planes.
LEMMA AllCovered ==
  ASSUME NEW f \in mmm_color_fmts, NEW w \in Nat, NEW h \in Nat, w > 0, h > 0
  PROVE  Covers(f, w, h)
<1>1. CASE f \in LinearYuv \cup UbwcYuv
  <2>1. /\ MMM_COLOR_FMT_Y_STRIDE(f, w) >= RowBytes(f, w)
        /\ w % 2 = 1 => MMM_COLOR_FMT_Y_STRIDE(f, w) >= RowBytes(f, w + 1)
    <3>1. CASE f = "NV12_512"
      BY <3>1 DEF MMM_COLOR_FMT_Y_STRIDE, MMM_COLOR_FMT_ALIGN, MMM_COLOR_FMT_ROUNDUP, RowBytes, UbwcRgb
    <3>2. CASE f \in {"NV12", "NV21", "NV12_UBWC"}
      BY <3>2 DEF MMM_COLOR_FMT_Y_STRIDE, MMM_COLOR_FMT_ALIGN, MMM_COLOR_FMT_ROUNDUP, RowBytes, UbwcRgb
    <3>3. CASE f = "NV12_BPP10_UBWC"
      BY <3>3 DEF MMM_COLOR_FMT_Y_STRIDE, MMM_COLOR_FMT_ALIGN, MMM_COLOR_FMT_ROUNDUP, RowBytes, UbwcRgb
    <3>4. CASE f \in {"P010_UBWC", "P010"}
      BY <3>4 DEF MMM_COLOR_FMT_Y_STRIDE, MMM_COLOR_FMT_ALIGN, MMM_COLOR_FMT_ROUNDUP, RowBytes, UbwcRgb
    <3>5. CASE f = "P010_512"
      BY <3>5 DEF MMM_COLOR_FMT_Y_STRIDE, MMM_COLOR_FMT_ALIGN, MMM_COLOR_FMT_ROUNDUP, RowBytes, UbwcRgb
    <3> QED BY <1>1, <3>1, <3>2, <3>3, <3>4, <3>5 DEF LinearYuv, UbwcYuv
  <2>2. MMM_COLOR_FMT_Y_SCANLINES(f, h) >= h
    BY <1>1, Aligned DEF MMM_COLOR_FMT_Y_SCANLINES, LinearYuv, UbwcYuv
  <2>3. 2 * MMM_COLOR_FMT_UV_SCANLINES(f, h) >= h
    <3>1. Half(h) \in Nat /\ 2 * Half(h) >= h
      BY Halved
    <3>2. MMM_COLOR_FMT_UV_SCANLINES(f, h) \in Nat /\ MMM_COLOR_FMT_UV_SCANLINES(f, h) >= Half(h)
      BY <1>1, <3>1, Aligned DEF MMM_COLOR_FMT_UV_SCANLINES, LinearYuv, UbwcYuv
    <3> QED BY <3>1, <3>2
  <2>4. ASSUME f \in UbwcYuv
        PROVE  /\ MMM_COLOR_FMT_Y_META_STRIDE(f, w) * YTile(f)[1] >= w
               /\ MMM_COLOR_FMT_Y_META_SCANLINES(f, h) * YTile(f)[2] >= h
               /\ MMM_COLOR_FMT_UV_META_STRIDE(f, w) * UVTile(f)[1] * 2 >= w
               /\ MMM_COLOR_FMT_UV_META_SCANLINES(f, h) * UVTile(f)[2] * 2 >= h
    <3>1. /\ YTile(f)[1] \in Nat /\ YTile(f)[1] > 0 /\ YTile(f)[2] \in Nat /\ YTile(f)[2] > 0
          /\ UVTile(f)[1] \in Nat /\ UVTile(f)[1] > 0 /\ UVTile(f)[2] \in Nat /\ UVTile(f)[2] > 0
      BY <2>4, Tiles, Zenon
    <3>2. Half(w) \in Nat /\ 2 * Half(w) >= w /\ Half(h) \in Nat /\ 2 * Half(h) >= h
      BY Halved
    <3>3. MetaStride(w, YTile(f)) * YTile(f)[1] >= w /\ MetaScanlines(h, YTile(f)) * YTile(f)[2] >= h
      <4>1. w <= w /\ h <= h
        OBVIOUS
      <4> QED BY <3>1, <4>1, MetaGrows, Zenon
    <3>4. /\ MetaStride(Half(w), UVTile(f)) * UVTile(f)[1] >= Half(w)
          /\ MetaScanlines(Half(h), UVTile(f)) * UVTile(f)[2] >= Half(h)
      <4>1. Half(w) <= Half(w) /\ Half(h) <= Half(h)
        BY <3>2
      <4> QED BY <3>1, <3>2, <4>1, MetaGrows, Zenon
    <3>5. MetaStride(Half(w), UVTile(f)) \in Nat /\ MetaScanlines(Half(h), UVTile(f)) \in Nat
      BY <3>1, <3>2, MetaGrows
    <3>6. MetaStride(Half(w), UVTile(f)) * UVTile(f)[1] \in Nat /\ MetaScanlines(Half(h), UVTile(f)) * UVTile(f)[2] \in Nat
      BY <3>1, <3>5
    <3>7. /\ MetaStride(Half(w), UVTile(f)) * UVTile(f)[1] * 2 >= w
          /\ MetaScanlines(Half(h), UVTile(f)) * UVTile(f)[2] * 2 >= h
      <4>1. PICK x, y \in Nat : /\ x = MetaStride(Half(w), UVTile(f)) * UVTile(f)[1]
                                /\ y = MetaScanlines(Half(h), UVTile(f)) * UVTile(f)[2]
        BY <3>6, Zenon
      <4>2. x >= Half(w) /\ y >= Half(h)
        BY <3>4, <4>1, Zenon
      <4>3. x * 2 >= w /\ y * 2 >= h
        BY <3>2, <4>2
      <4> QED BY <4>1, <4>3, Zenon
    <3> QED BY <2>4, <3>3, <3>7 DEF MMM_COLOR_FMT_Y_META_STRIDE, MMM_COLOR_FMT_Y_META_SCANLINES,
              MMM_COLOR_FMT_UV_META_STRIDE, MMM_COLOR_FMT_UV_META_SCANLINES
  <2> QED BY <1>1, <2>1, <2>2, <2>3, <2>4, Zenon DEF Covers, MMM_COLOR_FMT_UV_STRIDE
<1>2. CASE f \in UbwcRgb \cup {"RGBA8888"}
  <2>1. /\ RgbTile(f)[1] \in Nat /\ RgbTile(f)[1] > 0 /\ RgbTile(f)[2] \in Nat /\ RgbTile(f)[2] > 0
        /\ RgbBytes(f) \in Nat /\ RgbBytes(f) > 0
    BY Tiles, Zenon
  <2>2. w * RgbBytes(f) \in Nat /\ RowBytes(f, w) = w * RgbBytes(f)
    <3>1. RowBytes(f, w) = RgbBytes(f) * w
      BY <1>2 DEF RowBytes, UbwcRgb
    <3> QED BY <2>1, <3>1
  <2>3. MMM_COLOR_FMT_RGB_STRIDE(f, w) >= RowBytes(f, w)
    <3>1. MMM_COLOR_FMT_ALIGN(w * RgbBytes(f), 256) >= w * RgbBytes(f)
      BY <2>2, Aligned
    <3>2. MMM_COLOR_FMT_RGB_STRIDE(f, w) = MMM_COLOR_FMT_ALIGN(w * RgbBytes(f), 256)
      BY <1>2 DEF MMM_COLOR_FMT_RGB_STRIDE
    <3> QED BY <2>2, <3>1, <3>2
  <2>4. MMM_COLOR_FMT_RGB_SCANLINES(f, h) >= h
    BY <1>2, Aligned DEF MMM_COLOR_FMT_RGB_SCANLINES, UbwcRgb
  <2>5. ASSUME f \in UbwcRgb
        PROVE  /\ MMM_COLOR_FMT_RGB_META_STRIDE(f, w) * RgbTile(f)[1] >= w
               /\ MMM_COLOR_FMT_RGB_META_SCANLINES(f, h) * RgbTile(f)[2] >= h
    BY <2>1, <2>5, MetaGrows DEF MMM_COLOR_FMT_RGB_META_STRIDE, MMM_COLOR_FMT_RGB_META_SCANLINES
  <2>6. f \notin LinearYuv \cup UbwcYuv
    BY <1>2 DEF UbwcRgb, LinearYuv, UbwcYuv
  <2> QED BY <2>3, <2>4, <2>5, <2>6, Zenon DEF Covers
<1> QED BY <1>1, <1>2 DEF mmm_color_fmts

-----------------------------------------------------------------------------
(* Planes and buffers. *)

CfY(f, w, h)      == MMM_COLOR_FMT_Y_STRIDE(f, w) * MMM_COLOR_FMT_Y_SCANLINES(f, h)
CfUV(f, w, h)     == MMM_COLOR_FMT_UV_STRIDE(f, w) * MMM_COLOR_FMT_UV_SCANLINES(f, h)
CfYMeta(f, w, h)  == MMM_COLOR_FMT_Y_META_STRIDE(f, w) * MMM_COLOR_FMT_Y_META_SCANLINES(f, h)
CfUVMeta(f, w, h) == MMM_COLOR_FMT_UV_META_STRIDE(f, w) * MMM_COLOR_FMT_UV_META_SCANLINES(f, h)
CfRgb(f, w, h)     == MMM_COLOR_FMT_RGB_STRIDE(f, w) * MMM_COLOR_FMT_RGB_SCANLINES(f, h)
CfRgbMeta(f, w, h) == MMM_COLOR_FMT_RGB_META_STRIDE(f, w) * MMM_COLOR_FMT_RGB_META_SCANLINES(f, h)

\* No plane shrinks when the picture grows.
LEMMA PlanesGrow ==
  ASSUME NEW f \in mmm_color_fmts, NEW v \in Nat, NEW w \in Nat, NEW g \in Nat, NEW h \in Nat, v <= w, g <= h
  PROVE  /\ CfY(f, v, g) \in Nat /\ CfY(f, v, g) <= CfY(f, w, h)
         /\ CfUV(f, v, g) \in Nat /\ CfUV(f, v, g) <= CfUV(f, w, h)
         /\ CfYMeta(f, v, g) \in Nat /\ CfYMeta(f, v, g) <= CfYMeta(f, w, h)
         /\ CfUVMeta(f, v, g) \in Nat /\ CfUVMeta(f, v, g) <= CfUVMeta(f, w, h)
         /\ CfRgb(f, v, g) \in Nat /\ CfRgb(f, v, g) <= CfRgb(f, w, h)
         /\ CfRgbMeta(f, v, g) \in Nat /\ CfRgbMeta(f, v, g) <= CfRgbMeta(f, w, h)
<1>1. CfY(f, v, g) \in Nat /\ CfY(f, v, g) <= CfY(f, w, h)
  <2>1. MMM_COLOR_FMT_Y_STRIDE(f, v) \in Nat /\ MMM_COLOR_FMT_Y_STRIDE(f, w) \in Nat
        /\ MMM_COLOR_FMT_Y_STRIDE(f, v) <= MMM_COLOR_FMT_Y_STRIDE(f, w)
    BY YStrideGrows
  <2>2. MMM_COLOR_FMT_Y_SCANLINES(f, g) \in Nat /\ MMM_COLOR_FMT_Y_SCANLINES(f, h) \in Nat
        /\ MMM_COLOR_FMT_Y_SCANLINES(f, g) <= MMM_COLOR_FMT_Y_SCANLINES(f, h)
    BY YScanlinesGrow
  <2> QED BY <2>1, <2>2, ProductGrows DEF CfY
<1>2. CfUV(f, v, g) \in Nat /\ CfUV(f, v, g) <= CfUV(f, w, h)
  <2>1. MMM_COLOR_FMT_UV_STRIDE(f, v) \in Nat /\ MMM_COLOR_FMT_UV_STRIDE(f, w) \in Nat
        /\ MMM_COLOR_FMT_UV_STRIDE(f, v) <= MMM_COLOR_FMT_UV_STRIDE(f, w)
    BY YStrideGrows DEF MMM_COLOR_FMT_UV_STRIDE
  <2>2. MMM_COLOR_FMT_UV_SCANLINES(f, g) \in Nat /\ MMM_COLOR_FMT_UV_SCANLINES(f, h) \in Nat
        /\ MMM_COLOR_FMT_UV_SCANLINES(f, g) <= MMM_COLOR_FMT_UV_SCANLINES(f, h)
    BY UVScanlinesGrow
  <2> QED BY <2>1, <2>2, ProductGrows DEF CfUV
<1>3. CfYMeta(f, v, g) \in Nat /\ CfYMeta(f, v, g) <= CfYMeta(f, w, h)
  <2>1. MMM_COLOR_FMT_Y_META_STRIDE(f, v) \in Nat /\ MMM_COLOR_FMT_Y_META_STRIDE(f, w) \in Nat
        /\ MMM_COLOR_FMT_Y_META_STRIDE(f, v) <= MMM_COLOR_FMT_Y_META_STRIDE(f, w)
    BY YuvMetaGrows
  <2>2. MMM_COLOR_FMT_Y_META_SCANLINES(f, g) \in Nat /\ MMM_COLOR_FMT_Y_META_SCANLINES(f, h) \in Nat
        /\ MMM_COLOR_FMT_Y_META_SCANLINES(f, g) <= MMM_COLOR_FMT_Y_META_SCANLINES(f, h)
    BY YuvMetaGrows
  <2> QED BY <2>1, <2>2, ProductGrows DEF CfYMeta
<1>4. CfUVMeta(f, v, g) \in Nat /\ CfUVMeta(f, v, g) <= CfUVMeta(f, w, h)
  <2>1. MMM_COLOR_FMT_UV_META_STRIDE(f, v) \in Nat /\ MMM_COLOR_FMT_UV_META_STRIDE(f, w) \in Nat
        /\ MMM_COLOR_FMT_UV_META_STRIDE(f, v) <= MMM_COLOR_FMT_UV_META_STRIDE(f, w)
    BY YuvMetaGrows
  <2>2. MMM_COLOR_FMT_UV_META_SCANLINES(f, g) \in Nat /\ MMM_COLOR_FMT_UV_META_SCANLINES(f, h) \in Nat
        /\ MMM_COLOR_FMT_UV_META_SCANLINES(f, g) <= MMM_COLOR_FMT_UV_META_SCANLINES(f, h)
    BY YuvMetaGrows
  <2> QED BY <2>1, <2>2, ProductGrows DEF CfUVMeta
<1>5. CfRgb(f, v, g) \in Nat /\ CfRgb(f, v, g) <= CfRgb(f, w, h)
  <2>1. MMM_COLOR_FMT_RGB_STRIDE(f, v) \in Nat /\ MMM_COLOR_FMT_RGB_STRIDE(f, w) \in Nat
        /\ MMM_COLOR_FMT_RGB_STRIDE(f, v) <= MMM_COLOR_FMT_RGB_STRIDE(f, w)
    BY RgbGrows
  <2>2. MMM_COLOR_FMT_RGB_SCANLINES(f, g) \in Nat /\ MMM_COLOR_FMT_RGB_SCANLINES(f, h) \in Nat
        /\ MMM_COLOR_FMT_RGB_SCANLINES(f, g) <= MMM_COLOR_FMT_RGB_SCANLINES(f, h)
    BY RgbGrows
  <2> QED BY <2>1, <2>2, ProductGrows DEF CfRgb
<1>6. CfRgbMeta(f, v, g) \in Nat /\ CfRgbMeta(f, v, g) <= CfRgbMeta(f, w, h)
  <2>1. MMM_COLOR_FMT_RGB_META_STRIDE(f, v) \in Nat /\ MMM_COLOR_FMT_RGB_META_STRIDE(f, w) \in Nat
        /\ MMM_COLOR_FMT_RGB_META_STRIDE(f, v) <= MMM_COLOR_FMT_RGB_META_STRIDE(f, w)
    BY RgbGrows
  <2>2. MMM_COLOR_FMT_RGB_META_SCANLINES(f, g) \in Nat /\ MMM_COLOR_FMT_RGB_META_SCANLINES(f, h) \in Nat
        /\ MMM_COLOR_FMT_RGB_META_SCANLINES(f, g) <= MMM_COLOR_FMT_RGB_META_SCANLINES(f, h)
    BY RgbGrows
  <2> QED BY <2>1, <2>2, ProductGrows DEF CfRgbMeta
<1> QED BY <1>1, <1>2, <1>3, <1>4, <1>5, <1>6, Zenon

\* Which planes a format has.
LEMMA PlanesOf ==
  ASSUME NEW f \in mmm_color_fmts, NEW w \in Nat, NEW h \in Nat
  PROVE  /\ f \notin UbwcYuv => CfYMeta(f, w, h) = 0 /\ CfUVMeta(f, w, h) = 0
         /\ f \in LinearYuv \cup UbwcYuv => CfRgb(f, w, h) = 0 /\ CfRgbMeta(f, w, h) = 0
         /\ f \notin LinearYuv \cup UbwcYuv => CfY(f, w, h) = 0 /\ CfUV(f, w, h) = 0
<1>1. /\ MMM_COLOR_FMT_Y_SCANLINES(f, h) \in Nat /\ MMM_COLOR_FMT_UV_SCANLINES(f, h) \in Nat
      /\ MMM_COLOR_FMT_RGB_SCANLINES(f, h) \in Nat
  BY YScanlinesGrow, UVScanlinesGrow, RgbGrows
<1>2. ASSUME f \notin UbwcYuv PROVE CfYMeta(f, w, h) = 0 /\ CfUVMeta(f, w, h) = 0
  BY <1>2 DEF CfYMeta, CfUVMeta, MMM_COLOR_FMT_Y_META_STRIDE, MMM_COLOR_FMT_Y_META_SCANLINES,
              MMM_COLOR_FMT_UV_META_STRIDE, MMM_COLOR_FMT_UV_META_SCANLINES
<1>3. ASSUME f \in LinearYuv \cup UbwcYuv PROVE CfRgb(f, w, h) = 0 /\ CfRgbMeta(f, w, h) = 0
  <2>1. f \notin UbwcRgb /\ f # "RGBA8888"
    BY <1>3 DEF LinearYuv, UbwcYuv, UbwcRgb
  <2> QED BY <1>1, <2>1 DEF CfRgb, CfRgbMeta, MMM_COLOR_FMT_RGB_STRIDE, MMM_COLOR_FMT_RGB_META_STRIDE,
              MMM_COLOR_FMT_RGB_META_SCANLINES
<1>4. ASSUME f \notin LinearYuv \cup UbwcYuv PROVE CfY(f, w, h) = 0 /\ CfUV(f, w, h) = 0
  <2>1. MMM_COLOR_FMT_Y_STRIDE(f, w) = 0
    BY <1>4 DEF MMM_COLOR_FMT_Y_STRIDE, LinearYuv, UbwcYuv
  <2> QED BY <1>1, <2>1 DEF CfY, CfUV, MMM_COLOR_FMT_UV_STRIDE
<1> QED BY <1>2, <1>3, <1>4, Zenon

\* A picture has samples.
LEMMA PlanesPositive ==
  ASSUME NEW f \in mmm_color_fmts, NEW w \in Nat, NEW h \in Nat, w > 0, h > 0
  PROVE  CfY(f, w, h) + CfRgb(f, w, h) > 0
<1>1. CfY(f, w, h) \in Nat /\ CfRgb(f, w, h) \in Nat
  BY PlanesGrow
<1>2. Covers(f, w, h)
  BY AllCovered
<1>3. CASE f \in LinearYuv \cup UbwcYuv
  <2>1. MMM_COLOR_FMT_Y_STRIDE(f, w) \in Nat /\ MMM_COLOR_FMT_Y_SCANLINES(f, h) \in Nat
    BY YStrideGrows, YScanlinesGrow
  <2>2. MMM_COLOR_FMT_Y_STRIDE(f, w) >= RowBytes(f, w) /\ MMM_COLOR_FMT_Y_SCANLINES(f, h) >= h
    BY <1>2, <1>3, Zenon DEF Covers
  <2>3. RowBytes(f, w) \in Nat /\ RowBytes(f, w) > 0
    BY <1>3 DEF RowBytes, LinearYuv, UbwcYuv, UbwcRgb, MMM_COLOR_FMT_ROUNDUP
  <2>4. MMM_COLOR_FMT_Y_STRIDE(f, w) > 0 /\ MMM_COLOR_FMT_Y_SCANLINES(f, h) > 0
    BY <2>1, <2>2, <2>3
  <2>5. CfY(f, w, h) > 0
    BY <2>1, <2>4, ProductPositive DEF CfY
  <2> QED BY <1>1, <2>5
<1>4. CASE f \notin LinearYuv \cup UbwcYuv
  <2>1. MMM_COLOR_FMT_RGB_STRIDE(f, w) \in Nat /\ MMM_COLOR_FMT_RGB_SCANLINES(f, h) \in Nat
    BY RgbGrows
  <2>2. MMM_COLOR_FMT_RGB_STRIDE(f, w) >= RowBytes(f, w) /\ MMM_COLOR_FMT_RGB_SCANLINES(f, h) >= h
    BY <1>2, <1>4, Zenon DEF Covers
  <2>3. RowBytes(f, w) \in Nat /\ RowBytes(f, w) > 0
    <3>1. RgbBytes(f) \in Nat /\ RgbBytes(f) > 0
      BY Tiles, Zenon
    <3>2. RowBytes(f, w) = RgbBytes(f) * w
      BY <1>4 DEF RowBytes, mmm_color_fmts, LinearYuv, UbwcYuv, UbwcRgb
    <3>3. RgbBytes(f) * w \in Nat /\ RgbBytes(f) * w > 0
      BY <3>1, ProductPositive
    <3> QED BY <3>2, <3>3
  <2>4. MMM_COLOR_FMT_RGB_STRIDE(f, w) > 0 /\ MMM_COLOR_FMT_RGB_SCANLINES(f, h) > 0
    BY <2>1, <2>2, <2>3
  <2>5. CfRgb(f, w, h) > 0
    BY <2>1, <2>4, ProductPositive DEF CfRgb
  <2> QED BY <1>1, <2>5
<1> QED BY <1>3, <1>4

\* The compressed planes take whole pages, and more of them for a larger picture.
LEMMA UbwcGrows ==
  ASSUME NEW f \in mmm_color_fmts, NEW v \in Nat, NEW w \in Nat, NEW g \in Nat, NEW h \in Nat, v <= w, g <= h
  PROVE  /\ UbwcPlanes(f, v, g) \in Nat /\ UbwcPlanes(f, v, g) <= UbwcPlanes(f, w, h)
         /\ UbwcPlanes(f, v, g) >= CfY(f, v, g) + CfUV(f, v, g) + CfYMeta(f, v, g) + CfUVMeta(f, v, g)
<1>1. PICK a, b, c, d \in Nat : a = CfY(f, v, g) /\ b = CfUV(f, v, g) /\ c = CfYMeta(f, v, g) /\ d = CfUVMeta(f, v, g)
  BY PlanesGrow, Zenon
<1>2. PICK p, q, r, s \in Nat : p = CfY(f, w, h) /\ q = CfUV(f, w, h) /\ r = CfYMeta(f, w, h) /\ s = CfUVMeta(f, w, h)
  <2>1. w <= w /\ h <= h
    OBVIOUS
  <2>2. CfY(f, w, h) \in Nat /\ CfUV(f, w, h) \in Nat /\ CfYMeta(f, w, h) \in Nat /\ CfUVMeta(f, w, h) \in Nat
    BY <2>1, PlanesGrow, Zenon
  <2> QED BY <2>2, Zenon
<1>3. a <= p /\ b <= q /\ c <= r /\ d <= s
  BY <1>1, <1>2, PlanesGrow, Zenon
<1>4. UbwcPlanes(f, v, g) = Page(a) + Page(b) + Page(c) + Page(d)
  BY <1>1, Zenon DEF UbwcPlanes, CfY, CfUV, CfYMeta, CfUVMeta
<1>5. UbwcPlanes(f, w, h) = Page(p) + Page(q) + Page(r) + Page(s)
  BY <1>2, Zenon DEF UbwcPlanes, CfY, CfUV, CfYMeta, CfUVMeta
<1>6. Page(a) \in Nat /\ Page(b) \in Nat /\ Page(c) \in Nat /\ Page(d) \in Nat
      /\ a <= Page(a) /\ b <= Page(b) /\ c <= Page(c) /\ d <= Page(d)
  BY Paged
<1>7. Page(p) \in Nat /\ Page(q) \in Nat /\ Page(r) \in Nat /\ Page(s) \in Nat
  BY Paged
<1>8. Page(a) <= Page(p) /\ Page(b) <= Page(q) /\ Page(c) <= Page(r) /\ Page(d) <= Page(s)
  BY <1>3, PagedGrows
<1> QED BY <1>1, <1>4, <1>5, <1>6, <1>7, <1>8

\* Rounding up what is at most twice as much.
LEMMA RoundedUpTwice ==
  ASSUME NEW m \in Nat, NEW n \in Nat, NEW r \in Nat, r > 0, m <= 2 * n
  PROVE  MMM_COLOR_FMT_ROUNDUP(m, r) <= 2 * MMM_COLOR_FMT_ROUNDUP(n, r)
<1>1. PICK a, b \in Nat : a = MMM_COLOR_FMT_ROUNDUP(m, r) /\ b = MMM_COLOR_FMT_ROUNDUP(n, r)
  BY RoundedUp, Zenon
<1>2. a * r < m + r /\ n <= b * r
  BY <1>1, RoundedUp
<1>3. SUFFICES ASSUME 2 * b + 1 <= a PROVE FALSE
  BY <1>1
<1>4. (2 * b + 1) * r <= a * r
  BY <1>3, ProductGrows
<1>5. (2 * b + 1) * r = 2 * (b * r) + r
  OBVIOUS
<1>6. a * r \in Nat /\ b * r \in Nat
  OBVIOUS
<1> QED BY <1>2, <1>4, <1>5, <1>6

\* Aligning what is at most twice as much.
LEMMA AlignedTwice ==
  ASSUME NEW m \in Nat, NEW n \in Nat, NEW a \in Nat, a > 0, m <= 2 * n
  PROVE  MMM_COLOR_FMT_ALIGN(m, a) <= 2 * MMM_COLOR_FMT_ALIGN(n, a)
<1>1. PICK p, q \in Nat : p = MMM_COLOR_FMT_ROUNDUP(m, a) /\ q = MMM_COLOR_FMT_ROUNDUP(n, a)
  BY RoundedUp, Zenon
<1>2. p <= 2 * q
  BY <1>1, RoundedUpTwice
<1>3. p * a <= (2 * q) * a
  BY <1>2, ProductGrows
<1>4. (2 * q) * a = 2 * (q * a)
  OBVIOUS
<1> QED BY <1>1, <1>3, <1>4 DEF MMM_COLOR_FMT_ALIGN

\* Two fields have at least the scan lines of the picture.
LEMMA FieldScanlines ==
  ASSUME NEW f, f = "NV12_UBWC", NEW h \in Nat, h > 0
  PROVE  /\ MMM_COLOR_FMT_Y_SCANLINES(f, h) <= 2 * MMM_COLOR_FMT_Y_SCANLINES(f, Half(h))
         /\ MMM_COLOR_FMT_UV_SCANLINES(f, h) <= 2 * MMM_COLOR_FMT_UV_SCANLINES(f, Half(h))
         /\ MMM_COLOR_FMT_Y_META_SCANLINES(f, h) <= 2 * MMM_COLOR_FMT_Y_META_SCANLINES(f, Half(h))
         /\ MMM_COLOR_FMT_UV_META_SCANLINES(f, h) <= 2 * MMM_COLOR_FMT_UV_META_SCANLINES(f, Half(h))
<1>1. PICK k, l \in Nat : k = Half(h) /\ l = Half(k) /\ h <= 2 * k /\ k <= 2 * l /\ k > 0
  <2>1. PICK k \in Nat : k = Half(h) /\ h <= 2 * k
    BY Halved, Zenon
  <2>2. Half(k) \in Nat /\ k <= 2 * Half(k)
    BY Halved
  <2> QED BY <2>1, <2>2
<1>2. MMM_COLOR_FMT_ALIGN(h, 32) <= 2 * MMM_COLOR_FMT_ALIGN(k, 32)
      /\ MMM_COLOR_FMT_ALIGN(k, 32) <= 2 * MMM_COLOR_FMT_ALIGN(l, 32)
  BY <1>1, AlignedTwice
<1>3. PICK a, b, c \in Nat : a = MMM_COLOR_FMT_ROUNDUP(h, 8) /\ b = MMM_COLOR_FMT_ROUNDUP(k, 8) /\ c = MMM_COLOR_FMT_ROUNDUP(l, 8)
  <2>1. \A n \in Nat : MMM_COLOR_FMT_ROUNDUP(n, 8) \in Nat
    BY RoundedUp
  <2> QED BY <2>1, Zenon
<1>4. a <= 2 * b /\ b <= 2 * c
  BY <1>1, <1>3, RoundedUpTwice
<1>5. MMM_COLOR_FMT_ALIGN(a, 16) <= 2 * MMM_COLOR_FMT_ALIGN(b, 16)
      /\ MMM_COLOR_FMT_ALIGN(b, 16) <= 2 * MMM_COLOR_FMT_ALIGN(c, 16)
  BY <1>4, AlignedTwice
<1>6. \A n \in Nat : n # 0 => /\ MMM_COLOR_FMT_Y_SCANLINES(f, n) = MMM_COLOR_FMT_ALIGN(n, 32)
                             /\ MMM_COLOR_FMT_UV_SCANLINES(f, n) = MMM_COLOR_FMT_ALIGN(Half(n), 32)
  BY DEF MMM_COLOR_FMT_Y_SCANLINES, MMM_COLOR_FMT_UV_SCANLINES
<1>7. YTile(f) = <<32, 8>> /\ UVTile(f) = <<16, 8>> /\ f \in UbwcYuv
  BY DEF YTile, UVTile, UbwcYuv
<1>8. \A n \in Nat : n # 0 => /\ MMM_COLOR_FMT_Y_META_SCANLINES(f, n) = MMM_COLOR_FMT_ALIGN(MMM_COLOR_FMT_ROUNDUP(n, 8), 16)
                             /\ MMM_COLOR_FMT_UV_META_SCANLINES(f, n)
                                  = MMM_COLOR_FMT_ALIGN(MMM_COLOR_FMT_ROUNDUP(Half(n), 8), 16)
  BY <1>7 DEF MMM_COLOR_FMT_Y_META_SCANLINES, MMM_COLOR_FMT_UV_META_SCANLINES, MetaScanlines
<1>9. l > 0 /\ l \in Nat /\ h # 0 /\ k # 0
  BY <1>1
<1> QED BY <1>1, <1>2, <1>3, <1>5, <1>6, <1>8, <1>9

\* Each plane of the picture fits twice the field's, and so do the pages.
LEMMA FieldPlanes ==
  ASSUME NEW f, f = "NV12_UBWC", NEW w \in Nat, NEW h \in Nat, h > 0
  PROVE  UbwcPlanes(f, w, h) <= 2 * UbwcPlanes(f, w, Half(h))
<1>1. f \in mmm_color_fmts /\ Half(h) \in Nat
  BY Halved DEF mmm_color_fmts, UbwcYuv
<1>2. PICK k \in Nat : k = Half(h)
  BY <1>1
<1>3. ASSUME NEW s \in Nat, NEW x \in Nat, NEW y \in Nat, x <= 2 * y
      PROVE  Page(s * x) \in Nat /\ Page(s * y) \in Nat /\ Page(s * x) <= 2 * Page(s * y)
  <2>1. s * x <= s * (2 * y)
    BY <1>3, ProductGrows
  <2>2. s * (2 * y) = 2 * (s * y) /\ s * x \in Nat /\ s * y \in Nat
    OBVIOUS
  <2>3. PICK t, z \in Nat : t = s * x /\ z = s * y
    BY <2>2, Zenon
  <2>4. t <= 2 * z
    BY <2>1, <2>2, <2>3
  <2>5. Page(t) \in Nat /\ Page(z) \in Nat /\ Page(t) <= 2 * Page(z)
    BY <2>4, Paged, PagedTwice
  <2> QED BY <2>3, <2>5, Zenon
<1>4. Page(CfY(f, w, h)) \in Nat /\ Page(CfY(f, w, k)) \in Nat /\ Page(CfY(f, w, h)) <= 2 * Page(CfY(f, w, k))
  <2>1. MMM_COLOR_FMT_Y_STRIDE(f, w) \in Nat /\ MMM_COLOR_FMT_Y_SCANLINES(f, h) \in Nat /\ MMM_COLOR_FMT_Y_SCANLINES(f, k) \in Nat
    BY <1>1, YStrideGrows, YScanlinesGrow
  <2> QED BY <1>2, <1>3, <2>1, FieldScanlines, Zenon DEF CfY
<1>5. Page(CfUV(f, w, h)) \in Nat /\ Page(CfUV(f, w, k)) \in Nat /\ Page(CfUV(f, w, h)) <= 2 * Page(CfUV(f, w, k))
  <2>1. MMM_COLOR_FMT_UV_STRIDE(f, w) \in Nat /\ MMM_COLOR_FMT_UV_SCANLINES(f, h) \in Nat /\ MMM_COLOR_FMT_UV_SCANLINES(f, k) \in Nat
    BY <1>1, YStrideGrows, UVScanlinesGrow DEF MMM_COLOR_FMT_UV_STRIDE
  <2> QED BY <1>2, <1>3, <2>1, FieldScanlines, Zenon DEF CfUV
<1>6. Page(CfYMeta(f, w, h)) \in Nat /\ Page(CfYMeta(f, w, k)) \in Nat /\ Page(CfYMeta(f, w, h)) <= 2 * Page(CfYMeta(f, w, k))
  <2>1. /\ MMM_COLOR_FMT_Y_META_STRIDE(f, w) \in Nat /\ MMM_COLOR_FMT_Y_META_SCANLINES(f, h) \in Nat
        /\ MMM_COLOR_FMT_Y_META_SCANLINES(f, k) \in Nat
    BY <1>1, YuvMetaGrows
  <2> QED BY <1>2, <1>3, <2>1, FieldScanlines, Zenon DEF CfYMeta
<1>7. Page(CfUVMeta(f, w, h)) \in Nat /\ Page(CfUVMeta(f, w, k)) \in Nat /\ Page(CfUVMeta(f, w, h)) <= 2 * Page(CfUVMeta(f, w, k))
  <2>1. /\ MMM_COLOR_FMT_UV_META_STRIDE(f, w) \in Nat /\ MMM_COLOR_FMT_UV_META_SCANLINES(f, h) \in Nat
        /\ MMM_COLOR_FMT_UV_META_SCANLINES(f, k) \in Nat
    BY <1>1, YuvMetaGrows
  <2> QED BY <1>2, <1>3, <2>1, FieldScanlines, Zenon DEF CfUVMeta
<1>8. \A g : UbwcPlanes(f, w, g) = Page(CfY(f, w, g)) + Page(CfUV(f, w, g)) + Page(CfYMeta(f, w, g)) + Page(CfUVMeta(f, w, g))
  BY Zenon DEF UbwcPlanes, CfY, CfUV, CfYMeta, CfUVMeta
<1> QED BY <1>2, <1>4, <1>5, <1>6, <1>7, <1>8

\* What a buffer is made of, before it is rounded up to pages.
CfContent(f, w, h) ==
  IF f \in LinearYuv THEN CfY(f, w, h) + CfUV(f, w, h)
  ELSE IF f \in UbwcYuv
       THEN IF f = "NV12_UBWC" /\ MayInterlace(w, h) THEN 2 * UbwcPlanes(f, w, Half(h)) ELSE UbwcPlanes(f, w, h)
  ELSE Page(CfRgb(f, w, h)) + Page(CfRgbMeta(f, w, h))

\* BUFFER_SIZE and BUFFER_SIZE_USED of a picture that has a size.
LEMMA Sizes ==
  ASSUME NEW f \in mmm_color_fmts, NEW w \in Nat, NEW h \in Nat, w > 0, h > 0
  PROVE  /\ MMM_COLOR_FMT_BUFFER_SIZE(f, w, h) = Page(CfContent(f, w, h))
         /\ MMM_COLOR_FMT_BUFFER_SIZE_USED(f, w, h, FALSE)
              = IF f = "NV12_UBWC" THEN Page(UbwcPlanes(f, w, h)) ELSE Page(CfContent(f, w, h))
         /\ MMM_COLOR_FMT_BUFFER_SIZE_USED(f, w, h, TRUE) = Page(CfContent(f, w, h))
<1>1. ~(w = 0 \/ h = 0)
  OBVIOUS
<1>2. MMM_COLOR_FMT_BUFFER_SIZE(f, w, h) = Page(CfContent(f, w, h))
  <2>1. CASE f \in LinearYuv
    <3>1. f \notin UbwcYuv /\ f # "NV12_UBWC"
      BY <2>1 DEF LinearYuv, UbwcYuv
    <3> QED BY <1>1, <2>1, <3>1 DEF MMM_COLOR_FMT_BUFFER_SIZE, CfContent, CfY, CfUV
  <2>2. CASE f \in UbwcYuv
    <3>1. f \notin LinearYuv
      BY <2>2 DEF LinearYuv, UbwcYuv
    <3> QED BY <1>1, <2>2, <3>1 DEF MMM_COLOR_FMT_BUFFER_SIZE, CfContent
  <2>3. CASE f \notin LinearYuv \cup UbwcYuv
    <3>1. f # "NV12_UBWC"
      BY <2>3 DEF UbwcYuv
    <3> QED BY <1>1, <2>3, <3>1 DEF MMM_COLOR_FMT_BUFFER_SIZE, CfContent, CfRgb, CfRgbMeta
  <2> QED BY <2>1, <2>2, <2>3
<1> QED BY <1>1, <1>2 DEF MMM_COLOR_FMT_BUFFER_SIZE_USED

\* The planes fit what the buffer is made of.
LEMMA ContentHolds ==
  ASSUME NEW f \in mmm_color_fmts, NEW w \in Nat, NEW h \in Nat, w > 0, h > 0
  PROVE  /\ CfContent(f, w, h) \in Nat
         /\ CfContent(f, w, h) >= PlaneBytes(f, w, h)
         /\ PlaneBytes(f, w, h) > 0
         /\ f = "NV12_UBWC" => UbwcPlanes(f, w, h) \in Nat /\ UbwcPlanes(f, w, h) <= CfContent(f, w, h)
                               /\ UbwcPlanes(f, w, h) >= PlaneBytes(f, w, h)
<1>1. PICK a, b, c, d, p, q \in Nat : /\ a = CfY(f, w, h) /\ b = CfUV(f, w, h) /\ c = CfYMeta(f, w, h)
                                      /\ d = CfUVMeta(f, w, h) /\ p = CfRgb(f, w, h) /\ q = CfRgbMeta(f, w, h)
  <2>1. w <= w /\ h <= h
    OBVIOUS
  <2>2. CfY(f, w, h) \in Nat /\ CfUV(f, w, h) \in Nat /\ CfYMeta(f, w, h) \in Nat /\ CfUVMeta(f, w, h) \in Nat
        /\ CfRgb(f, w, h) \in Nat /\ CfRgbMeta(f, w, h) \in Nat
    BY <2>1, PlanesGrow, Zenon
  <2> QED BY <2>2, Zenon
<1>2. PlaneBytes(f, w, h) = a + b + c + d + p + q
  BY <1>1, Zenon DEF PlaneBytes, CfY, CfUV, CfYMeta, CfUVMeta, CfRgb, CfRgbMeta
<1>3. a + b + c + d + p + q > 0
  BY <1>1, PlanesPositive
<1>4. PICK u \in Nat : u = UbwcPlanes(f, w, h) /\ u >= a + b + c + d
  <2>1. w <= w /\ h <= h
    OBVIOUS
  <2>2. UbwcPlanes(f, w, h) \in Nat /\ UbwcPlanes(f, w, h) >= a + b + c + d
    BY <1>1, <2>1, UbwcGrows, Zenon
  <2> QED BY <2>2, Zenon
<1>5. CASE f \in LinearYuv
  <2>1. CfContent(f, w, h) = a + b /\ f # "NV12_UBWC"
    BY <1>1, <1>5 DEF CfContent, LinearYuv
  <2>2. c = 0 /\ d = 0 /\ p = 0 /\ q = 0
    <3>1. f \notin UbwcYuv
      BY <1>5 DEF LinearYuv, UbwcYuv
    <3> QED BY <1>1, <1>5, <3>1, PlanesOf
  <2> QED BY <1>2, <1>3, <2>1, <2>2
<1>6. CASE f \in UbwcYuv
  <2>1. p = 0 /\ q = 0
    BY <1>1, <1>6, PlanesOf
  <2>2. CfContent(f, w, h) = IF f = "NV12_UBWC" /\ MayInterlace(w, h) THEN 2 * UbwcPlanes(f, w, Half(h)) ELSE u
    BY <1>4, <1>6 DEF CfContent, LinearYuv, UbwcYuv
  <2>3. UbwcPlanes(f, w, Half(h)) \in Nat
    <3>1. Half(h) \in Nat /\ w <= w /\ Half(h) <= Half(h)
      BY Halved
    <3> QED BY <3>1, UbwcGrows, Zenon
  <2>4. f = "NV12_UBWC" => u <= 2 * UbwcPlanes(f, w, Half(h))
    BY <1>4, FieldPlanes
  <2>5. CfContent(f, w, h) \in Nat /\ u <= CfContent(f, w, h)
    BY <2>2, <2>3, <2>4
  <2> QED BY <1>2, <1>3, <1>4, <2>1, <2>5
<1>7. CASE f \notin LinearYuv \cup UbwcYuv
  <2>1. CfContent(f, w, h) = Page(p) + Page(q) /\ f # "NV12_UBWC"
    BY <1>1, <1>7 DEF CfContent, UbwcYuv
  <2>2. a = 0 /\ b = 0 /\ c = 0 /\ d = 0
    BY <1>1, <1>7, PlanesOf
  <2>3. Page(p) \in Nat /\ Page(q) \in Nat /\ p <= Page(p) /\ q <= Page(q)
    BY Paged
  <2> QED BY <1>2, <1>3, <2>1, <2>2, <2>3
<1> QED BY <1>5, <1>6, <1>7

\* A number of bytes.
LEMMA PlanesNat ==
  ASSUME NEW f \in mmm_color_fmts, NEW w \in Nat, NEW h \in Nat
  PROVE  PlaneBytes(f, w, h) \in Nat /\ PlaneBytes(f, w, h \div 2) \in Nat /\ PlaneBytes(f, w, h - h \div 2) \in Nat
<1>1. ASSUME NEW g \in Nat PROVE PlaneBytes(f, w, g) \in Nat
  <2>1. w <= w /\ g <= g
    OBVIOUS
  <2>2. CfY(f, w, g) \in Nat /\ CfUV(f, w, g) \in Nat /\ CfYMeta(f, w, g) \in Nat /\ CfUVMeta(f, w, g) \in Nat
        /\ CfRgb(f, w, g) \in Nat /\ CfRgbMeta(f, w, g) \in Nat
    BY <2>1, PlanesGrow, Zenon
  <2>3. PlaneBytes(f, w, g) = CfY(f, w, g) + CfUV(f, w, g) + CfYMeta(f, w, g) + CfUVMeta(f, w, g)
                              + CfRgb(f, w, g) + CfRgbMeta(f, w, g)
    BY Zenon DEF PlaneBytes, CfY, CfUV, CfYMeta, CfUVMeta, CfRgb, CfRgbMeta
  <2> QED BY <2>2, <2>3
<1>2. h \div 2 \in Nat /\ h - h \div 2 \in Nat
  OBVIOUS
<1> QED BY <1>1, <1>2, Zenon

\* Two fields, of one line less or as many, fit.
LEMMA FieldsHeld ==
  ASSUME NEW f, f = "NV12_UBWC", NEW w \in Nat, NEW h \in Nat, w > 0, h > 0, MayInterlace(w, h)
  PROVE  CfContent(f, w, h) >= PlaneBytes(f, w, h \div 2) + PlaneBytes(f, w, h - h \div 2)
<1>1. f \in mmm_color_fmts /\ f \in UbwcYuv /\ f \notin LinearYuv
  BY DEF mmm_color_fmts, UbwcYuv, LinearYuv
<1>2. PICK k, l \in Nat : k = Half(h) /\ l = h \div 2 /\ l <= k /\ h - h \div 2 = k
  BY Halved
<1>3. ASSUME NEW g \in Nat, g <= k
      PROVE  PlaneBytes(f, w, g) \in Nat /\ PlaneBytes(f, w, g) <= UbwcPlanes(f, w, k) /\ UbwcPlanes(f, w, k) \in Nat
  <2>1. w <= w /\ g <= g /\ k <= k
    OBVIOUS
  <2>2. PICK a, b, c, d \in Nat : /\ a = CfY(f, w, g) /\ b = CfUV(f, w, g) /\ c = CfYMeta(f, w, g) /\ d = CfUVMeta(f, w, g)
    <3>1. CfY(f, w, g) \in Nat /\ CfUV(f, w, g) \in Nat /\ CfYMeta(f, w, g) \in Nat /\ CfUVMeta(f, w, g) \in Nat
      BY <1>1, <2>1, PlanesGrow, Zenon
    <3> QED BY <3>1, Zenon
  <2>3. CfRgb(f, w, g) = 0 /\ CfRgbMeta(f, w, g) = 0
    BY <1>1, PlanesOf
  <2>4. PlaneBytes(f, w, g) = a + b + c + d + 0 + 0
    BY <2>2, <2>3, Zenon DEF PlaneBytes, CfY, CfUV, CfYMeta, CfUVMeta, CfRgb, CfRgbMeta
  <2>5. UbwcPlanes(f, w, g) \in Nat /\ UbwcPlanes(f, w, g) >= a + b + c + d /\ UbwcPlanes(f, w, g) <= UbwcPlanes(f, w, k)
    BY <1>1, <1>3, <2>1, <2>2, UbwcGrows, Zenon
  <2>6. UbwcPlanes(f, w, k) \in Nat
    BY <1>1, <2>1, UbwcGrows, Zenon
  <2> QED BY <2>4, <2>5, <2>6
<1>4. CfContent(f, w, h) = 2 * UbwcPlanes(f, w, k)
  BY <1>1, <1>2, Zenon DEF CfContent
<1>5. k <= k
  OBVIOUS
<1>6. PlaneBytes(f, w, l) \in Nat /\ PlaneBytes(f, w, l) <= UbwcPlanes(f, w, k) /\ UbwcPlanes(f, w, k) \in Nat
  BY <1>2, <1>3, Zenon
<1>7. PlaneBytes(f, w, k) \in Nat /\ PlaneBytes(f, w, k) <= UbwcPlanes(f, w, k)
  BY <1>3, <1>5, Zenon
<1>8. PlaneBytes(f, w, l) + PlaneBytes(f, w, k) <= 2 * UbwcPlanes(f, w, k)
  BY <1>6, <1>7
<1>9. CfContent(f, w, h) >= PlaneBytes(f, w, l) + PlaneBytes(f, w, k)
  BY <1>4, <1>6, <1>7, <1>8
<1> QED BY <1>2, <1>9, Zenon

\* A larger picture has no smaller content, unless only one of the two may be interlaced.
LEMMA ContentGrows ==
  ASSUME NEW f \in mmm_color_fmts, NEW v \in Nat, NEW w \in Nat, NEW g \in Nat, NEW h \in Nat, v <= w, g <= h,
         f = "NV12_UBWC" => MayInterlace(v, g) = MayInterlace(w, h)
  PROVE  CfContent(f, v, g) <= CfContent(f, w, h)
<1>1. CASE f \in LinearYuv
  <2>1. PICK a, b, p, q \in Nat : a = CfY(f, v, g) /\ b = CfUV(f, v, g) /\ p = CfY(f, w, h) /\ q = CfUV(f, w, h)
    <3>1. w <= w /\ h <= h
      OBVIOUS
    <3>2. CfY(f, w, h) \in Nat /\ CfUV(f, w, h) \in Nat /\ CfY(f, v, g) \in Nat /\ CfUV(f, v, g) \in Nat
      BY <3>1, PlanesGrow, Zenon
    <3> QED BY <3>2, Zenon
  <2>2. a <= p /\ b <= q
    BY <2>1, PlanesGrow, Zenon
  <2>3. CfContent(f, v, g) = a + b /\ CfContent(f, w, h) = p + q
    BY <1>1, <2>1, Zenon DEF CfContent
  <2> QED BY <2>2, <2>3
<1>2. CASE f \in UbwcYuv
  <2>1. f \notin LinearYuv
    BY <1>2 DEF LinearYuv, UbwcYuv
  <2>2. PICK i, j \in Nat : i = Half(g) /\ j = Half(h) /\ i <= j
    BY Halved, HalvedGrows, Zenon
  <2>3. UbwcPlanes(f, v, g) <= UbwcPlanes(f, w, h)
    BY UbwcGrows
  <2>4. UbwcPlanes(f, v, i) \in Nat /\ UbwcPlanes(f, v, i) <= UbwcPlanes(f, w, j)
    BY <2>2, UbwcGrows, Zenon
  <2>5. UbwcPlanes(f, w, j) \in Nat
    <3>1. w <= w /\ j <= j
      OBVIOUS
    <3> QED BY <3>1, UbwcGrows, Zenon
  <2>6. 2 * UbwcPlanes(f, v, i) <= 2 * UbwcPlanes(f, w, j)
    BY <2>4, <2>5
  <2>7. CASE f = "NV12_UBWC" /\ MayInterlace(w, h)
    <3>1. CfContent(f, w, h) = 2 * UbwcPlanes(f, w, j)
      BY <1>2, <2>1, <2>2, <2>7, Zenon DEF CfContent
    <3>2. CfContent(f, v, g) = 2 * UbwcPlanes(f, v, i)
      BY <1>2, <2>1, <2>2, <2>7, Zenon DEF CfContent
    <3> QED BY <2>6, <3>1, <3>2, Zenon
  <2>8. CASE ~(f = "NV12_UBWC" /\ MayInterlace(w, h))
    <3>1. CfContent(f, w, h) = UbwcPlanes(f, w, h)
      BY <1>2, <2>1, <2>8, Zenon DEF CfContent
    <3>2. CfContent(f, v, g) = UbwcPlanes(f, v, g)
      BY <1>2, <2>1, <2>8, Zenon DEF CfContent
    <3> QED BY <2>3, <3>1, <3>2, Zenon
  <2> QED BY <2>7, <2>8, Zenon
<1>3. CASE f \notin LinearYuv \cup UbwcYuv
  <2>1. PICK a, b, p, q \in Nat : a = CfRgb(f, v, g) /\ b = CfRgbMeta(f, v, g) /\ p = CfRgb(f, w, h) /\ q = CfRgbMeta(f, w, h)
    <3>1. w <= w /\ h <= h
      OBVIOUS
    <3>2. CfRgb(f, w, h) \in Nat /\ CfRgbMeta(f, w, h) \in Nat /\ CfRgb(f, v, g) \in Nat /\ CfRgbMeta(f, v, g) \in Nat
      BY <3>1, PlanesGrow, Zenon
    <3> QED BY <3>2, Zenon
  <2>2. a <= p /\ b <= q
    BY <2>1, PlanesGrow, Zenon
  <2>3. Page(a) \in Nat /\ Page(b) \in Nat /\ Page(p) \in Nat /\ Page(q) \in Nat /\ Page(a) <= Page(p) /\ Page(b) <= Page(q)
    BY <2>2, Paged, PagedGrows
  <2>4. f \notin LinearYuv /\ f \notin UbwcYuv
    BY <1>3
  <2>5. CfContent(f, v, g) = Page(a) + Page(b) /\ CfContent(f, w, h) = Page(p) + Page(q)
    BY <2>1, <2>4, Zenon DEF CfContent
  <2> QED BY <2>3, <2>5
<1> QED BY <1>1, <1>2, <1>3

-----------------------------------------------------------------------------
(* What the header documents. *)

\* Halving a size and counting it in half tiles is counting it in whole ones.
LEMMA HalfTiles ==
  ASSUME NEW n \in Nat
  PROVE  /\ MMM_COLOR_FMT_ROUNDUP(Half(n), 16) = MMM_COLOR_FMT_ROUNDUP(n, 32)
         /\ MMM_COLOR_FMT_ROUNDUP(Half(n), 24) = MMM_COLOR_FMT_ROUNDUP(n, 48)
         /\ MMM_COLOR_FMT_ROUNDUP(Half(n), 8) = MMM_COLOR_FMT_ROUNDUP(n, 16)
         /\ MMM_COLOR_FMT_ROUNDUP(Half(n), 4) = MMM_COLOR_FMT_ROUNDUP(n, 8)
BY DEF MMM_COLOR_FMT_ROUNDUP, Half

\* The metadata of a compressed YUV picture is that of its documented tiles.
LEMMA MetaDocumented ==
  ASSUME NEW f \in UbwcYuv, NEW w \in Nat, NEW h \in Nat, w > 0, h > 0
  PROVE  /\ Page(CfYMeta(f, w, h)) = MetaPlane(w, h, YTile(f))
         /\ Page(CfUVMeta(f, w, h)) = MetaPlane(w, h, <<YTile(f)[1], 2 * YTile(f)[2]>>)
<1>1. w # 0 /\ h # 0
  OBVIOUS
<1>2. /\ CfYMeta(f, w, h) = MetaStride(w, YTile(f)) * MetaScanlines(h, YTile(f))
      /\ CfUVMeta(f, w, h) = MetaStride(Half(w), UVTile(f)) * MetaScanlines(Half(h), UVTile(f))
  BY <1>1, Zenon DEF CfYMeta, CfUVMeta, MMM_COLOR_FMT_Y_META_STRIDE, MMM_COLOR_FMT_Y_META_SCANLINES,
              MMM_COLOR_FMT_UV_META_STRIDE, MMM_COLOR_FMT_UV_META_SCANLINES
<1>3. /\ MetaStride(Half(w), UVTile(f)) = MetaStride(w, <<YTile(f)[1], 2 * YTile(f)[2]>>)
      /\ MetaScanlines(Half(h), UVTile(f)) = MetaScanlines(h, <<YTile(f)[1], 2 * YTile(f)[2]>>)
  <2>1. CASE f = "NV12_UBWC"
    <3>1. UVTile(f) = <<16, 8>> /\ <<YTile(f)[1], 2 * YTile(f)[2]>> = <<32, 16>>
      BY <2>1 DEF YTile, UVTile
    <3> QED BY <3>1, HalfTiles DEF MetaStride, MetaScanlines
  <2>2. CASE f = "P010_UBWC"
    <3>1. UVTile(f) = <<16, 4>> /\ <<YTile(f)[1], 2 * YTile(f)[2]>> = <<32, 8>>
      BY <2>2 DEF YTile, UVTile
    <3> QED BY <3>1, HalfTiles DEF MetaStride, MetaScanlines
  <2>3. CASE f = "NV12_BPP10_UBWC"
    <3>1. UVTile(f) = <<24, 4>> /\ <<YTile(f)[1], 2 * YTile(f)[2]>> = <<48, 8>>
      BY <2>3 DEF YTile, UVTile
    <3> QED BY <3>1, HalfTiles DEF MetaStride, MetaScanlines
  <2> QED BY <2>1, <2>2, <2>3 DEF UbwcYuv
<1> QED BY <1>2, <1>3, Zenon DEF MetaPlane

\* The four planes of a compressed YUV picture, when its stride and scan lines are
\* the documented ones.
LEMMA UbwcDocumented ==
  ASSUME NEW f \in UbwcYuv, NEW w \in Nat, NEW h \in Nat, w > 0, h > 0
  PROVE  LET stride == MMM_COLOR_FMT_Y_STRIDE(f, w)
             luma   == MMM_COLOR_FMT_Y_SCANLINES(f, h)
             chroma == MMM_COLOR_FMT_UV_SCANLINES(f, h)
         IN  UbwcPlanes(f, w, h) = Page(stride * luma) + Page(stride * chroma)
                                   + MetaPlane(w, h, YTile(f))
                                   + MetaPlane(w, h, <<YTile(f)[1], 2 * YTile(f)[2]>>)
<1>1. UbwcPlanes(f, w, h) = Page(CfY(f, w, h)) + Page(CfUV(f, w, h)) + Page(CfYMeta(f, w, h)) + Page(CfUVMeta(f, w, h))
  BY Zenon DEF UbwcPlanes, CfY, CfUV, CfYMeta, CfUVMeta
<1>2. /\ CfY(f, w, h) = MMM_COLOR_FMT_Y_STRIDE(f, w) * MMM_COLOR_FMT_Y_SCANLINES(f, h)
      /\ CfUV(f, w, h) = MMM_COLOR_FMT_Y_STRIDE(f, w) * MMM_COLOR_FMT_UV_SCANLINES(f, h)
  BY Zenon DEF CfY, CfUV, MMM_COLOR_FMT_UV_STRIDE
<1> QED BY <1>1, <1>2, MetaDocumented, Zenon

\* A linear picture has the documented size.
LEMMA LinearAsDocumented ==
  ASSUME NEW f \in LinearYuv, NEW w \in Nat, NEW h \in Nat, w > 0, h > 0
  PROVE  MMM_COLOR_FMT_BUFFER_SIZE(f, w, h) = Documented(f, w, h)
<1>1. f \in mmm_color_fmts /\ w # 0 /\ h # 0
  BY DEF mmm_color_fmts
<1>2. MMM_COLOR_FMT_BUFFER_SIZE(f, w, h)
        = LinearTotal(MMM_COLOR_FMT_Y_STRIDE(f, w), MMM_COLOR_FMT_Y_SCANLINES(f, h), MMM_COLOR_FMT_UV_SCANLINES(f, h))
  BY <1>1, Sizes, Zenon DEF CfContent, CfY, CfUV, LinearTotal, MMM_COLOR_FMT_UV_STRIDE
<1>3. CASE f = "NV12"
  <2>1. /\ MMM_COLOR_FMT_Y_STRIDE(f, w) = MMM_COLOR_FMT_ALIGN(w, 128)
        /\ MMM_COLOR_FMT_Y_SCANLINES(f, h) = MMM_COLOR_FMT_ALIGN(h, 32)
        /\ MMM_COLOR_FMT_UV_SCANLINES(f, h) = MMM_COLOR_FMT_ALIGN(Half(h), 16)
    BY <1>1, <1>3 DEF MMM_COLOR_FMT_Y_STRIDE, MMM_COLOR_FMT_Y_SCANLINES, MMM_COLOR_FMT_UV_SCANLINES
  <2>2. Documented(f, w, h) = NV12(w, h)
    BY <1>3 DEF Documented
  <2> QED BY <1>2, <2>1, <2>2, Zenon DEF NV12
<1>4. CASE f = "NV21"
  <2>1. /\ MMM_COLOR_FMT_Y_STRIDE(f, w) = MMM_COLOR_FMT_ALIGN(w, 128)
        /\ MMM_COLOR_FMT_Y_SCANLINES(f, h) = MMM_COLOR_FMT_ALIGN(h, 32)
        /\ MMM_COLOR_FMT_UV_SCANLINES(f, h) = MMM_COLOR_FMT_ALIGN(Half(h), 16)
    BY <1>1, <1>4 DEF MMM_COLOR_FMT_Y_STRIDE, MMM_COLOR_FMT_Y_SCANLINES, MMM_COLOR_FMT_UV_SCANLINES
  <2>2. Documented(f, w, h) = NV21(w, h)
    BY <1>4 DEF Documented
  <2> QED BY <1>2, <2>1, <2>2, Zenon DEF NV21
<1>5. CASE f = "P010"
  <2>1. /\ MMM_COLOR_FMT_Y_STRIDE(f, w) = MMM_COLOR_FMT_ALIGN(w * 2, 256)
        /\ MMM_COLOR_FMT_Y_SCANLINES(f, h) = MMM_COLOR_FMT_ALIGN(h, 32)
        /\ MMM_COLOR_FMT_UV_SCANLINES(f, h) = MMM_COLOR_FMT_ALIGN(Half(h), 16)
    BY <1>1, <1>5 DEF MMM_COLOR_FMT_Y_STRIDE, MMM_COLOR_FMT_Y_SCANLINES, MMM_COLOR_FMT_UV_SCANLINES
  <2>2. Documented(f, w, h) = P010(w, h)
    BY <1>5 DEF Documented
  <2> QED BY <1>2, <2>1, <2>2, Zenon DEF P010
<1>6. CASE f = "P010_512"
  <2>1. /\ MMM_COLOR_FMT_Y_STRIDE(f, w) = MMM_COLOR_FMT_ALIGN(w * 2, 512)
        /\ MMM_COLOR_FMT_Y_SCANLINES(f, h) = MMM_COLOR_FMT_ALIGN(h, 32)
        /\ MMM_COLOR_FMT_UV_SCANLINES(f, h) = MMM_COLOR_FMT_ALIGN(Half(h), 16)
    BY <1>1, <1>6 DEF MMM_COLOR_FMT_Y_STRIDE, MMM_COLOR_FMT_Y_SCANLINES, MMM_COLOR_FMT_UV_SCANLINES
  <2>2. Documented(f, w, h) = P010_512(w, h)
    BY <1>6 DEF Documented
  <2> QED BY <1>2, <2>1, <2>2, Zenon DEF P010_512
<1>7. CASE f = "NV12_512"
  <2>1. /\ MMM_COLOR_FMT_Y_STRIDE(f, w) = MMM_COLOR_FMT_ALIGN(w, 512)
        /\ MMM_COLOR_FMT_Y_SCANLINES(f, h) = MMM_COLOR_FMT_ALIGN(h, 512)
        /\ MMM_COLOR_FMT_UV_SCANLINES(f, h) = MMM_COLOR_FMT_ALIGN(Half(h), 256)
    BY <1>1, <1>7 DEF MMM_COLOR_FMT_Y_STRIDE, MMM_COLOR_FMT_Y_SCANLINES, MMM_COLOR_FMT_UV_SCANLINES
  <2>2. Documented(f, w, h) = NV12_512(w, h)
    BY <1>7 DEF Documented
  <2> QED BY <1>2, <2>1, <2>2, Zenon DEF NV12_512
<1> QED BY <1>3, <1>4, <1>5, <1>6, <1>7 DEF LinearYuv

\* An RGB picture has the documented size.
LEMMA RgbAsDocumented ==
  ASSUME NEW f \in UbwcRgb \cup {"RGBA8888"}, NEW w \in Nat, NEW h \in Nat, w > 0, h > 0
  PROVE  MMM_COLOR_FMT_BUFFER_SIZE(f, w, h) = Documented(f, w, h)
<1>1. f \in mmm_color_fmts /\ w # 0 /\ h # 0 /\ f \notin LinearYuv /\ f \notin UbwcYuv
  BY DEF mmm_color_fmts, UbwcRgb, LinearYuv, UbwcYuv
<1>2. MMM_COLOR_FMT_BUFFER_SIZE(f, w, h) = Page(Page(CfRgb(f, w, h)) + Page(CfRgbMeta(f, w, h)))
  BY <1>1, Sizes, Zenon DEF CfContent
<1>3. MMM_COLOR_FMT_RGB_STRIDE(f, w) = MMM_COLOR_FMT_ALIGN(w * RgbBytes(f), 256)
  BY <1>1, Zenon DEF MMM_COLOR_FMT_RGB_STRIDE
<1>4. CASE f = "RGBA8888"
  <2>1. RgbBytes(f) = 4 /\ MMM_COLOR_FMT_RGB_SCANLINES(f, h) = MMM_COLOR_FMT_ALIGN(h, 32)
    <3>1. f \notin UbwcRgb /\ f # "RGB565_UBWC" /\ f # "RGBA16161616F_UBWC"
      BY <1>4 DEF UbwcRgb
    <3>2. RgbBytes(f) = 4
      BY <3>1 DEF RgbBytes
    <3>3. MMM_COLOR_FMT_RGB_SCANLINES(f, h) = MMM_COLOR_FMT_ALIGN(h, 32)
      BY <1>1, <1>4, <3>1 DEF MMM_COLOR_FMT_RGB_SCANLINES
    <3> QED BY <3>2, <3>3
  <2>2. CfRgb(f, w, h) = MMM_COLOR_FMT_ALIGN(w * 4, 256) * MMM_COLOR_FMT_ALIGN(h, 32) /\ CfRgb(f, w, h) \in Nat
    BY <1>1, <1>3, <2>1, RgbGrows DEF CfRgb
  <2>3. CfRgbMeta(f, w, h) = 0
    <3>1. f \notin UbwcRgb
      BY <1>4 DEF UbwcRgb
    <3> QED BY <3>1 DEF CfRgbMeta, MMM_COLOR_FMT_RGB_META_STRIDE, MMM_COLOR_FMT_RGB_META_SCANLINES
  <2>4. Page(CfRgb(f, w, h)) + Page(0) = Page(CfRgb(f, w, h))
    <3>1. Page(0) = 0
      BY DEF Page, MMM_COLOR_FMT_ALIGN, MMM_COLOR_FMT_ROUNDUP
    <3>2. Page(CfRgb(f, w, h)) \in Nat
      BY <2>2, Paged
    <3> QED BY <3>1, <3>2
  <2>5. Documented(f, w, h) = RGBA8888(w, h)
    BY <1>4 DEF Documented
  <2>6. MMM_COLOR_FMT_BUFFER_SIZE(f, w, h) = Page(Page(CfRgb(f, w, h)))
    BY <1>2, <2>3, <2>4
  <2> QED BY <2>2, <2>5, <2>6, Zenon DEF RGBA8888
<1>5. CASE f \in UbwcRgb
  <2>1. MMM_COLOR_FMT_RGB_SCANLINES(f, h) = MMM_COLOR_FMT_ALIGN(h, 16)
    BY <1>1, <1>5 DEF MMM_COLOR_FMT_RGB_SCANLINES, UbwcRgb
  <2>2. Page(CfRgbMeta(f, w, h)) = MetaPlane(w, h, RgbTile(f))
    BY <1>1, <1>5, Zenon DEF CfRgbMeta, MetaPlane, MMM_COLOR_FMT_RGB_META_STRIDE, MMM_COLOR_FMT_RGB_META_SCANLINES
  <2>3. MMM_COLOR_FMT_BUFFER_SIZE(f, w, h) = RgbTotal(RgbBytes(f), w, h, RgbTile(f))
    BY <1>2, <1>3, <2>1, <2>2, Zenon DEF CfRgb, RgbTotal
  <2>4. CASE f = "RGBA8888_UBWC"
    BY <2>3, <2>4 DEF Documented, RGBA8888_UBWC, RgbBytes, RgbTile
  <2>5. CASE f = "RGBA1010102_UBWC"
    BY <2>3, <2>5 DEF Documented, RGBA1010102_UBWC, RgbBytes, RgbTile
  <2>6. CASE f = "RGB565_UBWC"
    BY <2>3, <2>6 DEF Documented, RGB565_UBWC, RgbBytes, RgbTile
  <2>7. CASE f = "RGBA16161616F_UBWC"
    BY <2>3, <2>7 DEF Documented, RGBA16161616F_UBWC, RgbBytes, RgbTile
  <2> QED BY <1>5, <2>4, <2>5, <2>6, <2>7 DEF UbwcRgb
<1> QED BY <1>4, <1>5

\* The documented total of compressed planes is what the function adds up.
LEMMA UbwcTotals ==
  ASSUME NEW f \in UbwcYuv, NEW w \in Nat, NEW h \in Nat, w > 0, h > 0
  PROVE  LET Total(n) == UbwcTotal(n, MMM_COLOR_FMT_Y_STRIDE(f, w), MMM_COLOR_FMT_Y_SCANLINES(f, h),
                                   MMM_COLOR_FMT_UV_SCANLINES(f, h), w, h, YTile(f))
         IN  Total(1) = Page(UbwcPlanes(f, w, h)) /\ Total(2) = Page(2 * UbwcPlanes(f, w, h))
<1>1. f \in mmm_color_fmts /\ UbwcPlanes(f, w, h) \in Nat
  <2>1. f \in mmm_color_fmts /\ w <= w /\ h <= h
    BY DEF mmm_color_fmts
  <2> QED BY <2>1, UbwcGrows
<1>2. 1 * UbwcPlanes(f, w, h) = UbwcPlanes(f, w, h)
  BY <1>1
<1> QED BY <1>2, UbwcDocumented, Zenon DEF UbwcTotal

\* A compressed 8-bit picture, progressive and in two fields.
LEMMA NV12UbwcAsDocumented ==
  ASSUME NEW w \in Nat, NEW h \in Nat, w > 0, h > 0
  PROVE  /\ Page(UbwcPlanes("NV12_UBWC", w, h)) = NV12_UBWC_Progressive(w, h)
         /\ Page(2 * UbwcPlanes("NV12_UBWC", w, Half(h))) = NV12_UBWC_Interlaced(w, h)
<1>1. "NV12_UBWC" \in UbwcYuv /\ w # 0
  BY DEF UbwcYuv
<1>2. MMM_COLOR_FMT_Y_STRIDE("NV12_UBWC", w) = MMM_COLOR_FMT_ALIGN(w, 128)
  BY <1>1 DEF MMM_COLOR_FMT_Y_STRIDE
<1>3. \A g \in Nat : g # 0 => /\ MMM_COLOR_FMT_Y_SCANLINES("NV12_UBWC", g) = MMM_COLOR_FMT_ALIGN(g, 32)
                            /\ MMM_COLOR_FMT_UV_SCANLINES("NV12_UBWC", g) = MMM_COLOR_FMT_ALIGN(Half(g), 32)
  BY DEF MMM_COLOR_FMT_Y_SCANLINES, MMM_COLOR_FMT_UV_SCANLINES
<1>4. h # 0 /\ Half(h) \in Nat /\ Half(h) > 0 /\ Half(h) # 0
  BY DEF Half
<1>5. Page(UbwcPlanes("NV12_UBWC", w, h)) = NV12_UBWC_Progressive(w, h)
  BY <1>1, <1>2, <1>3, <1>4, UbwcTotals, Zenon DEF NV12_UBWC_Progressive
<1>6. Page(2 * UbwcPlanes("NV12_UBWC", w, Half(h))) = NV12_UBWC_Interlaced(w, h)
  BY <1>1, <1>2, <1>3, <1>4, UbwcTotals, Zenon DEF NV12_UBWC_Interlaced
<1> QED BY <1>5, <1>6

\* A compressed 10-bit picture in the P010 layout.
LEMMA P010UbwcAsDocumented ==
  ASSUME NEW w \in Nat, NEW h \in Nat, w > 0, h > 0
  PROVE  Page(UbwcPlanes("P010_UBWC", w, h)) = P010_UBWC(w, h)
<1>1. "P010_UBWC" \in UbwcYuv /\ w # 0 /\ h # 0
  BY DEF UbwcYuv
<1>2. /\ MMM_COLOR_FMT_Y_STRIDE("P010_UBWC", w) = MMM_COLOR_FMT_ALIGN(w * 2, 256)
      /\ MMM_COLOR_FMT_Y_SCANLINES("P010_UBWC", h) = MMM_COLOR_FMT_ALIGN(h, 16)
      /\ MMM_COLOR_FMT_UV_SCANLINES("P010_UBWC", h) = MMM_COLOR_FMT_ALIGN(Half(h), 16)
  BY <1>1 DEF MMM_COLOR_FMT_Y_STRIDE, MMM_COLOR_FMT_Y_SCANLINES, MMM_COLOR_FMT_UV_SCANLINES
<1> QED BY <1>1, <1>2, UbwcTotals, Zenon DEF P010_UBWC

\* A compressed 10-bit NV12 picture: the same stride, and at most as many scan lines
\* as documented.
LEMMA BPP10AsDocumented ==
  ASSUME NEW w \in Nat, NEW h \in Nat, w > 0, h > 0
  PROVE  LET size == Page(UbwcPlanes("NV12_BPP10_UBWC", w, h))
         IN  /\ size <= NV12_BPP10_UBWC(w, h)
             /\ MMM_COLOR_FMT_ALIGN(h, 16) = MMM_COLOR_FMT_ALIGN(h, 32) => size = NV12_BPP10_UBWC(w, h)
<1> DEFINE f == "NV12_BPP10_UBWC"
           stride == MMM_COLOR_FMT_ALIGN(MMM_COLOR_FMT_ROUNDUP(w * 4, 3), 256)
           chroma == MMM_COLOR_FMT_ALIGN(Half(h), 16)
           Total(luma) == UbwcTotal(1, stride, luma, chroma, w, h, YTile(f))
<1>1. f \in UbwcYuv /\ f \in mmm_color_fmts /\ w # 0 /\ h # 0
  BY DEF UbwcYuv, mmm_color_fmts
<1>2. MMM_COLOR_FMT_Y_STRIDE(f, w) = stride
  BY <1>1 DEF MMM_COLOR_FMT_Y_STRIDE, MMM_COLOR_FMT_ALIGN, MMM_COLOR_FMT_ROUNDUP
<1>3. /\ MMM_COLOR_FMT_Y_SCANLINES(f, h) = MMM_COLOR_FMT_ALIGN(h, 16)
      /\ MMM_COLOR_FMT_UV_SCANLINES(f, h) = chroma
  BY <1>1 DEF MMM_COLOR_FMT_Y_SCANLINES, MMM_COLOR_FMT_UV_SCANLINES
<1> HIDE DEF f, stride, chroma
<1>4. Page(UbwcPlanes(f, w, h)) = Total(MMM_COLOR_FMT_ALIGN(h, 16))
  BY <1>1, <1>2, <1>3, UbwcTotals, Zenon
<1>5. NV12_BPP10_UBWC(w, h) = Total(MMM_COLOR_FMT_ALIGN(h, 32))
  BY Zenon DEF NV12_BPP10_UBWC, f, stride, chroma
<1>6. Total(MMM_COLOR_FMT_ALIGN(h, 16)) <= Total(MMM_COLOR_FMT_ALIGN(h, 32))
  <2>1. /\ MMM_COLOR_FMT_ALIGN(h, 16) \in Nat /\ MMM_COLOR_FMT_ALIGN(h, 32) \in Nat
        /\ MMM_COLOR_FMT_ALIGN(h, 16) <= MMM_COLOR_FMT_ALIGN(h, 32)
    BY DEF MMM_COLOR_FMT_ALIGN, MMM_COLOR_FMT_ROUNDUP
  <2>2. stride \in Nat /\ chroma \in Nat
    <3>1. w <= w /\ h <= h
      OBVIOUS
    <3> QED BY <1>1, <1>2, <1>3, <3>1, YStrideGrows, UVScanlinesGrow
  <2>3. PICK a, b \in Nat : a = stride * MMM_COLOR_FMT_ALIGN(h, 16) /\ b = stride * MMM_COLOR_FMT_ALIGN(h, 32)
    BY <2>1, <2>2
  <2>4. a <= b
    <3>1. MMM_COLOR_FMT_ALIGN(h, 16) * stride <= MMM_COLOR_FMT_ALIGN(h, 32) * stride
      BY <2>1, <2>2, ProductGrows
    <3> QED BY <2>1, <2>2, <2>3, <3>1
  <2>5. PICK c \in Nat : c = stride * chroma
    BY <2>2
  <2>6. PICK m, k \in Nat : m = MetaPlane(w, h, YTile(f)) /\ k = MetaPlane(w, h, <<YTile(f)[1], 2 * YTile(f)[2]>>)
    <3>1. Page(CfYMeta(f, w, h)) \in Nat /\ Page(CfUVMeta(f, w, h)) \in Nat
      <4>1. CfYMeta(f, w, h) \in Nat /\ CfUVMeta(f, w, h) \in Nat
        <5>1. w <= w /\ h <= h
          OBVIOUS
        <5> QED BY <1>1, <5>1, PlanesGrow, Zenon
      <4> QED BY <4>1, Paged
    <3> QED BY <1>1, <3>1, MetaDocumented, Zenon
  <2>7. \A x : Total(x) = Page(1 * (Page(stride * x) + Page(c) + m + k))
    BY <2>5, <2>6, Zenon DEF UbwcTotal
  <2>8. Page(a) \in Nat /\ Page(b) \in Nat /\ Page(c) \in Nat /\ Page(a) <= Page(b)
    BY <2>4, Paged, PagedGrows
  <2>9. PICK u, v \in Nat : u = 1 * (Page(a) + Page(c) + m + k) /\ v = 1 * (Page(b) + Page(c) + m + k) /\ u <= v
    BY <2>8
  <2>10. Page(u) <= Page(v)
    BY <2>9, PagedGrows
  <2>11. Total(MMM_COLOR_FMT_ALIGN(h, 16)) = Page(u) /\ Total(MMM_COLOR_FMT_ALIGN(h, 32)) = Page(v)
    BY <2>3, <2>7, <2>9, Zenon
  <2> QED BY <2>10, <2>11, Zenon
<1>7. MMM_COLOR_FMT_ALIGN(h, 16) = MMM_COLOR_FMT_ALIGN(h, 32)
        => Total(MMM_COLOR_FMT_ALIGN(h, 16)) = Total(MMM_COLOR_FMT_ALIGN(h, 32))
  BY Zenon
<1> QED BY <1>4, <1>5, <1>6, <1>7, Zenon DEF f

\* A picture of any format has the documented size, 10-bit NV12 with its exception.
LEMMA AllAsDocumented ==
  ASSUME NEW f \in mmm_color_fmts, NEW w \in Nat, NEW h \in Nat, w > 0, h > 0
  PROVE  AsDocumented(f, w, h)
<1>1. CASE f \in LinearYuv
  <2>1. f # "NV12_BPP10_UBWC" /\ f # "NV12_UBWC"
    BY <1>1 DEF LinearYuv
  <2> QED BY <1>1, <2>1, LinearAsDocumented, Zenon DEF AsDocumented
<1>2. CASE f \in UbwcRgb \cup {"RGBA8888"}
  <2>1. f # "NV12_BPP10_UBWC" /\ f # "NV12_UBWC"
    BY <1>2 DEF UbwcRgb
  <2> QED BY <1>2, <2>1, RgbAsDocumented, Zenon DEF AsDocumented
<1>3. CASE f \in UbwcYuv
  <2>1. f \notin LinearYuv
    BY <1>3 DEF UbwcYuv, LinearYuv
  <2>2. CASE f = "NV12_UBWC"
    <3>1. MMM_COLOR_FMT_BUFFER_SIZE(f, w, h)
            = IF MayInterlace(w, h) THEN Page(2 * UbwcPlanes(f, w, Half(h))) ELSE Page(UbwcPlanes(f, w, h))
      <4>1. MMM_COLOR_FMT_BUFFER_SIZE(f, w, h) = Page(CfContent(f, w, h))
        BY Sizes, Zenon
      <4> QED BY <1>3, <2>1, <2>2, <4>1, Zenon DEF CfContent
    <3>2. MMM_COLOR_FMT_BUFFER_SIZE_USED(f, w, h, FALSE) = Page(UbwcPlanes(f, w, h))
      BY <2>2, Sizes, Zenon
    <3>3. Documented(f, w, h) = IF MayInterlace(w, h) THEN NV12_UBWC_Interlaced(w, h) ELSE NV12_UBWC_Progressive(w, h)
      BY <2>2 DEF Documented
    <3>4. f # "NV12_BPP10_UBWC"
      BY <2>2
    <3> QED BY <2>2, <3>1, <3>2, <3>3, <3>4, NV12UbwcAsDocumented, Zenon DEF AsDocumented
  <2>3. ASSUME f # "NV12_UBWC" PROVE MMM_COLOR_FMT_BUFFER_SIZE(f, w, h) = Page(UbwcPlanes(f, w, h))
    <3>1. MMM_COLOR_FMT_BUFFER_SIZE(f, w, h) = Page(CfContent(f, w, h))
      BY Sizes, Zenon
    <3> QED BY <1>3, <2>1, <2>3, <3>1, Zenon DEF CfContent
  <2>4. CASE f = "P010_UBWC"
    <3>1. f # "NV12_UBWC" /\ f # "NV12_BPP10_UBWC" /\ Documented(f, w, h) = P010_UBWC(w, h)
      BY <2>4 DEF Documented
    <3> QED BY <2>3, <2>4, <3>1, P010UbwcAsDocumented, Zenon DEF AsDocumented
  <2>5. CASE f = "NV12_BPP10_UBWC"
    <3>1. f # "NV12_UBWC" /\ Documented(f, w, h) = NV12_BPP10_UBWC(w, h)
      BY <2>5 DEF Documented
    <3> QED BY <2>3, <2>5, <3>1, BPP10AsDocumented, Zenon DEF AsDocumented
  <2> QED BY <1>3, <2>2, <2>4, <2>5 DEF UbwcYuv
<1> QED BY <1>1, <1>2, <1>3 DEF mmm_color_fmts

-----------------------------------------------------------------------------
CfTypeOK == cfFmt \in mmm_color_fmts /\ cfWidth \in Nat /\ cfHeight \in Nat

\* A larger size.
LEMMA Larger ==
  ASSUME NEW n, NEW d \in CfLarger(n)
  PROVE  d \in Nat /\ (n \in Nat => n <= d)
<1>1. d \in CfDims /\ n < d
  BY DEF CfLarger
<1>2. d \in Nat
  BY <1>1, CfDimsAssumption
<1> QED BY <1>1, <1>2

\* Sizes as a client may ask for them.
LEMMA CfTyped == CfSpec => []CfTypeOK
<1>1. CfInit => CfTypeOK
  BY DEF CfInit, CfTypeOK
<1>2. CfTypeOK /\ [CfGrow]_cfVars => CfTypeOK'
  <2>1. \A n : \A d \in CfLarger(n) : d \in Nat
    BY Larger
  <2> QED BY <2>1 DEF CfTypeOK, CfGrow, cfVars
<1> QED BY <1>1, <1>2, PTL DEF CfSpec

\* A picture of any format and size.
LEMMA AnyPictureFits == CfTypeOK => PlanesFit
<1> SUFFICES ASSUME CfTypeOK, cfWidth > 0, cfHeight > 0 PROVE PlanesFit
  BY Zenon DEF PlanesFit
<1>1. cfFmt \in mmm_color_fmts /\ cfWidth \in Nat /\ cfHeight \in Nat /\ cfWidth > 0 /\ cfHeight > 0
  BY Zenon DEF CfTypeOK
<1> DEFINE size == MMM_COLOR_FMT_BUFFER_SIZE(cfFmt, cfWidth, cfHeight)
           Used(a, b) == MMM_COLOR_FMT_BUFFER_SIZE_USED(cfFmt, a, b, FALSE)
<1>4. Covers(cfFmt, cfWidth, cfHeight) /\ AsDocumented(cfFmt, cfWidth, cfHeight)
  BY <1>1, AllCovered, AllAsDocumented
<1>5. PICK c \in Nat : c = CfContent(cfFmt, cfWidth, cfHeight)
  BY <1>1, ContentHolds
<1>6. size = Page(c)
  BY <1>1, <1>5, Sizes, Zenon
<1>7. Page(c) \in Nat /\ c <= Page(c) /\ Page(Page(c)) = Page(c)
  BY Paged
<1>8. PICK b \in Int : b = PlaneBytes(cfFmt, cfWidth, cfHeight) /\ b > 0 /\ c >= b
  BY <1>1, <1>5, ContentHolds, PlanesNat
<1>9. Page(size) = size /\ size >= PlaneBytes(cfFmt, cfWidth, cfHeight)
  BY <1>6, <1>7, <1>8
<1>10. ASSUME cfFmt = "NV12_UBWC", MayInterlace(cfWidth, cfHeight)
       PROVE  size >= PlaneBytes(cfFmt, cfWidth, cfHeight \div 2) + PlaneBytes(cfFmt, cfWidth, cfHeight - cfHeight \div 2)
  <2>1. c >= PlaneBytes(cfFmt, cfWidth, cfHeight \div 2) + PlaneBytes(cfFmt, cfWidth, cfHeight - cfHeight \div 2)
    BY <1>1, <1>5, <1>10, FieldsHeld, Zenon
  <2>2. PlaneBytes(cfFmt, cfWidth, cfHeight \div 2) \in Nat /\ PlaneBytes(cfFmt, cfWidth, cfHeight - cfHeight \div 2) \in Nat
    BY <1>1, PlanesNat, Zenon
  <2> QED BY <1>6, <1>7, <2>1, <2>2
<1>11. ASSUME NEW interlace \in BOOLEAN
       PROVE  MMM_COLOR_FMT_BUFFER_SIZE_USED(cfFmt, cfWidth, cfHeight, interlace) \in 1..size
  <2>1. CASE ~interlace /\ cfFmt = "NV12_UBWC"
    <3>1. PICK u \in Nat : u = UbwcPlanes(cfFmt, cfWidth, cfHeight) /\ u <= c /\ u >= b
      BY <1>1, <1>5, <1>8, <2>1, ContentHolds
    <3>2. MMM_COLOR_FMT_BUFFER_SIZE_USED(cfFmt, cfWidth, cfHeight, FALSE) = Page(u) /\ interlace = FALSE
      BY <1>1, <2>1, <3>1, Sizes, Zenon
    <3>3. Page(u) \in Nat /\ u <= Page(u) /\ Page(u) <= Page(c)
      BY <3>1, Paged, PagedGrows
    <3>4. Page(u) \in 1..Page(c)
      BY <1>7, <1>8, <3>1, <3>3
    <3> QED BY <1>6, <3>2, <3>4, Zenon
  <2>2. CASE ~(~interlace /\ cfFmt = "NV12_UBWC")
    <3>1. MMM_COLOR_FMT_BUFFER_SIZE_USED(cfFmt, cfWidth, cfHeight, interlace) = Page(c)
      <4>1. CASE interlace
        BY <1>1, <1>5, <4>1, Sizes, Zenon
      <4>2. CASE ~interlace
        <5>1. cfFmt # "NV12_UBWC" /\ interlace = FALSE
          BY <2>2, <4>2, Zenon
        <5> QED BY <1>1, <1>5, <5>1, Sizes, Zenon
      <4> QED BY <4>1, <4>2, Zenon
    <3> QED BY <1>6, <1>7, <1>8, <3>1
  <2> QED BY <2>1, <2>2
<1>12. ASSUME NEW a \in Nat, NEW d \in Nat, cfWidth <= a, cfHeight <= d
       PROVE  /\ Used(cfWidth, cfHeight) <= Used(a, d)
              /\ MayInterlace(cfWidth, cfHeight) = MayInterlace(a, d) => size <= MMM_COLOR_FMT_BUFFER_SIZE(cfFmt, a, d)
  <2>1. a > 0 /\ d > 0
    BY <1>1, <1>12
  <2>2. PICK e \in Nat : e = CfContent(cfFmt, a, d)
    BY <1>1, <2>1, ContentHolds
  <2>3. MMM_COLOR_FMT_BUFFER_SIZE(cfFmt, a, d) = Page(e)
    BY <1>1, <2>1, <2>2, Sizes, Zenon
  <2>4. ASSUME cfFmt = "NV12_UBWC" => MayInterlace(cfWidth, cfHeight) = MayInterlace(a, d)
        PROVE  Page(c) <= Page(e)
    <3>1. c <= e
      BY <1>1, <1>5, <1>12, <2>2, <2>4, ContentGrows, Zenon
    <3> QED BY <3>1, PagedGrows
  <2>5. CASE cfFmt = "NV12_UBWC"
    <3>1. PICK u, v \in Nat : u = UbwcPlanes(cfFmt, cfWidth, cfHeight) /\ v = UbwcPlanes(cfFmt, a, d)
      BY <1>1, <2>1, <2>5, ContentHolds, Zenon
    <3>2. u <= v
      BY <1>1, <1>12, <3>1, UbwcGrows, Zenon
    <3>3. Used(cfWidth, cfHeight) = Page(u) /\ Used(a, d) = Page(v)
      <4>1. Used(cfWidth, cfHeight) = Page(UbwcPlanes(cfFmt, cfWidth, cfHeight))
        BY <1>1, <2>5, Sizes, Zenon
      <4>2. Used(a, d) = Page(UbwcPlanes(cfFmt, a, d))
        BY <1>1, <2>1, <2>5, Sizes, Zenon
      <4> QED BY <3>1, <4>1, <4>2, Zenon
    <3>4. Page(u) <= Page(v)
      BY <3>2, PagedGrows
    <3> QED BY <1>6, <2>3, <2>4, <3>3, <3>4, Zenon
  <2>6. CASE cfFmt # "NV12_UBWC"
    <3>1. Used(cfWidth, cfHeight) = Page(c) /\ Used(a, d) = Page(e)
      <4>1. Used(cfWidth, cfHeight) = Page(CfContent(cfFmt, cfWidth, cfHeight))
        BY <1>1, <2>6, Sizes, Zenon
      <4>2. Used(a, d) = Page(CfContent(cfFmt, a, d))
        BY <1>1, <2>1, <2>6, Sizes, Zenon
      <4> QED BY <1>5, <2>2, <4>1, <4>2, Zenon
    <3> QED BY <1>6, <2>3, <2>4, <2>6, <3>1, Zenon
  <2> QED BY <2>5, <2>6, Zenon
<1>13. ASSUME NEW larger \in (CfLarger(cfWidth) \X {cfHeight}) \cup ({cfWidth} \X CfLarger(cfHeight))
       PROVE  /\ Used(cfWidth, cfHeight) <= Used(larger[1], larger[2])
              /\ MayInterlace(cfWidth, cfHeight) = MayInterlace(larger[1], larger[2])
                   => size <= MMM_COLOR_FMT_BUFFER_SIZE(cfFmt, larger[1], larger[2])
  <2>1. larger[1] \in Nat /\ larger[2] \in Nat /\ cfWidth <= larger[1] /\ cfHeight <= larger[2]
    <3>2. \A m \in CfLarger(cfWidth) : m \in Nat /\ cfWidth <= m
      BY <1>1, Larger
    <3>3. \A m \in CfLarger(cfHeight) : m \in Nat /\ cfHeight <= m
      BY <1>1, Larger
    <3>4. cfWidth <= cfWidth /\ cfHeight <= cfHeight
      BY <1>1
    <3>5. CASE larger \in CfLarger(cfWidth) \X {cfHeight}
      BY <1>1, <3>2, <3>4, <3>5
    <3>6. CASE larger \in {cfWidth} \X CfLarger(cfHeight)
      BY <1>1, <3>3, <3>4, <3>6, Zenon
    <3> QED BY <1>13, <3>5, <3>6
  <2> QED BY <1>12, <2>1, Zenon
<1> QED BY <1>4, <1>9, <1>10, <1>11, <1>13, Zenon DEF PlanesFit

\* A picture fits its buffer, for any sizes that clients ask for: the strides, scan
\* lines and sizes of mmm_color_fmt.h agree with each other in all thirteen formats.
THEOREM PlanesFitHolds == CfSpec => []PlanesFit
BY CfTyped, AnyPictureFits, PTL

=============================================================================
