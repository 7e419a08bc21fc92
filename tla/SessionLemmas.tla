--------------------------- MODULE SessionLemmas ---------------------------
(***************************************************************************)
(* What the sections under Session::mMutex preserve, for every session     *)
(* state.  They are pure functions (Session), so each is treated once and   *)
(* the steps of the threads only need to be shown to apply them.           *)
(***************************************************************************)
EXTENDS Fingerprint, TLAPS

\* One session: an operation without a result has none recorded, so that the
\* next result is its first; a match is held for a running authentication and is
\* of the session's user.
SInv(s, x) ==
    /\ x.mOp = x.mNextOp
    /\ ~x.mOpEnded => x.mOp \in OpIds /\ x.mOpKind \in OpKinds /\ x.results[x.mOp] = <<>>
    /\ \A o \in OpIds : o > x.mOp => x.results[o] = <<>>
    /\ \A o \in OpIds : Len(x.results[o]) <= 1
    /\ x.mHeld.gid # 0
          => x.mHeld.gid = UserOf[s] /\ ~x.mOpEnded /\ x.mOpKind = "Authenticate"
    /\ \A o \in OpIds : \A i \in DOMAIN x.results[o] :
          x.results[o][i].name = "Succeeded"
              => x.results[o][i].gid = UserOf[s] /\ x.results[o][i].age <= HeldMatchWindow

-----------------------------------------------------------------------------
(* What a section under mMutex does to a session, in terms of the contract:  *)
(* nothing, begin an operation, or end the running one.                      *)

Untouched(x, y) ==
    /\ y.mNextOp = x.mNextOp /\ y.mOpKind = x.mOpKind /\ y.mOpEnded = x.mOpEnded
    /\ y.mDetached = x.mDetached /\ y.results = x.results

Begins(x, y) ==
    /\ ~x.mDetached
    /\ y.mNextOp = x.mNextOp + 1 /\ y.mOpKind \in OpKinds /\ y.mOpEnded = FALSE
    /\ y.mDetached = x.mDetached /\ y.results = x.results

Ends(x, y) ==
    /\ ~x.mDetached /\ ~x.mOpEnded
    /\ y.mNextOp = x.mNextOp /\ y.mOpKind = x.mOpKind /\ y.mOpEnded = TRUE
    /\ y.mDetached = x.mDetached
    /\ \E r \in Results : /\ r.name \in Contract!Terminal(x.mOpKind)
                          /\ y.results = [x.results EXCEPT ![x.mNextOp] = <<r>>]

Detaches(x, y) ==
    /\ y.mNextOp = x.mNextOp /\ y.mOpKind = x.mOpKind /\ y.mOpEnded = x.mOpEnded
    /\ y.mDetached = TRUE /\ y.results = x.results

\* A result that may be given to the running operation of session s.
Fits(s, x, r) ==
    /\ r \in Results
    /\ r.name \in Contract!Terminal(x.mOpKind)
    /\ r.name = "Succeeded" => r.gid = UserOf[s] /\ r.age <= HeldMatchWindow

\* endOperationLocked() with a fitting result keeps the session's invariant.
LEMMA EndKeeps ==
    ASSUME NEW s \in Sessions, NEW x \in SessionStates, SInv(s, x),
           ~x.mDetached, ~x.mOpEnded, NEW r, Fits(s, x, r)
    PROVE  /\ endOperation(x, r) \in SessionStates
           /\ SInv(s, endOperation(x, r))
           /\ Ends(x, endOperation(x, r))
<1> DEFINE y == endOperation(x, r)
<1>1. /\ x.mOp \in OpIds /\ x.mOp = x.mNextOp /\ x.results[x.mOp] = <<>>
      /\ x.results \in [OpIds -> Seq(Results)] /\ r \in Results
  BY DEF SInv, Fits, SessionStates
<1>2. /\ y.mOpEnded = TRUE /\ y.mHeld = NoMatch /\ y.mOp = x.mOp /\ y.mNextOp = x.mNextOp
      /\ y.mOpKind = x.mOpKind /\ y.mDetached = x.mDetached
      /\ y.results = [x.results EXCEPT ![x.mOp] = Append(@, r)]
  BY DEF endOperation, SessionStates
<1>3. Append(<<>>, r) = <<r>> /\ <<r>> \in Seq(Results) /\ Len(<<r>>) = 1 /\ <<r>>[1] = r
      /\ DOMAIN <<r>> = {1}
  BY <1>1
<1>4. y.results = [x.results EXCEPT ![x.mOp] = <<r>>]
  BY <1>1, <1>2, <1>3
<1>5. NoMatch \in Matches
  BY HalAssumption, SessionAssumption DEF NoMatch, Matches, Nobody, Origins
<1>6. y \in SessionStates
  BY <1>1, <1>3, <1>5 DEF endOperation, SessionStates
<1>7. \A o \in OpIds : y.results[o] = IF o = x.mOp THEN <<r>> ELSE x.results[o]
  BY <1>1, <1>4
<1>8. SInv(s, y)
  BY <1>1, <1>2, <1>3, <1>7 DEF SInv, Fits, NoMatch, OpIds
<1>9. Ends(x, y)
  BY <1>1, <1>2, <1>4 DEF Ends, Fits
<1> QED
  BY <1>6, <1>8, <1>9

\* A section that leaves the operation alone and holds no other user's match.
LEMMA UntouchedKeeps ==
    ASSUME NEW s \in Sessions, NEW x \in SessionStates, NEW y \in SessionStates, SInv(s, x),
           Untouched(x, y), y.mOp = x.mOp,
           \/ y.mHeld.gid = 0
           \/ y.mHeld.gid = x.mHeld.gid
           \/ y.mHeld.gid = UserOf[s] /\ runningKind(x, "Authenticate")
    PROVE  SInv(s, y)
  BY DEF SInv, Untouched, runningKind

\* What a section under mMutex may make of a session.
Evolves(s, x, y) ==
    /\ y \in SessionStates
    /\ SInv(s, y)
    /\ Untouched(x, y) \/ Begins(x, y) \/ Ends(x, y) \/ Detaches(x, y)

\* A section that returns early leaves the session as it was.
LEMMA SameEvolves ==
    ASSUME NEW s \in Sessions, NEW x \in SessionStates, SInv(s, x)
    PROVE  Evolves(s, x, x)
  BY DEF Evolves, Untouched

\* The results are of the type Results.
LEMMA ResultType ==
    ASSUME NEW n \in ResultNames, NEW f \in Origins
    PROVE  /\ Result(n, f) \in Results /\ Result(n, f).name = n
           /\ \A q \in Seq(Fids) : Listing(n, f, q) \in Results /\ Listing(n, f, q).name = n
           /\ \A g \in Users, a \in 0..HeldMatchWindow + 1 :
                 /\ Success(f, g, a) \in Results /\ Success(f, g, a).name = "Succeeded"
                 /\ Success(f, g, a).gid = g /\ Success(f, g, a).age = a
<1>1. 0 \in 0..HeldMatchWindow + 1 /\ <<>> \in Seq(Fids) /\ "Succeeded" \in ResultNames
  BY SessionAssumption DEF ResultNames
<1> QED
  BY <1>1 DEF Result, Listing, Success, Results

\* The results a kind allows, one by one.
LEMMA TerminalNames ==
    ASSUME NEW k
    PROVE  /\ {"Error", "Canceled", "UnableToProcess"} \subseteq Contract!Terminal(k)
           /\ k = "Enroll" => "EnrollmentDone" \in Contract!Terminal(k)
           /\ k = "Authenticate" => {"Succeeded", "Lockout"} \subseteq Contract!Terminal(k)
           /\ k = "DetectInteraction"
                 => {"InteractionDetected", "Lockout"} \subseteq Contract!Terminal(k)
           /\ k = "Enumerate" => "Enumerated" \in Contract!Terminal(k)
           /\ k = "Remove" => "Removed" \in Contract!Terminal(k)
           /\ k = "InvalidateAuthenticatorId" => "Invalidated" \in Contract!Terminal(k)
           /\ k = "ResetLockout" => "LockoutCleared" \in Contract!Terminal(k)
<1>1. \A r : <<k, r>> \in Contract!Endings => r \in Contract!Terminal(k)
  BY DEF Contract!Terminal
<1>2. {"Error", "Canceled", "UnableToProcess"} \subseteq Contract!Terminal(k)
  BY DEF Contract!Terminal, Contract!Failures
<1> QED
  BY <1>1, <1>2 DEF Contract!Endings

\* beginOperation(), with the operationId that authenticate() records.
LEMMA BeginEvolves ==
    ASSUME NEW s \in Sessions, NEW x \in SessionStates, SInv(s, x), NEW k \in OpKinds,
           ~x.mDetached, x.mNextOp < MaxOps
    PROVE  /\ beginOperation(x, k).mOp \in 0..MaxOps
           /\ beginOperation(x, k).mDetached = x.mDetached
           /\ Evolves(s, x, beginOperation(x, k))
           /\ Evolves(s, x, [beginOperation(x, k) EXCEPT !.mAuthOperationId = beginOperation(x, k).mOp])
<1> DEFINE y == beginOperation(x, k)
           z == [y EXCEPT !.mAuthOperationId = y.mOp]
<1>1. x.mNextOp \in 0..MaxOps /\ x.mNextOp + 1 \in 0..MaxOps /\ x.mNextOp + 1 \in OpIds
  BY SessionAssumption DEF SessionStates, OpIds
<1>2. NoMatch \in Matches /\ NoMatch.gid = 0
  BY HalAssumption, SessionAssumption DEF NoMatch, Matches, Nobody, Origins
<1>3. y \in SessionStates
  <2>1. <<>> \in Seq(Fids) /\ k \in OpKinds \cup {"None"} /\ FALSE \in BOOLEAN
    OBVIOUS
  <2> DEFINE w == [x EXCEPT !.mNextOp = x.mNextOp + 1, !.mOp = x.mNextOp + 1, !.mOpKind = k,
                            !.mOpEnded = FALSE]
  <2>2. w \in SessionStates
    BY <1>1, <2>1 DEF SessionStates
  <2>3. y = [w EXCEPT !.mEnumerated = <<>>, !.mRemoved = <<>>, !.mHeld = NoMatch]
    BY DEF beginOperation
  <2> HIDE DEF w
  <2> QED
    BY <1>2, <2>1, <2>2, <2>3 DEF SessionStates
<1>4. /\ y.mOp = x.mNextOp + 1 /\ y.mNextOp = x.mNextOp + 1 /\ y.mOpKind = k /\ y.mOpEnded = FALSE
      /\ y.mDetached = x.mDetached /\ y.results = x.results /\ y.mHeld = NoMatch
  BY DEF beginOperation, SessionStates
<1>5. SInv(s, y)
  BY <1>1, <1>2, <1>4 DEF SInv, OpIds
<1>6. z \in SessionStates
  BY <1>1, <1>3, <1>4 DEF SessionStates
<1>7. /\ z.mOp = x.mNextOp + 1 /\ z.mNextOp = x.mNextOp + 1 /\ z.mOpKind = k /\ z.mOpEnded = FALSE
      /\ z.mDetached = x.mDetached /\ z.results = x.results /\ z.mHeld = NoMatch
  BY <1>3, <1>4 DEF SessionStates
<1>8. SInv(s, z)
  BY <1>1, <1>2, <1>7 DEF SInv, OpIds
<1> QED
  BY <1>1, <1>3, <1>4, <1>5, <1>6, <1>7, <1>8 DEF Evolves, Begins

\* endOperationLocked() evolves the session.
LEMMA EndEvolves ==
    ASSUME NEW s \in Sessions, NEW x \in SessionStates, SInv(s, x),
           ~x.mDetached, ~x.mOpEnded, NEW r, Fits(s, x, r)
    PROVE  Evolves(s, x, endOperation(x, r))
  BY EndKeeps DEF Evolves

\* failOperation() evolves the session.
LEMMA FailEvolves ==
    ASSUME NEW s \in Sessions, NEW x \in SessionStates, SInv(s, x), NEW o \in 0..MaxOps
    PROVE  Evolves(s, x, failOperation(x, s, o))
<1>1. CASE runningOp(x, o)
  <2>1. <<s, o>> \in Origins
    BY DEF Origins
  <2>2. Fits(s, x, Result("UnableToProcess", <<s, o>>))
    BY <2>1, ResultType, TerminalNames DEF Fits, ResultNames
  <2> QED
    BY <1>1, <2>2, EndEvolves DEF failOperation, runningOp
<1>2. CASE ~runningOp(x, o)
  BY <1>2, SameEvolves DEF failOperation
<1> QED
  BY <1>1, <1>2

\* Ending with a result that every kind allows.
LEMMA FailureFits ==
    ASSUME NEW s \in Sessions, NEW x \in SessionStates, NEW f \in Origins,
           NEW n \in {"Error", "Canceled", "UnableToProcess"}
    PROVE  Fits(s, x, Result(n, f))
  BY ResultType, TerminalNames DEF Fits, ResultNames

\* Ending with a result other than a match.
LEMMA PlainFits ==
    ASSUME NEW s \in Sessions, NEW x \in SessionStates, NEW f \in Origins,
           NEW n \in ResultNames, n \in Contract!Terminal(x.mOpKind), n # "Succeeded"
    PROVE  /\ Fits(s, x, Result(n, f))
           /\ \A q \in Seq(Fids) : Fits(s, x, Listing(n, f, q))
  BY ResultType DEF Fits

\* Ending an authentication with a match of the session's user.
LEMMA SuccessFits ==
    ASSUME NEW s \in Sessions, NEW x \in SessionStates, NEW f \in Origins,
           x.mOpKind = "Authenticate", NEW a \in 0..HeldMatchWindow + 1, a <= HeldMatchWindow
    PROVE  Fits(s, x, Success(f, UserOf[s], a))
<1>1. UserOf[s] \in Users
  BY HalAssumption
<1>2. "Succeeded" \in ResultNames /\ "Succeeded" \in Contract!Terminal(x.mOpKind)
  BY TerminalNames DEF ResultNames
<1> QED
  BY <1>1, <1>2, ResultType DEF Fits

\* A module message evolves the session it is delivered to.
LEMMA MessageEvolves ==
    ASSUME NEW s \in Sessions, NEW x \in SessionStates, SInv(s, x), NEW m \in Messages
    PROVE  Evolves(s, x, onMessage(x, UserOf[s], m))
<1> DEFINE u == UserOf[s]
<1> USE DEF ResultNames
<1>0. m.from \in Origins /\ m.fid \in Fids \cup {0} /\ m.gid \in Users \cup {0} /\ u \in Users
  BY HalAssumption DEF Messages
<1>1. CASE x.mDetached
  BY <1>1, SameEvolves DEF onMessage
<1>2. CASE ~x.mDetached
  <2>1. ASSUME m.type \in {"ERROR", "CANCELED"}
        PROVE  Evolves(s, x, onError(x, m))
    BY <1>0, <1>2, FailureFits, EndEvolves, SameEvolves DEF onError
  <2>2. Evolves(s, x, onEnrolling(x, u, m))
    <3>1. CASE runningKind(x, "Enroll")
      BY <1>0, <1>2, <3>1, PlainFits, TerminalNames, EndEvolves, SameEvolves
      DEF onEnrolling, runningKind
    <3> QED
      BY <3>1, SameEvolves DEF onEnrolling
  <2>3. Evolves(s, x, onRemoved(x, m))
    <3>1. CASE runningKind(x, "Remove") /\ m.fid # 0
      <4> DEFINE y == [x EXCEPT !.mRemoved = Append(@, m.fid)]
      <4>0. Append(x.mRemoved, m.fid) \in Seq(Fids)
        <5>1. x.mRemoved \in Seq(Fids) /\ m.fid \in Fids
          BY <1>0, <3>1 DEF SessionStates
        <5> QED
          BY <5>1
      <4>1. y \in SessionStates
        BY <4>0 DEF SessionStates
      <4>2. Untouched(x, y) /\ y.mOp = x.mOp /\ y.mHeld = x.mHeld
        BY DEF Untouched, SessionStates
      <4> QED
        BY <3>1, <4>1, <4>2, UntouchedKeeps DEF Evolves, onRemoved, SInv
    <3> QED
      BY <3>1, SameEvolves DEF onRemoved
  <2>4. ASSUME m.type = "AUTHENTICATED"
        PROVE  Evolves(s, x, onAuthenticated(x, u, m))
    <3>1. CASE runningKind(x, "DetectInteraction")
      <4>1. Evolves(s, x, endOperation(x, Result("InteractionDetected", m.from)))
        BY <1>0, <1>2, <3>1, PlainFits, TerminalNames, EndEvolves DEF runningKind
      <4>2. ~holdsMatch(x, u, m) /\ ~runningKind(x, "Authenticate")
        BY <3>1 DEF holdsMatch, screenGated, runningKind
      <4> QED
        BY <3>1, <4>1, <4>2 DEF onAuthenticated
    <3>2. CASE holdsMatch(x, u, m)
      <4> DEFINE h == [gid |-> m.gid, from |-> m.from, age |-> 0]
                 y == [x EXCEPT !.mHeld = h]
      <4>1. h \in Matches /\ h.gid = u /\ runningKind(x, "Authenticate")
        BY <1>0, <3>2, SessionAssumption DEF Matches, holdsMatch, screenGated
      <4> HIDE DEF h
      <4>2. y \in SessionStates
        BY <4>1 DEF SessionStates
      <4>3. Untouched(x, y) /\ y.mOp = x.mOp /\ y.mHeld = h
        BY DEF Untouched, SessionStates
      <4>4. Evolves(s, x, y)
        BY <4>1, <4>2, <4>3, UntouchedKeeps DEF Evolves
      <4>5. ~runningKind(x, "DetectInteraction") /\ screenGated(x)
        BY <3>2 DEF holdsMatch, screenGated, runningKind
      <4> QED
        BY <3>2, <4>4, <4>5 DEF onAuthenticated, h
    <3>3. CASE runningKind(x, "Authenticate") /\ ~screenGated(x) /\ m.fid # 0 /\ m.gid = u
      <4>1. Evolves(s, x, endOperation(x, Success(m.from, u, 0)))
        BY <1>0, <1>2, <3>3, SuccessFits, EndEvolves, SessionAssumption DEF runningKind
      <4>2. ~holdsMatch(x, u, m) /\ ~runningKind(x, "DetectInteraction")
        BY <3>3 DEF holdsMatch, screenGated, runningKind
      <4> QED
        BY <3>3, <4>1, <4>2 DEF onAuthenticated
    <3> QED
      BY <3>1, <3>2, <3>3, SameEvolves DEF onAuthenticated
  <2>5. Evolves(s, x, onEnumerating(x, m))
    <3> DEFINE y == IF m.fid # 0 THEN [x EXCEPT !.mEnumerated = Append(@, m.fid)] ELSE x
    <3>0. ASSUME m.fid # 0
          PROVE  Append(x.mEnumerated, m.fid) \in Seq(Fids)
      <4>1. x.mEnumerated \in Seq(Fids) /\ m.fid \in Fids
        BY <1>0, <3>0 DEF SessionStates
      <4> QED
        BY <4>1
    <3>1. y \in SessionStates /\ Untouched(x, y) /\ y.mOp = x.mOp /\ y.mHeld = x.mHeld
      <4>1. CASE m.fid # 0
        <5>1. y = [x EXCEPT !.mEnumerated = Append(x.mEnumerated, m.fid)]
          BY <4>1
        <5>2. y \in SessionStates
          BY <3>0, <4>1, <5>1 DEF SessionStates
        <5> QED
          BY <5>1, <5>2 DEF SessionStates, Untouched
      <4>2. CASE m.fid = 0
        BY <4>2 DEF Untouched
      <4> QED
        BY <4>1, <4>2
    <3>2. SInv(s, y)
      BY <3>1, UntouchedKeeps DEF SInv
    <3> HIDE DEF y
    <3>3. CASE runningKind(x, "Enumerate") /\ m.left = 0
      <4> DEFINE r == Listing("Enumerated", m.from, y.mEnumerated)
                 z == endOperation(y, r)
      <4>1. ~y.mDetached /\ ~y.mOpEnded /\ y.mOpKind = "Enumerate" /\ y.mEnumerated \in Seq(Fids)
        BY <1>2, <3>1, <3>3 DEF runningKind, Untouched, SessionStates
      <4>2. Fits(s, y, r)
        BY <1>0, <3>1, <4>1, PlainFits, TerminalNames
      <4> HIDE DEF r
      <4>3. z \in SessionStates /\ SInv(s, z) /\ Ends(y, z)
        BY <3>1, <3>2, <4>1, <4>2, EndKeeps
      <4>4. Ends(x, z)
        BY <3>1, <4>3 DEF Ends, Untouched
      <4> HIDE DEF z
      <4> DEFINE e == [z EXCEPT !.mEnumerated = <<>>]
      <4>5. e \in SessionStates /\ Untouched(z, e) /\ e.mOp = z.mOp /\ e.mHeld = z.mHeld
        <5>1. <<>> \in Seq(Fids)
          OBVIOUS
        <5>2. e \in SessionStates
          BY <4>3, <5>1 DEF SessionStates
        <5> QED
          BY <4>3, <5>2 DEF SessionStates, Untouched
      <4>6. SInv(s, e)
        BY <4>3, <4>5, UntouchedKeeps DEF SInv
      <4>7. Ends(x, e)
        BY <4>4, <4>5 DEF Ends, Untouched
      <4> QED
        BY <3>3, <4>5, <4>6, <4>7 DEF Evolves, onEnumerating, e, z, r, y
    <3>4. CASE runningKind(x, "Enumerate") /\ m.left # 0
      BY <3>1, <3>2, <3>4 DEF Evolves, onEnumerating, y
    <3> QED
      BY <3>3, <3>4, SameEvolves DEF onEnumerating
  <2>6. Evolves(s, x, onLockout(x, m))
    <3>1. CASE m.type = "LOCKOUT" /\ \E k \in {"Authenticate", "DetectInteraction"} : runningKind(x, k)
      <4>1. Evolves(s, x, endOperation(x, Result("Lockout", m.from)))
        BY <1>0, <1>2, <3>1, PlainFits, TerminalNames, EndEvolves DEF runningKind
      <4> QED
        BY <3>1, <4>1 DEF onLockout
    <3>2. CASE m.type = "CLEARED" /\ runningKind(x, "ResetLockout")
      <4>1. Evolves(s, x, endOperation(x, Result("LockoutCleared", m.from)))
        BY <1>0, <1>2, <3>2, PlainFits, TerminalNames, EndEvolves DEF runningKind
      <4> QED
        BY <3>2, <4>1 DEF onLockout
    <3> QED
      BY <3>1, <3>2, SameEvolves DEF onLockout
  <2>7. Evolves(s, x, onInteraction(x, m))
    <3>1. CASE runningKind(x, "DetectInteraction")
      BY <1>0, <1>2, <3>1, PlainFits, TerminalNames, EndEvolves DEF onInteraction, runningKind
    <3> QED
      BY <3>1, SameEvolves DEF onInteraction
  <2> QED
    BY <1>2, <2>1, <2>2, <2>3, <2>4, <2>5, <2>6, <2>7, SameEvolves DEF onMessage
<1> QED
  BY <1>1, <1>2

\* updateContextLocked() leaves the operation and the held match alone.
LEMMA UpdateEvolves ==
    ASSUME NEW s \in Sessions, NEW x \in SessionStates, SInv(s, x), NEW c \in Contexts
    PROVE  /\ updateContext(x, c) \in SessionStates /\ SInv(s, updateContext(x, c))
           /\ Untouched(x, updateContext(x, c)) /\ updateContext(x, c).mHeld = x.mHeld
<1> DEFINE y == updateContext(x, c)
<1>1. c.displayState \in DisplayStates /\ x.mPressToAuth \in BOOLEAN
  BY DEF Contexts, ContextsOf, SessionStates
<1>2. (IF c.reason = "absent" THEN x.mPressToAuth ELSE c.reason = "press") \in BOOLEAN
  BY <1>1
<1>3. y \in SessionStates
  BY <1>1, <1>2 DEF updateContext, SessionStates
<1>4. Untouched(x, y) /\ y.mHeld = x.mHeld /\ y.mOp = x.mOp
  BY DEF updateContext, SessionStates, Untouched
<1>5. SInv(s, y)
  BY <1>3, <1>4, UntouchedKeeps, SMTT(30) DEF SInv
<1> QED
  BY <1>3, <1>4, <1>5

\* onContextChanged() releases a held match, forgets it or keeps it.
LEMMA ContextEvolves ==
    ASSUME NEW s \in Sessions, NEW x \in SessionStates, SInv(s, x), NEW c \in Contexts
    PROVE  Evolves(s, x, onContextChanged(x, c))
<1> DEFINE y == updateContext(x, c)
<1>1. y \in SessionStates /\ SInv(s, y) /\ Untouched(x, y)
  BY UpdateEvolves
<1>2. y.mHeld \in Matches /\ y.mHeld.gid \in Users \cup {0} /\ y.mHeld.from \in Origins
      /\ y.mHeld.age \in 0..HeldMatchWindow + 1 /\ 0 \notin Users
  BY <1>1, HalAssumption DEF SessionStates, Matches
<1> HIDE DEF y
<1>3. CASE contextReleases(y)
  <2> DEFINE r == Success(y.mHeld.from, y.mHeld.gid, y.mHeld.age)
             z == endOperation(y, r)
  <2>1. ~y.mDetached /\ ~y.mOpEnded /\ y.mHeld.gid # 0 /\ y.mHeld.age <= HeldMatchWindow
    BY <1>3 DEF contextReleases, contextWakes
  <2>2. y.mOpKind = "Authenticate" /\ y.mHeld.gid = UserOf[s]
    BY <1>1, <2>1 DEF SInv
  <2>3. Fits(s, y, r)
    BY <1>1, <1>2, <2>1, <2>2, SuccessFits
  <2>4. z \in SessionStates /\ SInv(s, z) /\ Ends(y, z)
    BY <1>1, <2>1, <2>3, EndKeeps
  <2>5. Ends(x, z)
    BY <1>1, <2>4 DEF Ends, Untouched
  <2> QED
    BY <1>3, <2>4, <2>5 DEF Evolves, onContextChanged, y
<1>4. CASE ~contextReleases(y) /\ contextWakes(y)
  <2> DEFINE z == [y EXCEPT !.mHeld = NoMatch]
  <2>1. NoMatch \in Matches /\ NoMatch.gid = 0
    BY HalAssumption, SessionAssumption DEF NoMatch, Matches, Nobody, Origins
  <2>2. z \in SessionStates
    BY <1>1, <2>1 DEF SessionStates
  <2>3. Untouched(y, z) /\ z.mOp = y.mOp /\ z.mHeld = NoMatch
    BY <1>1 DEF SessionStates, Untouched
  <2>4. SInv(s, z)
    BY <1>1, <2>1, <2>2, <2>3, UntouchedKeeps
  <2>5. Untouched(x, z)
    BY <1>1, <2>3 DEF Untouched
  <2> QED
    BY <1>4, <2>2, <2>4, <2>5 DEF Evolves, onContextChanged, y
<1>5. CASE ~contextReleases(y) /\ ~contextWakes(y)
  BY <1>1, <1>5 DEF Evolves, onContextChanged, y
<1> QED
  BY <1>3, <1>4, <1>5

\* The end of a module call evolves the session that made it.
LEMMA FinishEvolves ==
    ASSUME NEW s \in Sessions, NEW x \in SessionStates, SInv(s, x), NEW o \in 0..MaxOps,
           NEW w, NEW e \in BOOLEAN, w \in OpKinds => x.mOpKind = w
    PROVE  Evolves(s, x, Finish(x, s, o, w, e))
<1> USE DEF ResultNames
<1>0. <<s, o>> \in Origins
  BY DEF Origins
<1>1. CASE w \in StartedKinds \cup {"rearm"}
  <2>1. w # "InvalidateAuthenticatorId" /\ w # "Remove"
    BY <1>1 DEF StartedKinds
  <2> QED
    BY <1>1, <2>1, FailEvolves, SameEvolves DEF Finish
<1>2. CASE w = "InvalidateAuthenticatorId"
  <2>1. w \in OpKinds /\ w \notin StartedKinds \cup {"rearm"}
    BY <1>2 DEF StartedKinds, OpKinds
  <2>2. runningOp(x, o) => Evolves(s, x, endOperation(x, Result("Invalidated", <<s, o>>)))
    BY <1>0, <1>2, <2>1, PlainFits, TerminalNames, EndEvolves DEF runningOp
  <2> QED
    BY <1>2, <2>1, <2>2, FailEvolves, SameEvolves DEF Finish
<1>3. CASE w = "Remove"
  <2>1. w \in OpKinds /\ w \notin StartedKinds \cup {"rearm"} /\ x.mRemoved \in Seq(Fids)
    BY <1>3 DEF StartedKinds, OpKinds, SessionStates
  <2>2. CASE runningOp(x, o)
    <3> DEFINE r == Listing("Removed", <<s, o>>, x.mRemoved)
               z == endOperation(x, r)
               y == [z EXCEPT !.mRemoved = <<>>]
    <3>1. Fits(s, x, r)
      BY <1>0, <1>3, <2>1, PlainFits, TerminalNames
    <3>2. z \in SessionStates /\ SInv(s, z) /\ Ends(x, z)
      BY <2>2, <3>1, EndKeeps DEF runningOp
    <3> HIDE DEF z
    <3>3. <<>> \in Seq(Fids)
      OBVIOUS
    <3>4. y \in SessionStates
      BY <3>2, <3>3 DEF SessionStates
    <3>5. Untouched(z, y) /\ y.mOp = z.mOp /\ y.mHeld = z.mHeld
      BY <3>2 DEF SessionStates, Untouched
    <3>6. SInv(s, y) /\ Ends(x, y)
      BY <3>2, <3>4, <3>5, UntouchedKeeps DEF Ends, Untouched
    <3> QED
      BY <1>3, <2>1, <2>2, <3>4, <3>6 DEF Finish, Evolves, z
  <2> QED
    BY <1>3, <2>1, <2>2, SameEvolves DEF Finish
<1>4. CASE w \notin StartedKinds \cup {"rearm", "InvalidateAuthenticatorId", "Remove"}
  BY <1>4, SameEvolves DEF Finish
<1> QED
  BY <1>1, <1>2, <1>3, <1>4

\* detach() only detaches.
LEMMA DetachEvolves ==
    ASSUME NEW s \in Sessions, NEW x \in SessionStates, SInv(s, x)
    PROVE  Evolves(s, x, [x EXCEPT !.mDetached = TRUE])
<1> DEFINE y == [x EXCEPT !.mDetached = TRUE]
<1>1. y \in SessionStates /\ Detaches(x, y) /\ y.mOp = x.mOp /\ y.mHeld = x.mHeld
  BY DEF SessionStates, Detaches
<1>2. SInv(s, y)
  BY <1>1 DEF SInv, Detaches
<1> QED
  BY <1>1, <1>2 DEF Evolves

\* The clock only ages a held match.
LEMMA TickEvolves ==
    ASSUME NEW s \in Sessions, NEW x \in SessionStates, SInv(s, x),
           x.mHeld.age <= HeldMatchWindow
    PROVE  Evolves(s, x, [x EXCEPT !.mHeld.age = @ + 1])
<1> DEFINE h == [x.mHeld EXCEPT !.age = @ + 1]
           y == [x EXCEPT !.mHeld = h]
<1>1. x.mHeld \in Matches /\ x.mHeld.age \in 0..HeldMatchWindow + 1
  BY DEF SessionStates, Matches
<1>2. h \in Matches /\ h.gid = x.mHeld.gid
  BY <1>1, SessionAssumption DEF Matches
<1> HIDE DEF h
<1>3. y \in SessionStates
  BY <1>2 DEF SessionStates
<1>4. Untouched(x, y) /\ y.mOp = x.mOp /\ y.mHeld = h
  BY DEF SessionStates, Untouched
<1>5. SInv(s, y)
  BY <1>2, <1>3, <1>4, UntouchedKeeps
<1> QED
  BY <1>3, <1>4, <1>5 DEF Evolves, h
=============================================================================
