--------------------------- MODULE PlatformProofs ---------------------------
(***************************************************************************)
(* What the codec service's guard and the voice effects promise, proved    *)
(* for any codecs, specifications, sessions and configurations.            *)
(***************************************************************************)
EXTENDS CodecJail, VoiceProcessing, TLAPS

-----------------------------------------------------------------------------
(* CodecJail. *)

\* The codecs this boot may offer, which the read-only mode decides.
CjIntended == kEncoders \cup (IF cjDevice.mode = "1" THEN kDecoders ELSE {})

\* A name or an alias of one of them.
CjKnown(name) == \E c \in CjIntended : name = c \/ name \in CjAliases[c]

\* The filter is on in every thread once it counts as installed; only then does the store
\* offer names, and only known ones.
CjInv ==
  /\ cjDevice \in CjDevices
  /\ cjStore \in [built : BOOLEAN, listed : SUBSET CjComponents, names : SUBSET CjNames]
  /\ cjFilter = "installed" => cjThreads = "all"
  /\ cjStore.names # {} => cjFilter = "installed"
  /\ \A name \in cjStore.names : CjKnown(name)
  /\ cjMade # {} => cjFilter = "installed"
  /\ \A name \in cjMade : CjKnown(name)
  /\ cjPlugin \in [asked : BOOLEAN, codecs : SUBSET (CjIntended \cup {"c2hwjail.none"})]
  /\ cjPlugin.asked => cjPlugin.codecs # {}

\* AllowedCodecs: whatever the configuration, nothing but the intended codecs.
LEMMA AllowedIntended == AllowedCodecs \subseteq CjIntended
BY Zenon DEF AllowedCodecs, CjIntended

\* KeepAllowedCodecs: never empty, and nothing but what is allowed and the placeholder.
LEMMA KeptAllowed ==
  ASSUME NEW codecs, NEW allowed
  PROVE  /\ KeepAllowedCodecs(codecs, allowed) # {}
         /\ KeepAllowedCodecs(codecs, allowed) \subseteq allowed \cup {"c2hwjail.none"}
BY DEF KeepAllowedCodecs

\* EnsureFilter: installed is final, and means all threads.
LEMMA FilterEnsured ==
  ASSUME cjFilter = "installed" => cjThreads = "all", EnsureFilter
  PROVE  /\ cjFilter' = "installed" => cjThreads' = "all"
         /\ cjFilter = "installed" => cjFilter' = "installed"
<1>1. CASE cjFilter = "unset" /\ InstallFilter
  BY <1>1, Zenon DEF InstallFilter
<1>2. CASE UNCHANGED <<cjFilter, cjThreads>>
  BY <1>2
<1> QED BY <1>1, <1>2 DEF EnsureFilter

\* FilteringStore: names of allowed components and their aliases.
LEMMA StoreFiltered ==
  ASSUME NEW store \in SUBSET CjComponents, NEW allowed \in SUBSET CjIntended
  PROVE  LET s == FilteringStore(store, allowed)
         IN  /\ s \in [built : BOOLEAN, listed : SUBSET CjComponents, names : SUBSET CjNames]
             /\ s.names # {} => allowed # {}
             /\ \A name \in s.names : CjKnown(name)
<1> DEFINE listed == store \cap allowed
           names == listed \cup UNION {CjAliases[c] : c \in listed}
<1>1. listed \in SUBSET CjComponents /\ listed \subseteq allowed /\ listed \subseteq CjIntended
  OBVIOUS
<1>2. names \in SUBSET CjNames
  BY <1>1 DEF CjNames
<1>3. names # {} => allowed # {}
  BY <1>1
<1>4. \A name \in names : CjKnown(name)
  BY <1>1 DEF CjKnown
<1>5. FilteringStore(store, allowed) = [built |-> TRUE, listed |-> listed, names |-> names]
  BY DEF FilteringStore
<1> HIDE DEF listed, names
<1> QED BY <1>1, <1>2, <1>3, <1>4, <1>5

\* CjInv holds initially.
LEMMA CjInvInit == CjInit => CjInv
BY DEF CjInit, CjInv

\* Every step keeps CjInv.
LEMMA CjInvKept ==
  ASSUME CjInv, [CjNext]_cjVars
  PROVE  CjInv'
<1> USE DEF CjInv
<1>1. ASSUME cjDevice' = cjDevice
      PROVE  CjIntended' = CjIntended /\ \A name : CjKnown(name)' <=> CjKnown(name)
  BY <1>1 DEF CjIntended, CjKnown
<1>2. CASE SetUpMinijail
  <2>1. /\ cjFilter' = "installed" => cjThreads' = "all"
        /\ cjFilter = "installed" => cjFilter' = "installed"
    BY <1>2, FilterEnsured DEF SetUpMinijail
  <2> QED BY <1>1, <1>2, <2>1, Zenon DEF SetUpMinijail
<1>3. CASE getSupportedCodecs
  <2>1. PICK known : cjPlugin' = [asked |-> TRUE, codecs |-> KeepAllowedCodecs(known, AllowedCodecs)]
    BY <1>3, Zenon DEF getSupportedCodecs
  <2> DEFINE kept == KeepAllowedCodecs(known, AllowedCodecs)
  <2>2. kept # {} /\ kept \subseteq CjIntended \cup {"c2hwjail.none"}
    BY KeptAllowed, AllowedIntended
  <2> HIDE DEF kept
  <2>3. /\ cjPlugin' \in [asked : BOOLEAN, codecs : SUBSET (CjIntended \cup {"c2hwjail.none"})]
        /\ cjPlugin'.codecs # {}
    BY <2>1, <2>2 DEF kept
  <2> QED BY <1>1, <1>3, <2>3, Zenon DEF getSupportedCodecs
<1>4. CASE c2hwjailStoreCtor
  <2>1. /\ cjFilter' = "installed" => cjThreads' = "all"
        /\ cjFilter = "installed" => cjFilter' = "installed"
    BY <1>4, FilterEnsured DEF c2hwjailStoreCtor
  <2> DEFINE allowed == IF cjFilter' = "installed" THEN AllowedCodecs ELSE {}
  <2>2. PICK store \in SUBSET CjComponents : cjStore' = FilteringStore(store, allowed)
    BY <1>4 DEF c2hwjailStoreCtor
  <2>3. allowed \in SUBSET CjIntended /\ (allowed # {} => cjFilter' = "installed")
    BY AllowedIntended
  <2> HIDE DEF allowed
  <2>4. /\ cjStore' \in [built : BOOLEAN, listed : SUBSET CjComponents, names : SUBSET CjNames]
        /\ cjStore'.names # {} => cjFilter' = "installed"
        /\ \A name \in cjStore'.names : CjKnown(name)
    BY <2>2, <2>3, StoreFiltered, Zenon
  <2> QED BY <1>1, <1>4, <2>1, <2>4, Zenon DEF c2hwjailStoreCtor
<1>5. ASSUME NEW name, createComponent(name)
      PROVE  CjInv'
  <2>1. name \in cjStore.names /\ cjMade' = cjMade \cup {name}
    BY <1>5 DEF createComponent
  <2>2. cjMade' # {} => cjFilter = "installed"
    BY <2>1
  <2>3. \A n \in cjMade' : CjKnown(n)
    BY <2>1
  <2> QED BY <1>1, <1>5, <2>2, <2>3, Zenon DEF createComponent
<1>6. CASE CjChange
  <2>1. cjDevice' \in CjDevices /\ cjDevice'.mode = cjDevice.mode
    BY <1>6, Zenon DEF CjChange, CjDevices
  <2>2. CjIntended' = CjIntended /\ \A name : CjKnown(name)' <=> CjKnown(name)
    BY <2>1 DEF CjIntended, CjKnown
  <2> QED BY <1>6, <2>1, <2>2, Zenon DEF CjChange
<1>7. CASE UNCHANGED cjVars
  BY <1>1, <1>7, Zenon DEF cjVars
<1> QED BY <1>2, <1>3, <1>4, <1>5, <1>6, <1>7, Zenon DEF CjNext

\* No hardware codec runs outside the filter, and none but the intended ones at all, whatever
\* the specifications, the store's components and their aliases, and whatever changes between
\* SetUpMinijail, getSupportedCodecs, the store's construction and createComponent.
THEOREM CodecsConfinedHolds == CjSpec => []CodecsConfined
<1>1. CjInit => CjInv
  BY CjInvInit
<1>2. CjInv /\ [CjNext]_cjVars => CjInv'
  BY CjInvKept
<1>3. CjInv => CodecsConfined
  <2> SUFFICES ASSUME CjInv PROVE CodecsConfined
    OBVIOUS
  <2>1. /\ cjMade # {} => cjThreads = "all"
        /\ \A name \in cjMade : CjKnown(name)
        /\ cjPlugin.asked => cjPlugin.codecs # {}
    BY Zenon DEF CjInv
  <2>2. cjPlugin.codecs \subseteq CjIntended \cup {"c2hwjail.none"}
    BY DEF CjInv
  <2>3. cjPlugin.codecs \subseteq kEncoders \cup {"c2hwjail.none"}
                                   \cup (IF cjDevice.mode = "1" THEN kDecoders ELSE {})
    BY <2>2 DEF CjIntended
  <2> QED BY <2>1, <2>3 DEF CodecsConfined, CjKnown, CjIntended
<1> QED BY <1>1, <1>2, <1>3, PTL DEF CjSpec


-----------------------------------------------------------------------------
(* VoiceProcessing. *)

VoxStates == {"INIT", "CREATED", "CONFIG", "ACTIVE"}

VoxSession ==
  [id : VoxIds, config : VoxConfigs \cup {VoxDefault}, state : {"INIT", "CONFIG"},
   fx : [VoxEffects -> VoxStates],
   created : SUBSET VoxEffects, enabled : SUBSET VoxEffects, processed : SUBSET VoxEffects]

\* The enabled effects are the active ones, and a frame in progress waits for one of them.
VoxRunning(s) ==
  /\ \A f \in VoxEffects : f \in s.enabled <=> s.fx[f] = "ACTIVE"
  /\ s.processed # {} => ~ s.enabled \subseteq s.processed

\* The created effects are those not in INIT.
VoxCreated(s) == \A f \in VoxEffects : f \in s.created <=> s.fx[f] # "INIT"

VoxSound(s) == s \in VoxSession /\ VoxRunning(s) /\ VoxCreated(s)

\* What becomes of a session: it keeps its id and, while an effect is enabled, its configuration.
VoxFrom1(s, t) == t.id = s.id /\ (s.enabled # {} => t.config = s.config)

\* effect_set_state: the effect moves if the transition is allowed, and nothing else.
LEMMA FxMoved ==
  ASSUME NEW s \in VoxSession, VoxRunning(s), NEW f \in VoxEffects, NEW to \in VoxStates
  PROVE  LET t == effect_set_state(s, f, to)
         IN  /\ t \in VoxSession /\ VoxRunning(t)
             /\ t.id = s.id /\ t.config = s.config /\ t.created = s.created
             /\ t.fx[f] = IF s.fx[f] \in VoxFrom(to) THEN to ELSE s.fx[f]
             /\ \A g \in VoxEffects : g # f => t.fx[g] = s.fx[g]
<1> DEFINE old == s.fx[f]
           t == effect_set_state(s, f, to)
<1>1. old \in VoxStates /\ s.fx \in [VoxEffects -> VoxStates] /\ s.enabled \in SUBSET VoxEffects
  BY DEF VoxSession
<1>2. CASE old \notin VoxFrom(to)
  <2>1. t = s
    BY <1>2 DEF effect_set_state
  <2> QED BY <1>2, <2>1
<1>3. ASSUME old \in VoxFrom(to), NEW on \in BOOLEAN,
             t = [session_set_fx_enabled(s, f, on) EXCEPT !.fx[f] = to],
             on = (to = "ACTIVE")
      PROVE  /\ t \in VoxSession /\ VoxRunning(t)
             /\ t.id = s.id /\ t.config = s.config /\ t.created = s.created
             /\ t.fx[f] = IF s.fx[f] \in VoxFrom(to) THEN to ELSE s.fx[f]
             /\ \A g \in VoxEffects : g # f => t.fx[g] = s.fx[g]
  <2> DEFINE enabled == IF on THEN s.enabled \cup {f} ELSE s.enabled \ {f}
             u == [s EXCEPT !.enabled = enabled, !.processed = {}]
  <2>1. enabled \in SUBSET VoxEffects /\ \A g \in VoxEffects : g \in enabled <=> IF g = f THEN to = "ACTIVE" ELSE g \in s.enabled
    BY <1>1, <1>3, Zenon
  <2>2. t = [u EXCEPT !.fx[f] = to]
    BY <1>3 DEF session_set_fx_enabled
  <2> HIDE DEF enabled, t
  <2>3. /\ u \in VoxSession /\ u.enabled = enabled /\ u.processed = {} /\ u.fx = s.fx
        /\ u.id = s.id /\ u.config = s.config /\ u.created = s.created
    BY <2>1, Zenon DEF VoxSession
  <2> HIDE DEF u
  <2>4. /\ t \in VoxSession /\ t.enabled = enabled /\ t.processed = {} /\ t.fx = [s.fx EXCEPT ![f] = to]
        /\ t.id = s.id /\ t.config = s.config /\ t.created = s.created
    BY <2>2, <2>3 DEF VoxSession
  <2>5. t.fx[f] = to /\ \A g \in VoxEffects : g # f => t.fx[g] = s.fx[g]
    BY <1>1, <2>4
  <2>6. VoxRunning(t)
    BY <2>1, <2>4, <2>5 DEF VoxRunning
  <2> QED BY <1>3, <2>4, <2>5, <2>6
<1>4. CASE old \in VoxFrom(to) /\ old = "ACTIVE" /\ to \in {"INIT", "CONFIG"}
  <2>1. t = [session_set_fx_enabled(s, f, FALSE) EXCEPT !.fx[f] = to]
    BY <1>4 DEF effect_set_state
  <2> HIDE DEF t
  <2>2. FALSE = (to = "ACTIVE")
    BY <1>4
  <2> QED BY <1>3, <1>4, <2>1, <2>2, Zenon DEF t
<1>5. CASE old \in VoxFrom(to) /\ old = "CONFIG" /\ to = "ACTIVE"
  <2>1. t = [session_set_fx_enabled(s, f, TRUE) EXCEPT !.fx[f] = to]
    BY <1>5 DEF effect_set_state
  <2> HIDE DEF t
  <2>2. TRUE = (to = "ACTIVE")
    BY <1>5
  <2> QED BY <1>3, <1>5, <2>1, <2>2, Zenon DEF t
<1>6. CASE /\ old \in VoxFrom(to) /\ ~(old = "ACTIVE" /\ to \in {"INIT", "CONFIG"})
           /\ ~(old = "CONFIG" /\ to = "ACTIVE")
  <2>1. t = [s EXCEPT !.fx[f] = to]
    BY <1>6, Zenon DEF effect_set_state
  <2>2. (old = "ACTIVE") <=> (to = "ACTIVE")
    BY <1>1, <1>6 DEF VoxFrom, VoxStates
  <2> HIDE DEF t
  <2>3. /\ t \in VoxSession /\ t.enabled = s.enabled /\ t.processed = s.processed /\ t.fx = [s.fx EXCEPT ![f] = to]
        /\ t.id = s.id /\ t.config = s.config /\ t.created = s.created
    BY <2>1 DEF VoxSession
  <2>4. t.fx[f] = to /\ \A g \in VoxEffects : g # f => t.fx[g] = s.fx[g]
    BY <1>1, <2>3
  <2>5. VoxRunning(t)
    BY <2>2, <2>3, <2>4 DEF VoxRunning
  <2> QED BY <1>6, <2>3, <2>4, <2>5 DEF t
<1> QED BY <1>2, <1>4, <1>5, <1>6, Zenon


\* CMD_ENABLE and CMD_DISABLE, on an effect that exists.
LEMMA FxCommanded ==
  ASSUME NEW s, VoxSound(s), NEW f \in s.created, NEW to \in {"ACTIVE", "CONFIG"}
  PROVE  LET t == effect_set_state(s, f, to)
         IN  VoxSound(t) /\ t.id = s.id /\ t.config = s.config /\ t.created = s.created
<1> DEFINE t == effect_set_state(s, f, to)
<1>1. s \in VoxSession /\ VoxRunning(s) /\ VoxCreated(s) /\ f \in VoxEffects /\ to \in VoxStates
  BY DEF VoxSound, VoxSession, VoxStates
<1>2. /\ t \in VoxSession /\ VoxRunning(t)
      /\ t.id = s.id /\ t.config = s.config /\ t.created = s.created
      /\ t.fx[f] = IF s.fx[f] \in VoxFrom(to) THEN to ELSE s.fx[f]
      /\ \A g \in VoxEffects : g # f => t.fx[g] = s.fx[g]
  BY <1>1, FxMoved
<1> HIDE DEF t
<1>3. s.fx[f] # "INIT" /\ to # "INIT"
  BY <1>1 DEF VoxCreated
<1>4. VoxCreated(t)
  BY <1>1, <1>2, <1>3 DEF VoxCreated
<1> QED BY <1>2, <1>4 DEF VoxSound, t

\* session_create_effect, of an effect that does not exist.
LEMMA FxCreated ==
  ASSUME NEW s, VoxSound(s), NEW f \in VoxEffects, f \notin s.created
  PROVE  LET t == session_create_effect(s, f)
         IN  /\ VoxSound(t) /\ t.id = s.id /\ t.created # {}
             /\ s.created # {} => t.config = s.config
<1> DEFINE fresh == IF s.created = {}
                    THEN [s EXCEPT !.config = VoxDefault, !.enabled = {}, !.processed = {}]
                    ELSE s
           made == effect_set_state(fresh, f, "CREATED")
           t == session_create_effect(s, f)
<1>1. s \in VoxSession /\ VoxRunning(s) /\ VoxCreated(s) /\ "CREATED" \in VoxStates /\ s.fx[f] = "INIT"
  BY DEF VoxSound, VoxCreated, VoxStates
<1>2. /\ fresh \in VoxSession /\ VoxRunning(fresh) /\ fresh.fx = s.fx /\ fresh.id = s.id /\ fresh.created = s.created
      /\ s.created # {} => fresh.config = s.config
  <2>1. CASE s.created = {}
    <3> DEFINE u == [s EXCEPT !.config = VoxDefault, !.enabled = {}, !.processed = {}]
    <3>1. /\ u \in VoxSession /\ u.fx = s.fx /\ u.id = s.id /\ u.created = s.created
          /\ u.enabled = {} /\ u.processed = {}
      BY <1>1, Zenon DEF VoxSession
    <3>2. fresh = u
      BY <2>1
    <3> HIDE DEF u, fresh
    <3>3. VoxRunning(u)
      BY <1>1, <2>1, <3>1 DEF VoxRunning, VoxCreated
    <3> QED BY <2>1, <3>1, <3>2, <3>3
  <2>2. CASE s.created # {}
    BY <1>1, <2>2
  <2> QED BY <2>1, <2>2
<1> HIDE DEF fresh
<1>3. /\ made \in VoxSession /\ VoxRunning(made)
      /\ made.id = s.id /\ made.config = fresh.config /\ made.created = s.created
      /\ made.fx[f] = IF s.fx[f] \in VoxFrom("CREATED") THEN "CREATED" ELSE s.fx[f]
      /\ \A g \in VoxEffects : g # f => made.fx[g] = s.fx[g]
  <2>1. /\ made \in VoxSession /\ VoxRunning(made)
        /\ made.id = fresh.id /\ made.config = fresh.config /\ made.created = fresh.created
        /\ made.fx[f] = IF fresh.fx[f] \in VoxFrom("CREATED") THEN "CREATED" ELSE fresh.fx[f]
        /\ \A g \in VoxEffects : g # f => made.fx[g] = fresh.fx[g]
    BY <1>1, <1>2, FxMoved
  <2> HIDE DEF made
  <2> QED BY <1>2, <2>1
<1>4. made.fx[f] = "CREATED"
  <2> HIDE DEF made
  <2> QED BY <1>1, <1>3 DEF VoxFrom
<1>5. t = [made EXCEPT !.created = made.created \cup {f}]
  BY <1>4 DEF session_create_effect, fresh
<1> HIDE DEF made, t
<1>6. /\ t \in VoxSession /\ t.created = s.created \cup {f} /\ t.fx = made.fx /\ t.enabled = made.enabled
      /\ t.processed = made.processed /\ t.id = s.id /\ t.config = fresh.config
  BY <1>3, <1>5 DEF VoxSession
<1>7. VoxRunning(t)
  BY <1>3, <1>6 DEF VoxRunning
<1>8. VoxCreated(t)
  BY <1>1, <1>3, <1>4, <1>6 DEF VoxCreated
<1> QED BY <1>2, <1>6, <1>7, <1>8 DEF VoxSound, t

\* session_release_effect, of an effect that exists.
LEMMA FxReleased ==
  ASSUME NEW s, VoxSound(s), NEW f \in s.created
  PROVE  LET t == session_release_effect(s, f)
         IN  VoxSound(t) /\ t.id = s.id /\ t.config = s.config
<1> DEFINE left == effect_set_state(s, f, "INIT")
           t == session_release_effect(s, f)
<1>1. s \in VoxSession /\ VoxRunning(s) /\ VoxCreated(s) /\ f \in VoxEffects /\ "INIT" \in VoxStates
      /\ s.fx[f] \in VoxFrom("INIT")
  BY DEF VoxSound, VoxSession, VoxStates, VoxFrom
<1>2. /\ left \in VoxSession /\ VoxRunning(left)
      /\ left.id = s.id /\ left.config = s.config /\ left.created = s.created
      /\ left.fx[f] = IF s.fx[f] \in VoxFrom("INIT") THEN "INIT" ELSE s.fx[f]
      /\ \A g \in VoxEffects : g # f => left.fx[g] = s.fx[g]
  BY <1>1, FxMoved
<1>3. t = [left EXCEPT !.created = left.created \ {f}]
  BY DEF session_release_effect
<1> HIDE DEF left, t
<1>4. /\ t \in VoxSession /\ t.created = s.created \ {f} /\ t.fx = left.fx /\ t.enabled = left.enabled
      /\ t.processed = left.processed /\ t.id = s.id /\ t.config = s.config
  BY <1>2, <1>3 DEF VoxSession
<1>5. VoxRunning(t)
  BY <1>2, <1>4 DEF VoxRunning
<1>6. VoxCreated(t)
  BY <1>1, <1>2, <1>4 DEF VoxCreated
<1> QED BY <1>4, <1>5, <1>6 DEF VoxSound, t


\* CMD_SET_CONFIG, on an effect that exists.
LEMMA FxConfigured ==
  ASSUME NEW s, VoxSound(s), NEW f \in s.created, NEW c \in VoxConfigs
  PROVE  LET set == session_set_config(s, c)
             t == IF set[2] /\ set[1].fx[f] # "ACTIVE" THEN effect_set_state(set[1], f, "CONFIG") ELSE set[1]
         IN  VoxSound(t) /\ t.created = s.created /\ VoxFrom1(s, t)
<1> DEFINE set == session_set_config(s, c)
           u == set[1]
           t == IF set[2] /\ set[1].fx[f] # "ACTIVE" THEN effect_set_state(set[1], f, "CONFIG") ELSE set[1]
<1>1. s \in VoxSession /\ VoxRunning(s) /\ VoxCreated(s)
  BY DEF VoxSound
<1>2. VoxSound(u) /\ u.created = s.created /\ VoxFrom1(s, u)
  <2>1. CASE s.enabled # {}
    <3>1. u = s
      BY <2>1 DEF session_set_config
    <3> QED BY <3>1 DEF VoxFrom1
  <2>2. CASE s.enabled = {}
    <3>1. u = [s EXCEPT !.config = c, !.state = "CONFIG"]
      BY <2>2 DEF session_set_config
    <3> HIDE DEF u
    <3>2. /\ u \in VoxSession /\ u.id = s.id /\ u.fx = s.fx /\ u.created = s.created /\ u.enabled = s.enabled
          /\ u.processed = s.processed
      BY <1>1, <3>1, Zenon DEF VoxSession
    <3>3. VoxRunning(u) /\ VoxCreated(u)
      BY <1>1, <3>2 DEF VoxRunning, VoxCreated
    <3> QED BY <2>2, <3>2, <3>3 DEF VoxSound, VoxFrom1
  <2> QED BY <2>1, <2>2
<1>3. CASE t = u
  BY <1>2, <1>3
<1>4. CASE t = effect_set_state(u, f, "CONFIG")
  <2> DEFINE v == effect_set_state(u, f, "CONFIG")
  <2> HIDE DEF u
  <2>1. f \in u.created /\ "CONFIG" \in {"ACTIVE", "CONFIG"}
    BY <1>2
  <2>2. VoxSound(v) /\ v.id = u.id /\ v.config = u.config /\ v.created = u.created
    BY <1>2, <2>1, FxCommanded
  <2> HIDE DEF v
  <2>3. VoxSound(v) /\ v.created = s.created /\ VoxFrom1(s, v)
    BY <1>2, <2>2 DEF VoxFrom1
  <2>4. t = v
    BY <1>4 DEF v
  <2> HIDE DEF t
  <2> QED BY <2>3, <2>4 DEF t
<1>5. t = u \/ t = effect_set_state(u, f, "CONFIG")
  BY Zenon
<1> QED BY <1>3, <1>4, <1>5

\* fx_process: the frame is done, or still waits for an enabled effect.
LEMMA FxProcessed ==
  ASSUME NEW s, VoxSound(s), NEW f \in s.created
  PROVE  LET seen == s.processed \cup {f}
             t == [s EXCEPT !.processed = IF s.enabled \subseteq seen THEN {} ELSE seen]
         IN  VoxSound(t) /\ t.created = s.created /\ VoxFrom1(s, t)
<1> DEFINE seen == s.processed \cup {f}
           left == IF s.enabled \subseteq seen THEN {} ELSE seen
           t == [s EXCEPT !.processed = left]
<1>1. s \in VoxSession /\ VoxRunning(s) /\ VoxCreated(s) /\ f \in VoxEffects
  BY DEF VoxSound, VoxSession
<1>2. left \in SUBSET VoxEffects /\ (left # {} => ~ s.enabled \subseteq left)
  BY <1>1 DEF VoxSession
<1> HIDE DEF left
<1>3. /\ t \in VoxSession /\ t.id = s.id /\ t.config = s.config /\ t.fx = s.fx /\ t.created = s.created
      /\ t.enabled = s.enabled /\ t.processed = left
  BY <1>1, <1>2 DEF VoxSession
<1> HIDE DEF t
<1>4. VoxRunning(t) /\ VoxCreated(t)
  BY <1>1, <1>2, <1>3 DEF VoxRunning, VoxCreated
<1>5. VoxSound(t) /\ t.created = s.created /\ VoxFrom1(s, t)
  BY <1>3, <1>4 DEF VoxSound, VoxFrom1
<1> QED BY <1>5 DEF t, left

\* A listed session is sound, has an effect, and is the only one with its id.
VoxListed(list) ==
  /\ list \in Seq(VoxSession)
  /\ \A i \in 1..Len(list) : VoxSound(list[i]) /\ list[i].created # {}
  /\ \A i, j \in 1..Len(list) : list[i].id = list[j].id => i = j

VoxInv == VoxListed(voxSessions)

\* No session in `from` with an enabled effect has another configuration in `to`.
VoxConfigKept(from, to) ==
  \A i \in 1..Len(from), j \in 1..Len(to) :
    from[i].id = to[j].id /\ from[i].enabled # {} => to[j].config = from[i].config

\* One session is replaced by what became of it.
LEMMA VoxReplaced ==
  ASSUME NEW list, VoxListed(list), NEW i \in 1..Len(list), NEW t,
         VoxSound(t), t.created # {}, VoxFrom1(list[i], t)
  PROVE  VoxListed([list EXCEPT ![i] = t]) /\ VoxConfigKept(list, [list EXCEPT ![i] = t])
<1> DEFINE to == [list EXCEPT ![i] = t]
<1>1. list \in Seq(VoxSession) /\ t \in VoxSession
  BY DEF VoxListed, VoxSound
<1>2. /\ to \in Seq(VoxSession) /\ Len(to) = Len(list)
      /\ \A j \in 1..Len(list) : to[j] = IF j = i THEN t ELSE list[j]
  BY <1>1
<1> HIDE DEF to
<1>3. \A j \in 1..Len(to) : VoxSound(to[j]) /\ to[j].created # {}
  BY <1>2 DEF VoxListed
<1>4. \A j \in 1..Len(to) : to[j].id = list[j].id
  BY <1>2 DEF VoxFrom1
<1>5. \A j, k \in 1..Len(to) : to[j].id = to[k].id => j = k
  BY <1>2, <1>4 DEF VoxListed
<1>6. VoxConfigKept(list, to)
  <2>1. SUFFICES ASSUME NEW k \in 1..Len(list), NEW j \in 1..Len(to), list[k].id = to[j].id, list[k].enabled # {}
        PROVE  to[j].config = list[k].config
    BY DEF VoxConfigKept
  <2>2. k = j
    BY <1>2, <1>4, <2>1 DEF VoxListed
  <2> QED BY <1>2, <2>1, <2>2 DEF VoxFrom1
<1> QED BY <1>2, <1>3, <1>5, <1>6 DEF VoxListed, to


\* lib_release of the last effect: the session leaves the list, the others stay in order.
LEMMA VoxRemoved ==
  ASSUME NEW list, VoxListed(list), NEW i \in 1..Len(list)
  PROVE  VoxListed(RemoveAt(list, i)) /\ VoxConfigKept(list, RemoveAt(list, i))
<1> DEFINE to == RemoveAt(list, i)
           old(j) == IF j < i THEN j ELSE j + 1
<1>1. list \in Seq(VoxSession) /\ Len(list) \in Nat /\ i \in Nat
  BY DEF VoxListed
<1> DEFINE before == SubSeq(list, 1, i - 1)
           after == SubSeq(list, i + 1, Len(list))
<1>2. /\ before \in Seq(VoxSession) /\ Len(before) = i - 1
      /\ \A j \in 1..(i - 1) : before[j] = list[j]
  BY <1>1
<1>3. /\ after \in Seq(VoxSession) /\ Len(after) = Len(list) - i
      /\ \A j \in 1..(Len(list) - i) : after[j] = list[i + j]
  BY <1>1
<1>4. /\ to \in Seq(VoxSession) /\ Len(to) = Len(list) - 1
      /\ \A j \in 1..Len(to) : to[j] = list[old(j)]
  <2>1. to = before \o after
    BY DEF RemoveAt
  <2> HIDE DEF to, before, after
  <2>2. to \in Seq(VoxSession) /\ Len(to) = Len(list) - 1
    BY <1>1, <1>2, <1>3, <2>1
  <2>3. ASSUME NEW j \in 1..Len(to) PROVE to[j] = list[old(j)]
    <3>1. CASE j < i
      <4>1. j \in 1..(i - 1) /\ to[j] = before[j]
        BY <1>1, <1>2, <1>3, <2>1, <2>2, <3>1
      <4> QED BY <1>2, <3>1, <4>1
    <3>2. CASE ~ (j < i)
      <4>1. j - (i - 1) \in 1..(Len(list) - i)
        BY <1>1, <2>2, <3>2
      <4>2. to[j] = after[j - (i - 1)]
        BY <1>1, <1>2, <1>3, <2>1, <2>2, <3>2
      <4>3. i + (j - (i - 1)) = j + 1
        BY <1>1, <2>2
      <4> QED BY <1>3, <3>2, <4>1, <4>2, <4>3
    <3> QED BY <3>1, <3>2
  <2> QED BY <2>2, <2>3
<1>5. \A j \in 1..Len(to) : old(j) \in 1..Len(list)
  BY <1>1, <1>4
<1>6. \A j, k \in 1..Len(to) : old(j) = old(k) => j = k
  BY <1>1, <1>4
<1> HIDE DEF to, old
<1>7. \A j \in 1..Len(to) : VoxSound(to[j]) /\ to[j].created # {}
  <2>1. \A n \in 1..Len(list) : VoxSound(list[n]) /\ list[n].created # {}
    BY Zenon DEF VoxListed
  <2> QED BY <1>4, <1>5, <2>1, Zenon
<1>8. \A j, k \in 1..Len(to) : to[j].id = to[k].id => j = k
  BY <1>4, <1>5, <1>6 DEF VoxListed
<1>9. VoxConfigKept(list, to)
  <2>1. SUFFICES ASSUME NEW k \in 1..Len(list), NEW j \in 1..Len(to), list[k].id = to[j].id
        PROVE  to[j].config = list[k].config
    BY DEF VoxConfigKept
  <2>2. k = old(j)
    BY <1>4, <1>5, <2>1 DEF VoxListed
  <2> QED BY <1>4, <2>2
<1> QED BY <1>4, <1>7, <1>8, <1>9, Zenon DEF VoxListed, to

\* get_session and session_create_effect on a session that is not listed yet.
LEMMA VoxAppended ==
  ASSUME NEW list, VoxListed(list), NEW t, VoxSound(t), t.created # {},
         \A i \in 1..Len(list) : list[i].id # t.id
  PROVE  VoxListed(Append(list, t)) /\ VoxConfigKept(list, Append(list, t))
<1> DEFINE to == Append(list, t)
<1>1. list \in Seq(VoxSession) /\ t \in VoxSession /\ Len(list) \in Nat
  BY DEF VoxListed, VoxSound
<1>2. /\ to \in Seq(VoxSession) /\ Len(to) = Len(list) + 1
      /\ \A j \in 1..Len(list) : to[j] = list[j]
      /\ to[Len(list) + 1] = t
  BY <1>1
<1> HIDE DEF to
<1>3. \A j \in 1..Len(to) : (j \in 1..Len(list) /\ to[j] = list[j]) \/ (j = Len(list) + 1 /\ to[j] = t)
  BY <1>1, <1>2
<1>4. \A j \in 1..Len(to) : VoxSound(to[j]) /\ to[j].created # {}
  BY <1>3 DEF VoxListed
<1>5. \A j, k \in 1..Len(to) : to[j].id = to[k].id => j = k
  BY <1>3 DEF VoxListed
<1>6. VoxConfigKept(list, to)
  BY <1>3 DEF VoxListed, VoxConfigKept
<1> QED BY <1>2, <1>4, <1>5, <1>6 DEF VoxListed, to

\* get_session: a listed session's position, or a new session at the end.
LEMMA VoxGot ==
  ASSUME VoxInv, NEW id \in VoxIds
  PROVE  \/ /\ get_session(id)[1] = voxSessions
            /\ get_session(id)[2] \in 1..Len(voxSessions)
         \/ /\ get_session(id)[1] = Append(voxSessions, session_init(id))
            /\ get_session(id)[2] = Len(voxSessions) + 1
            /\ \A i \in 1..Len(voxSessions) : voxSessions[i].id # id
<1> DEFINE I == {i \in 1..Len(voxSessions) : voxSessions[i].id = id}
           at == IF I # {} THEN Min(I) ELSE 0
<1>1. Len(voxSessions) \in Nat
  BY DEF VoxInv, VoxListed
<1>2. at = SelectInSeq(voxSessions, LAMBDA s : s.id = id)
  BY DEF SelectInSeq
<1>3. get_session(id) = IF at # 0 THEN <<voxSessions, at>>
                        ELSE <<Append(voxSessions, session_init(id)), Len(voxSessions) + 1>>
  BY <1>2, Zenon DEF get_session
<1>4. CASE I # {}
  <2>1. PICK i \in 1..Len(voxSessions) : I = {i}
    <3>1. PICK i \in I : TRUE
      BY <1>4
    <3>2. \A j \in I : j = i
      BY <3>1 DEF VoxInv, VoxListed
    <3> QED BY <3>1, <3>2
  <2>2. Min({i}) = i
    <3>1. \E x \in {i} : \A y \in {i} : x <= y
      BY <1>1
    <3> QED BY <3>1 DEF Min
  <2>3. at = i
    BY <1>4, <2>1, <2>2, Zenon
  <2>4. i # 0
    BY <1>1
  <2> QED BY <1>3, <2>3, <2>4
<1>5. CASE I = {}
  <2>1. at = 0
    BY <1>5
  <2>2. \A i \in 1..Len(voxSessions) : voxSessions[i].id # id
    BY <1>5
  <2> QED BY <1>3, <2>1, <2>2
<1> QED BY <1>4, <1>5


\* session_init: a session without effects.
LEMMA VoxFresh ==
  ASSUME NEW id \in VoxIds
  PROVE  LET s == session_init(id) IN VoxSound(s) /\ s.id = id /\ s.created = {}
<1> DEFINE s == session_init(id)
<1>1. /\ s \in VoxSession /\ s.id = id /\ s.created = {} /\ s.enabled = {} /\ s.processed = {}
      /\ \A f \in VoxEffects : s.fx[f] = "INIT"
  BY DEF session_init, VoxSession, VoxStates
<1> HIDE DEF s
<1>2. VoxRunning(s) /\ VoxCreated(s)
  BY <1>1 DEF VoxRunning, VoxCreated
<1> QED BY <1>1, <1>2 DEF VoxSound, s

\* The list one session further: what every step has to show.
VoxMoves == VoxListed(voxSessions') /\ VoxConfigKept(voxSessions, voxSessions')

\* lib_create, on a listed session and on a new one.
LEMMA LibCreated ==
  ASSUME VoxInv, NEW id \in VoxIds, NEW f \in VoxEffects, lib_create(id, f)
  PROVE  VoxMoves
<1> DEFINE list == get_session(id)[1]
           at == get_session(id)[2]
           s == list[at]
           t == session_create_effect(s, f)
<1>1. voxSessions \in Seq(VoxSession) /\ Len(voxSessions) \in Nat
  BY DEF VoxInv, VoxListed
<1>2. f \notin s.created /\ voxSessions' = [list EXCEPT ![at] = t]
  BY Zenon DEF lib_create
<1> HIDE DEF t
<1>3. CASE list = voxSessions /\ at \in 1..Len(voxSessions)
  <2>1. VoxSound(s) /\ s.created # {} /\ voxSessions' = [voxSessions EXCEPT ![at] = t]
    BY <1>2, <1>3 DEF VoxInv, VoxListed
  <2>2. VoxSound(t) /\ t.created # {} /\ VoxFrom1(s, t)
    BY <1>2, <2>1, FxCreated DEF VoxFrom1, t
  <2>3. s = voxSessions[at]
    BY <1>3
  <2> HIDE DEF s, list, at
  <2> QED BY <1>3, <2>1, <2>2, <2>3, VoxReplaced, Zenon DEF VoxInv, VoxMoves
<1>4. CASE /\ list = Append(voxSessions, session_init(id)) /\ at = Len(voxSessions) + 1
           /\ \A i \in 1..Len(voxSessions) : voxSessions[i].id # id
  <2> DEFINE new == session_init(id)
  <2>1. VoxSound(new) /\ new.id = id /\ new \in VoxSession
    BY VoxFresh DEF VoxSound
  <2> HIDE DEF new
  <2>2. Append(voxSessions, new)[Len(voxSessions) + 1] = new
    BY <1>1, <2>1
  <2>3. s = new
    BY <1>4, <2>2 DEF new
  <2>4. VoxSound(t) /\ t.created # {} /\ t.id = id
    BY <1>2, <2>1, <2>3, FxCreated DEF t
  <2>5. t \in VoxSession
    BY <2>4 DEF VoxSound
  <2>6. [Append(voxSessions, new) EXCEPT ![Len(voxSessions) + 1] = t] = Append(voxSessions, t)
    <3> DEFINE a == Append(voxSessions, new)
               c == Append(voxSessions, t)
               n == Len(voxSessions) + 1
               e == [a EXCEPT ![n] = t]
    <3>1. a \in Seq(VoxSession) /\ Len(a) = n /\ \A j \in 1..n : j # n => a[j] = voxSessions[j]
      BY <1>1, <2>1
    <3>2. c \in Seq(VoxSession) /\ Len(c) = n /\ c[n] = t /\ \A j \in 1..n : j # n => c[j] = voxSessions[j]
      BY <1>1, <2>5
    <3>0. n \in 1..n
      BY <1>1
    <3> HIDE DEF a, c, n
    <3>3. e \in Seq(VoxSession) /\ Len(e) = n /\ \A j \in 1..n : e[j] = IF j = n THEN t ELSE a[j]
      BY <2>5, <3>0, <3>1
    <3> HIDE DEF e
    <3>4. Len(e) = Len(c) /\ \A j \in 1..Len(c) : e[j] = c[j]
      BY <3>1, <3>2, <3>3
    <3>5. e = c
      BY <3>2, <3>3, <3>4
    <3> QED BY <3>5 DEF e, a, c, n
  <2>7. voxSessions' = Append(voxSessions, t)
    BY <1>2, <1>4, <2>6 DEF new
  <2> HIDE DEF s, list, at
  <2> QED BY <1>4, <2>4, <2>7, VoxAppended DEF VoxInv, VoxMoves
<1> QED BY <1>3, <1>4, VoxGot

\* lib_release, of the last effect and of another.
LEMMA LibReleased ==
  ASSUME VoxInv, NEW i \in 1..Len(voxSessions), NEW f \in voxSessions[i].created, lib_release(i, f)
  PROVE  VoxMoves
<1> DEFINE s == voxSessions[i]
           t == session_release_effect(s, f)
<1>1. VoxSound(s) /\ VoxListed(voxSessions)
  BY DEF VoxInv, VoxListed
<1>2. VoxSound(t) /\ VoxFrom1(s, t)
  BY <1>1, FxReleased DEF VoxFrom1
<1>3. voxSessions' = IF t.created = {} THEN RemoveAt(voxSessions, i) ELSE [voxSessions EXCEPT ![i] = t]
  BY Zenon DEF lib_release
<1> HIDE DEF t
<1>4. CASE t.created = {}
  BY <1>1, <1>3, <1>4, VoxRemoved DEF VoxMoves
<1>5. CASE t.created # {}
  BY <1>1, <1>2, <1>3, <1>5, VoxReplaced DEF VoxMoves
<1> QED BY <1>4, <1>5

\* The commands and fx_process replace the effect's own session.
LEMMA FxMovesList ==
  ASSUME VoxInv, NEW i \in 1..Len(voxSessions), NEW f \in voxSessions[i].created,
         fx_command(i, f) \/ fx_process(i, f)
  PROVE  VoxMoves
<1> DEFINE s == voxSessions[i]
<1>1. VoxSound(s) /\ s.created # {} /\ VoxListed(voxSessions)
  BY DEF VoxInv, VoxListed
<1>2. ASSUME NEW t, VoxSound(t), t.created = s.created, VoxFrom1(s, t), voxSessions' = [voxSessions EXCEPT ![i] = t]
      PROVE  VoxMoves
  BY <1>1, <1>2, VoxReplaced, Zenon DEF VoxMoves
<1>3. ASSUME NEW c \in VoxConfigs, CMD_SET_CONFIG(i, f, c) PROVE VoxMoves
  <2> DEFINE set == session_set_config(s, c)
             t == IF set[2] /\ set[1].fx[f] # "ACTIVE" THEN effect_set_state(set[1], f, "CONFIG") ELSE set[1]
  <2>1. VoxSound(t) /\ t.created = s.created /\ VoxFrom1(s, t)
    BY <1>1, FxConfigured
  <2>2. voxSessions' = [voxSessions EXCEPT ![i] = t]
    BY <1>3, Zenon DEF CMD_SET_CONFIG
  <2> HIDE DEF t
  <2> QED BY <1>2, <2>1, <2>2, Zenon
<1>4. ASSUME NEW to \in {"ACTIVE", "CONFIG"}, voxSessions' = [voxSessions EXCEPT ![i] = effect_set_state(s, f, to)]
      PROVE  VoxMoves
  <2> DEFINE t == effect_set_state(s, f, to)
  <2>1. VoxSound(t) /\ t.created = s.created /\ VoxFrom1(s, t)
    BY <1>1, FxCommanded DEF VoxFrom1
  <2> HIDE DEF t
  <2> QED BY <1>2, <1>4, <2>1, Zenon DEF t
<1>5. CASE CMD_ENABLE(i, f) \/ CMD_DISABLE(i, f)
  BY <1>4, <1>5 DEF CMD_ENABLE, CMD_DISABLE
<1>6. CASE fx_process(i, f)
  <2> DEFINE seen == s.processed \cup {f}
             t == [s EXCEPT !.processed = IF s.enabled \subseteq seen THEN {} ELSE seen]
  <2>1. VoxSound(t) /\ t.created = s.created /\ VoxFrom1(s, t)
    BY <1>1, FxProcessed, Zenon
  <2>2. voxSessions' = [voxSessions EXCEPT ![i] = t]
    BY <1>6, Zenon DEF fx_process
  <2> HIDE DEF t
  <2> QED BY <1>2, <2>1, <2>2, Zenon
<1> QED BY <1>3, <1>5, <1>6 DEF fx_command

\* Every step of the library moves the list so.
LEMMA VoxStep ==
  ASSUME VoxInv, VoxNext
  PROVE  VoxMoves
<1>1. DOMAIN voxSessions = 1..Len(voxSessions)
  BY DEF VoxInv, VoxListed
<1> QED BY <1>1, LibCreated, LibReleased, FxMovesList, Zenon DEF VoxNext

\* What an effect library's client relies on, for any set of sessions and
\* configurations: enabled_msk and created_msk follow the effects, a session is
\* listed once and only while it has an effect, a frame in progress waits for
\* an enabled effect, and session_set_config leaves a running session alone.
THEOREM SessionsSoundHolds == VoxSpec => SessionsSound
<1>1. VoxInit => VoxInv
  BY DEF VoxInit, VoxInv, VoxListed
<1>2. VoxInv /\ [VoxNext]_voxVars => VoxInv'
  BY VoxStep DEF VoxInv, VoxMoves, voxVars
<1> DEFINE Step ==
      /\ \A i \in DOMAIN voxSessions' : LET s == voxSessions'[i] IN
           /\ s.enabled = {f \in VoxEffects : s.fx[f] = "ACTIVE"}
           /\ s.created = {f \in VoxEffects : s.fx[f] # "INIT"}
           /\ s.created # {}
           /\ s.processed # {} => ~ s.enabled \subseteq s.processed
           /\ \A j \in DOMAIN voxSessions' : voxSessions'[j].id = s.id => j = i
      /\ \A i \in DOMAIN voxSessions, j \in DOMAIN voxSessions' :
           voxSessions[i].id = voxSessions'[j].id /\ voxSessions[i].enabled # {}
             => voxSessions'[j].config = voxSessions[i].config
<1>3. VoxInv /\ [VoxNext]_voxVars => [Step]_voxVars
  <2> SUFFICES ASSUME VoxInv, VoxNext PROVE Step
    OBVIOUS
  <2> DEFINE to == voxSessions'
  <2>1. VoxListed(to) /\ VoxConfigKept(voxSessions, to)
    BY VoxStep DEF VoxMoves
  <2>2. DOMAIN voxSessions = 1..Len(voxSessions) /\ DOMAIN to = 1..Len(to)
    BY <2>1 DEF VoxInv, VoxListed
  <2> HIDE DEF to
  <2>3. ASSUME NEW i \in DOMAIN to
        PROVE  LET s == to[i] IN
           /\ s.enabled = {f \in VoxEffects : s.fx[f] = "ACTIVE"}
           /\ s.created = {f \in VoxEffects : s.fx[f] # "INIT"}
           /\ s.created # {}
           /\ s.processed # {} => ~ s.enabled \subseteq s.processed
           /\ \A j \in DOMAIN to : to[j].id = s.id => j = i
    <3>1. VoxSound(to[i]) /\ to[i].created # {}
      BY <2>1, <2>2, <2>3 DEF VoxListed
    <3>2. to[i] \in VoxSession /\ VoxRunning(to[i]) /\ VoxCreated(to[i])
      BY <3>1 DEF VoxSound
    <3>3. to[i].enabled \subseteq VoxEffects /\ to[i].created \subseteq VoxEffects
      BY <3>2 DEF VoxSession
    <3>4. \A j \in DOMAIN to : to[j].id = to[i].id => j = i
      BY <2>1, <2>2, <2>3 DEF VoxListed
    <3> QED BY <3>1, <3>2, <3>3, <3>4 DEF VoxRunning, VoxCreated
  <2>4. \A i \in DOMAIN voxSessions, j \in DOMAIN to :
           voxSessions[i].id = to[j].id /\ voxSessions[i].enabled # {} => to[j].config = voxSessions[i].config
    BY <2>1, <2>2 DEF VoxConfigKept
  <2> QED BY <2>3, <2>4 DEF to
<1> QED BY <1>1, <1>2, <1>3, PTL DEF VoxSpec, SessionsSound

=============================================================================
