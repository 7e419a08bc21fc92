-------------------------- MODULE VoiceProcessing --------------------------
(***************************************************************************)
(* The voice pre-processing effect library of                              *)
(* audio/effects/voice_processing.c: the echo canceller and the noise      *)
(* suppressor of the capture streams, which the DSP runs.  The library     *)
(* keeps, per audio session, which of the two exist and are enabled, and   *)
(* answers the audio server.                                               *)
(*                                                                         *)
(* The library takes no lock of its own.  The audio server's effect        *)
(* factory serialises its calls, so each entry point is one action; a      *)
(* handle is used only between its creation and its release.               *)
(***************************************************************************)
EXTENDS Integers, Sequences, FiniteSets, SequencesExt

CONSTANTS VoxIds,        \* the audio sessions
          VoxConfigs,    \* the configurations session_set_config accepts
          VoxDefault     \* the one a session starts with

VARIABLE voxSessions     \* session_list

voxVars == <<voxSessions>>

VoxEffects == {"AEC", "NS"}          \* descriptors, by effect_id

VoxInit == voxSessions = <<>>

(* A session as session_init leaves it.                                    *)
session_init(id) ==
  [id |-> id, config |-> VoxDefault, state |-> "INIT",
   fx |-> [f \in VoxEffects |-> "INIT"],
   created |-> {}, enabled |-> {}, processed |-> {}]

(* Which transitions of an effect's state are allowed, target by target.   *)
VoxFrom(to) == CASE to = "INIT"    -> {"INIT", "CREATED", "CONFIG", "ACTIVE"}
                 [] to = "CREATED" -> {"INIT"}
                 [] to = "CONFIG"  -> {"CREATED", "CONFIG", "ACTIVE"}
                 [] to = "ACTIVE"  -> {"CONFIG", "ACTIVE"}

session_set_fx_enabled(s, f, on) ==
  [s EXCEPT !.enabled = IF on THEN @ \cup {f} ELSE @ \ {f}, !.processed = {}]

(* The session after effect_set_state; a forbidden transition changes      *)
(* nothing.                                                                *)
effect_set_state(s, f, to) ==
  LET old == s.fx[f]
      moved == CASE old = "ACTIVE" /\ to \in {"INIT", "CONFIG"} ->
                      session_set_fx_enabled(s, f, FALSE)
                 [] old = "CONFIG" /\ to = "ACTIVE" ->
                      session_set_fx_enabled(s, f, TRUE)
                 [] OTHER -> s
  IN  IF old \in VoxFrom(to) THEN [moved EXCEPT !.fx[f] = to] ELSE s

(* The first effect of a session sets the default configuration.           *)
session_create_effect(s, f) ==
  LET fresh == IF s.created = {}
               THEN [s EXCEPT !.config = VoxDefault, !.enabled = {}, !.processed = {}]
               ELSE s
      made == effect_set_state(fresh, f, "CREATED")
  IN  IF made.fx[f] = "CREATED" THEN [made EXCEPT !.created = @ \cup {f}] ELSE fresh

(* get_session: the position of the session with the id, in a list that    *)
(* has been given one if there was none.                                   *)
get_session(id) ==
  LET at == SelectInSeq(voxSessions, LAMBDA s : s.id = id)
  IN  IF at # 0 THEN <<voxSessions, at>>
      ELSE <<Append(voxSessions, session_init(id)), Len(voxSessions) + 1>>

(* lib_create: an effect the session already has is refused.               *)
lib_create(id, f) ==
  LET list == get_session(id)[1]
      at   == get_session(id)[2]
  IN  /\ f \notin list[at].created
      /\ voxSessions' = [list EXCEPT ![at] = session_create_effect(@, f)]

(* A mutant of the next operator: the effect is dropped without leaving    *)
(* its state.                                                              *)
ReleaseMaskOnly(s, f) == [s EXCEPT !.created = @ \ {f}]

session_release_effect(s, f) ==
  [effect_set_state(s, f, "INIT") EXCEPT !.created = @ \ {f}]

(* lib_release: the last effect takes the session with it.                 *)
lib_release(i, f) ==
  LET s == session_release_effect(voxSessions[i], f)
  IN  voxSessions' = IF s.created = {} THEN RemoveAt(voxSessions, i)
                                       ELSE [voxSessions EXCEPT ![i] = s]

(* session_set_config: the session, and whether the answer is 0.           *)
session_set_config(s, config) ==
  IF s.enabled # {} THEN <<s, s.config = config>>
  ELSE <<[s EXCEPT !.config = config, !.state = "CONFIG"], TRUE>>

CMD_SET_CONFIG(i, f, config) ==
  LET set == session_set_config(voxSessions[i], config)
      s   == set[1]
  IN  voxSessions' = [voxSessions EXCEPT ![i] =
        IF set[2] /\ s.fx[f] # "ACTIVE" THEN effect_set_state(s, f, "CONFIG") ELSE s]

CMD_ENABLE(i, f) ==
  voxSessions' = [voxSessions EXCEPT ![i] = effect_set_state(@, f, "ACTIVE")]

CMD_DISABLE(i, f) ==
  voxSessions' = [voxSessions EXCEPT ![i] = effect_set_state(@, f, "CONFIG")]

(* A frame is done, and the answer 0, once every enabled effect saw it.    *)
fx_process(i, f) ==
  LET seen == voxSessions[i].processed \cup {f}
  IN  voxSessions' = [voxSessions EXCEPT ![i].processed =
        IF voxSessions[i].enabled \subseteq seen THEN {} ELSE seen]

(* The commands that change a session; the others only check their         *)
(* arguments and answer.                                                   *)
fx_command(i, f) ==
  \/ \E c \in VoxConfigs : CMD_SET_CONFIG(i, f, c)
  \/ CMD_ENABLE(i, f)
  \/ CMD_DISABLE(i, f)

VoxNext ==
  \/ \E id \in VoxIds, f \in VoxEffects : lib_create(id, f)
  \/ \E i \in DOMAIN voxSessions : \E f \in voxSessions[i].created :
       lib_release(i, f) \/ fx_command(i, f) \/ fx_process(i, f)

VoxSpec == VoxInit /\ [][VoxNext]_voxVars

-----------------------------------------------------------------------------
(* The masks of a session agree with its effects: enabled_msk holds the    *)
(* active ones, created_msk those in any state but INIT, and a listed      *)
(* session has at least one and is the only one with its id.  A frame in   *)
(* progress still waits for an enabled effect, so that no stream stalls on *)
(* a frame that everyone has processed.  The configuration that the        *)
(* enabled effects run with does not change under them.                    *)
SessionsSound ==
  [][/\ \A i \in DOMAIN voxSessions' : LET s == voxSessions'[i] IN
          /\ s.enabled = {f \in VoxEffects : s.fx[f] = "ACTIVE"}
          /\ s.created = {f \in VoxEffects : s.fx[f] # "INIT"}
          /\ s.created # {}
          /\ s.processed # {} => ~ s.enabled \subseteq s.processed
          /\ \A j \in DOMAIN voxSessions' : voxSessions'[j].id = s.id => j = i
     /\ \A i \in DOMAIN voxSessions, j \in DOMAIN voxSessions' :
          voxSessions[i].id = voxSessions'[j].id /\ voxSessions[i].enabled # {}
            => voxSessions'[j].config = voxSessions[i].config]_voxVars

=============================================================================
