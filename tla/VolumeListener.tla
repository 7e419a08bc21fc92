--------------------------- MODULE VolumeListener ---------------------------
(***************************************************************************)
(* The volume listener effect library of audio/effects/volume_listener.c.  *)
(* The audio server creates one effect per output stream; from the state,  *)
(* the device and the volume of each, the library computes how loud the    *)
(* speaker is and tells the audio HAL the calibration level for it.        *)
(*                                                                         *)
(* Every entry point holds vol_listner_init_lock from its first read of    *)
(* the shared state to its last write, so that each call is one action.    *)
(* A volume is a natural number of which VolUnit is full scale, and a      *)
(* loudness is kept squared, so that no square root is taken:              *)
(* Silent stands for the -1 of "no active stream".                         *)
(***************************************************************************)
EXTENDS Integers, Sequences, FiniteSets, SequencesExt, FiniteSetsExt

CONSTANTS VolUnit,       \* full scale
          VolVolumes,    \* the <<left, right>> volumes the server may set
          VolDevices,    \* the device masks it may set
          VolStreams,    \* the streams it attaches a listener to
          VolTable,      \* the library's own amplitude table
          VolCustom,     \* the tables the HAL may return; <<>> for none
          VolMaxEffects

VARIABLES volLib,        \* what init_once found; up is FALSE before it ran
          volEffects,    \* vol_effect_list
          volCal,        \* current_gain_dep_cal_level and current_vol
          volHal         \* what the HAL was last told, and whether it refused

volVars == <<volLib, volEffects, volCal, volHal>>

Silent == -1
None   == -1

VolDescriptors == {"MUSIC", "RING", "ALARM", "VC_CALL", "NOTIFICATION"}

(* The static initialisers, and what a restarted process starts from.      *)
VolLibDown == [up |-> FALSE, cal |-> FALSE, linear |-> FALSE,
               headset |-> FALSE, table |-> VolTable]
VolCalReset == [level |-> None, vol |-> 0]
VolHalReset == [level |-> None, linear |-> None, refused |-> FALSE]

VolInit ==
  /\ volLib = VolLibDown
  /\ volEffects = <<>>
  /\ volCal = VolCalReset
  /\ volHal = VolHalReset

(* Whether a stream counts: it plays on the speaker, or it is a call on    *)
(* the earpiece or a wired headset and calibration for those is on.        *)
verify_context(e) ==
  \/ /\ e.stream = "VC_CALL"
     /\ volLib.headset
     /\ e.dev \in {{"earpiece"}, {"headset"}, {"headphone"}}
  \/ e.dev \cap {"speaker", "speaker_safe"} # {}

VolSquare(e) == LET m == IF e.vol[1] > e.vol[2] THEN e.vol[1] ELSE e.vol[2]
                IN  m * m

(* new_vol, squared: the energy of the active streams that count, at most  *)
(* full scale.                                                             *)
NewVol(effects) ==
  LET counted == {i \in DOMAIN effects : effects[i].active /\ verify_context(effects[i])}
      energy  == MapThenSumSet(LAMBDA i : VolSquare(effects[i]), counted)
  IN  IF counted = {} THEN Silent ELSE Min({energy, VolUnit * VolUnit})

(* The calibration level of a loudness; None when the table has none.      *)
LevelFor(vol) ==
  LET t == volLib.table
      Within(i) == t[i].amp * t[i].amp <= vol /\ vol < t[i + 1].amp * t[i + 1].amp
      inside == {i \in 1..Len(t) - 1 : Within(i)}
  IN  IF vol >= VolUnit * VolUnit THEN t[Len(t)].level
      ELSE IF vol = Silent THEN 0
      ELSE IF vol = 0 THEN t[1].level
      ELSE IF inside # {} THEN t[Min(inside)].level
      ELSE None

(* check_and_set_gain_dep_cal, from the list and the remembered level a    *)
(* call leaves behind.  The linear gain is sent first, whatever the rest   *)
(* decides: without that function the call through a null pointer ends the *)
(* process, and the audio server and its HAL start afresh.  The gain of    *)
(* Silent is a negative number converted to an unsigned one, so no value   *)
(* is claimed for it.  A level the HAL refuses is not remembered.          *)
check_and_set_gain_dep_cal(effects, cal) ==
  LET new   == NewVol(effects)
      level == LevelFor(new)
      hal   == [volHal EXCEPT !.linear = IF new = Silent THEN None ELSE new]
      sends == new # cal.vol /\ volLib.cal /\ level \notin {None, cal.level}
  IN  \/ /\ ~volLib.linear
         /\ volLib' = VolLibDown /\ volEffects' = <<>>
         /\ volCal' = VolCalReset /\ volHal' = VolHalReset
      \/ /\ volLib.linear
         /\ volEffects' = effects /\ UNCHANGED volLib
         /\ \/ ~sends /\ volHal' = hal /\ volCal' = cal
            \/ /\ sends
               /\ volCal' = [level |-> level, vol |-> new]
               /\ volHal' = [hal EXCEPT !.level = level, !.refused = FALSE]
            \/ /\ sends
               /\ volHal' = [hal EXCEPT !.refused = TRUE]
               /\ volCal' = cal

(* A call ends with the recomputation when its stream counts.              *)
VolSettle(effects, cal, recompute) ==
  \/ recompute /\ check_and_set_gain_dep_cal(effects, cal)
  \/ /\ ~recompute
     /\ volEffects' = effects /\ volCal' = cal
     /\ UNCHANGED <<volLib, volHal>>

(* Which HAL functions are found, and the HAL's own table when it returns  *)
(* between one and MAX_VOLUME_CAL_STEPS entries.                           *)
init_once ==
  /\ ~volLib.up
  /\ \E cal, linear, headset \in BOOLEAN, custom \in VolCustom :
       volLib' = [up |-> TRUE, cal |-> cal, linear |-> linear, headset |-> headset,
                  table |-> IF custom = <<>> THEN VolTable ELSE custom]
  /\ UNCHANGED <<volEffects, volCal, volHal>>

vol_prc_lib_create(uuid) ==
  /\ volLib.up
  /\ Len(volEffects) < VolMaxEffects
  /\ uuid \in VolDescriptors
  /\ volEffects' = Append(volEffects,
       [stream |-> uuid, active |-> FALSE, dev |-> {}, vol |-> <<0, 0>>])
  /\ UNCHANGED <<volLib, volCal, volHal>>

(* A release forgets what was sent when the released stream is the first   *)
(* of the list: active_stream_count counts the streams before it.          *)
vol_prc_lib_release(i) ==
  VolSettle(RemoveAt(volEffects, i),
            IF i = 1 THEN VolCalReset ELSE volCal,
            verify_context(volEffects[i]))

EFFECT_CMD_ENABLE(i) ==
  /\ ~volEffects[i].active
  /\ VolSettle([volEffects EXCEPT ![i].active = TRUE], volCal,
               verify_context(volEffects[i]))

(* A mutant of the next operator: a stopped stream still counts.           *)
DisableKeeps(i) ==
  /\ volEffects[i].active
  /\ VolSettle([volEffects EXCEPT ![i].active = FALSE], volCal, FALSE)

EFFECT_CMD_DISABLE(i) ==
  /\ volEffects[i].active
  /\ VolSettle([volEffects EXCEPT ![i].active = FALSE], volCal,
               verify_context(volEffects[i]))

EFFECT_CMD_SET_DEVICE(i, dev) ==
  VolSettle([volEffects EXCEPT ![i].dev = dev], volCal,
            verify_context(volEffects[i]) \/ dev \cap {"speaker", "speaker_safe"} # {})

EFFECT_CMD_SET_VOLUME(i, vol) ==
  VolSettle([volEffects EXCEPT ![i].vol = vol], volCal, verify_context(volEffects[i]))

(* The commands that matter for the calibration, one at a time under the   *)
(* lock; the others only check their arguments and answer.                 *)
vol_effect_command(i) ==
  \/ EFFECT_CMD_ENABLE(i)
  \/ EFFECT_CMD_DISABLE(i)
  \/ \E d \in VolDevices : EFFECT_CMD_SET_DEVICE(i, d)
  \/ \E v \in VolVolumes : EFFECT_CMD_SET_VOLUME(i, v)

VolNext ==
  \/ init_once
  \/ \E s \in VolStreams : vol_prc_lib_create(s)
  \/ \E i \in DOMAIN volEffects : vol_prc_lib_release(i) \/ vol_effect_command(i)

-----------------------------------------------------------------------------
(* A call that counts only because of its headset or earpiece.  Moving a   *)
(* stream to such a device does not recompute, so that its volume is       *)
(* missing from the calibration until the next change.                     *)
OnHeadsetOnly(e) == /\ e.active /\ verify_context(e)
                    /\ e.dev \cap {"speaker", "speaker_safe"} = {}

(* The level of volume 0, while the library believes it has told the HAL   *)
(* that volume and no level: nothing is sent then.                         *)
TakenForTold(new) == volCal = VolCalReset /\ new = 0

(* The HAL calibrates for what is playing.  A remembered level is the one  *)
(* the HAL holds and the one of the remembered volume.  Unless it refused  *)
(* the last level it was sent, the HAL holds the level of the streams now  *)
(* active on the speaker, or the table has none for them, or nothing plays *)
(* and nothing was ever sent; and the linear gain is that of these         *)
(* streams.  Streams start, stop, move and change volume in any order, and *)
(* are released while others play.                                         *)
(*                                                                         *)
(* One case is left out, TakenForTold, in which the HAL keeps the level of *)
(* a louder stream: releasing the first stream of the list forgets what    *)
(* was sent although others are active, against the comment "if there are  *)
(* no active streams, reset cal and volume level", and if those others are *)
(* at volume 0, the volume that was reset to, nothing is sent for them.    *)
CalibrationFits ==
  /\ volCal.level # None => /\ volHal.level = volCal.level
                            /\ LevelFor(volCal.vol) = volCal.level
  /\ (\A i \in DOMAIN volEffects : ~OnHeadsetOnly(volEffects[i])) =>
       LET new == NewVol(volEffects) IN
       /\ volLib.cal /\ ~volHal.refused => \/ LevelFor(new) \in {None, volHal.level}
                                           \/ volHal.level = None /\ new = Silent
                                           \/ TakenForTold(new)
       /\ volHal.linear \in {None, new}
       /\ volLib.up /\ new # Silent => volHal.linear = new

=============================================================================
