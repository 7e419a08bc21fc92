----------------------------- MODULE MCPlatform -----------------------------
(***************************************************************************)
(* The components that do not interact, checked side by side: one of them  *)
(* is picked at the start and takes its steps, the others stay where they  *)
(* begin.                                                                  *)
(***************************************************************************)
EXTENDS VolumeListener, VoiceProcessing, ColorFormats, TinyXml, XmlText, Timekeep,
        FirmwareRelease, CodecJail, Codec2Buffers

VARIABLE part

Parts == {"volume", "voice", "colour", "edit", "parse", "text", "time", "firmware", "jail",
          "buffers"}

-----------------------------------------------------------------------------
(* Volume listener: amplitudes in eighths, the table scaled down.          *)
Amp2Level(a, l) == [amp |-> a, level |-> l]
SomeTable == <<Amp2Level(2, 5), Amp2Level(4, 4), Amp2Level(6, 2), Amp2Level(8, 1)>>
SomeCustom == {<<Amp2Level(4, 3), Amp2Level(6, 2), Amp2Level(8, 1)>>}
SomeVolumes == {<<0, 0>>, <<3, 0>>, <<4, 8>>}
SomeDevices == {{"speaker"}, {"earpiece"}}

(* XML: two names, an attribute, each way a tag can be closed.             *)
SomeTags == {Tag("open", "a", <<>>), Tag("open", "b", <<"k">>), Tag("close", "a", <<>>),
             Tag("close", "b", <<>>), Tag("sealed", "a", <<"k">>),
             Tag("sealed", "a", <<"k", "k">>), Tag("close sealed", "a", <<>>)}

(* Text: up to three characters of the ones that matter, and a letter.     *)
SomeValues ==
  UNION {[1..n -> {97, Amp, Lt, Quot, Apos, CR, LF, Space, Semicolon}] : n \in 0..3}
(* Behind "&#": two digits, the marks, a letter, or too early an end.      *)
SomeBodies == UNION {[1..n -> {49, 97, Hash, LowerX, Semicolon}] : n \in 0..4}

(* Firmware: complete tables, one that spells a release in two ways; one   *)
(* with a line missing, malformed or double.                               *)
ImageLine(name, release, image) ==
  [name |-> name, release |-> release, bytes |-> Len(image), sha256 |-> image]
R9 == <<<<1, 6>>, <<9>>, <<0>>>>
R09 == <<<<1, 6>>, <<0, 9>>, <<0>>>>
R11 == <<<<1, 6>>, <<1, 1>>, <<0>>>>
TwoPartitions == <<ImageLine("modem", R9, <<1>>), ImageLine("modem", R11, <<1, 0, 0>>),
                   ImageLine("tz", R11, <<0, 1>>), ImageLine("tz", R9, <<0, 1>>)>>
OnePartition == <<ImageLine("modem", R9, <<1, 0>>), ImageLine("modem", R11, <<1, 0, 0>>)>>
TwoSpellings == <<ImageLine("modem", R9, <<1>>), ImageLine("modem", R09, <<1, 0>>)>>
SomeTexts == {TwoPartitions, OnePartition, TwoSpellings, SubSeq(TwoPartitions, 1, 3),
              Append(TwoPartitions, FwMalformed),
              Append(OnePartition, ImageLine("modem", R9, <<0>>)), <<>>}
SomeNames == <<"modem", "tz">>
SomeContents == UNION {[1..n -> {0, 1}] : n \in 1..3} \cup {FwMissing}

(* Codec jail: specifications that list too little, too much, or no lists. *)
SomeSpecs ==
  {[readable |-> TRUE, decoders |-> d, encoders |-> e, optional |-> o] :
     d \in {{}, {"avc.decoder"}, {"avc.decoder", "avc.decoder.secure"}},
     e \in {{}, {"avc.encoder"}, CjNotAList}, o \in {{}, {"avc.encoder"}}}
  \cup {[readable |-> FALSE, decoders |-> {}, encoders |-> {}, optional |-> {}]}
VendorComponents == {"avc.encoder", "avc.decoder", "avc.decoder.secure"}
SomeAliases == [c \in VendorComponents |->
                  CASE c = "avc.encoder" -> {"OMX.avc.encoder"}
                    [] c = "avc.decoder" -> {}
                    [] c = "avc.decoder.secure" -> {"OMX.avc.decoder.secure"}]

-----------------------------------------------------------------------------
(* A component that is not picked, where it has several initial states.    *)
CfIdle == cfFmt = "NV12" /\ cfWidth = 0 /\ cfHeight = 0
XtIdle == /\ xtJob = [kind |-> "text", value |-> <<>>, collapse |-> FALSE]
          /\ xtBuf = <<>> /\ xtP = 1 /\ xtQ = 1 /\ xtDone = FALSE
FwIdle == /\ fwText = <<>> /\ fwFlash = [n \in {"modem", "tz"} |-> FwMissing]
          /\ fwRun = FwProcess /\ fwProperty = FwUnset
CjIdle == /\ cjDevice = [mode |-> "", variant |-> "_v1", node |-> "missing",
                         spec |-> CHOOSE s \in CjSpecs : ~s.readable]
          /\ cjThreads = "none" /\ cjFilter = "unset"
          /\ cjPlugin = [asked |-> FALSE, codecs |-> {}]
          /\ cjStore = [built |-> FALSE, listed |-> {}, names |-> {}] /\ cjMade = {}
C2Idle == /\ c2Allowed = FALSE /\ c2Object = [o \in C2Objects |-> C2Free]
          /\ gHardwareBuffers = [o \in C2Objects |-> C2None]
          /\ c2Live = {} /\ c2Locks = [r \in C2Resources |-> 0]

PlatformInit ==
  /\ part \in Parts
  /\ VolInit /\ VoxInit /\ XmlInit /\ TkInit
  /\ IF part = "colour" THEN CfInit ELSE CfIdle
  /\ IF part = "text" THEN XtInit ELSE XtIdle
  /\ IF part = "firmware" THEN FwInit ELSE FwIdle
  /\ IF part = "jail" THEN CjInit ELSE CjIdle
  /\ IF part = "buffers" THEN C2Init ELSE C2Idle

(* Nothing else moves.                                                     *)
Only(p) ==
  /\ part = p /\ UNCHANGED part
  /\ p # "volume" => UNCHANGED volVars
  /\ p # "voice" => UNCHANGED voxVars
  /\ p # "colour" => UNCHANGED cfVars
  /\ p \notin {"edit", "parse"} => UNCHANGED xmlVars
  /\ p # "text" => UNCHANGED xtVars
  /\ p # "time" => UNCHANGED tkVars
  /\ p # "firmware" => UNCHANGED fwVars
  /\ p # "jail" => UNCHANGED cjVars
  /\ p # "buffers" => UNCHANGED c2Vars

VolumeStep == Only("volume") /\ VolNext
VoiceStep == Only("voice") /\ VoxNext
ColourStep == Only("colour") /\ CfGrow
EditStep == Only("edit") /\ XmlEditNext
ParseStep == Only("parse") /\ XmlParseNext
TextStep == Only("text") /\ XtNext
TimeStep == Only("time") /\ TkNext
FirmwareStep == Only("firmware") /\ FwNext
JailStep == Only("jail") /\ CjNext
BuffersStep == Only("buffers") /\ C2Next

PlatformNext ==
  \/ VolumeStep \/ VoiceStep \/ ColourStep \/ EditStep \/ ParseStep
  \/ TextStep \/ TimeStep \/ FirmwareStep \/ JailStep \/ BuffersStep

PlatformVars == <<part, volVars, voxVars, cfVars, xmlVars, xtVars, tkVars, fwVars, cjVars, c2Vars>>

PlatformSpec == PlatformInit /\ [][PlatformNext]_PlatformVars

=============================================================================
