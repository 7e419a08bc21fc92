------------------------------ MODULE CodecJail ------------------------------
(***************************************************************************)
(* The codec service's guard (media/seccomp/): a seccomp filter for the    *)
(* whole process before the vendor's codec store is built, and a store     *)
(* that offers only the codecs this boot allows.                           *)
(*                                                                         *)
(* The service calls the three entry points from its own threads; the      *)
(* configuration they check may change between the calls.  A list of the   *)
(* target specification is a set of names; "not a list" stands for a value *)
(* that does not parse as one.                                             *)
(***************************************************************************)
EXTENDS Integers, FiniteSets

CONSTANTS kEncoders, kDecoders,   \* the names this boot may offer
          CjComponents,           \* the vendor store's components
          CjAliases,              \* component -> its aliases
          CjSpecs                 \* the target specifications the service may meet

VARIABLES cjDevice,     \* [mode, variant, spec, node]: the properties, file and node
          cjThreads,    \* the threads under the filter: "none", "some" or "all"
          cjFilter,     \* gFilterOnce and gFilterInstalled: "unset", "installed", "failed"
          cjPlugin,     \* [asked, codecs]: what getSupportedCodecs last returned
          cjStore,      \* [built, listed, names]: the filtering store
          cjMade        \* what createComponent was passed on for

cjVars == <<cjDevice, cjThreads, cjFilter, cjPlugin, cjStore, cjMade>>

CjNotAList == {"not a list"}

(* One of the lists of the specification.                                  *)
AddCodecNames(list) == IF list = CjNotAList THEN {} ELSE list

(* What the configuration, if it is consistent, allows; {} if it is not.   *)
AllowedCodecs ==
  LET decoders == cjDevice.mode = "1"
      spec     == cjDevice.spec
      lists    == {spec.decoders, spec.encoders, spec.optional}
      allowed  == kEncoders \cup (IF decoders THEN kDecoders ELSE {})
  IN
  IF /\ cjDevice.mode \in {"", "0", "1"}
     /\ cjDevice.variant = (IF decoders THEN "_hwdec" ELSE "_v1")
     /\ spec.readable /\ CjNotAList \notin lists
     /\ UNION {AddCodecNames(l) : l \in lists} = allowed
     /\ cjDevice.node \in {"missing", IF decoders THEN "mediacodec 0660" ELSE "root 0600"}
  THEN allowed ELSE {}

KeepAllowedCodecs(codecs, allowed) ==
  IF codecs \cap allowed = {} THEN {"c2hwjail.none"} ELSE codecs \cap allowed

-----------------------------------------------------------------------------
CjDevices == [mode : {"", "0", "1", "2"}, variant : {"_v1", "_hwdec"}, spec : CjSpecs,
              node : {"missing", "unreadable", "root 0600", "mediacodec 0660"}]

CjInit ==
  /\ cjDevice \in CjDevices
  /\ cjThreads = "none" /\ cjFilter = "unset" /\ cjPlugin = [asked |-> FALSE, codecs |-> {}]
  /\ cjStore = [built |-> FALSE, listed |-> {}, names |-> {}]
  /\ cjMade = {}

(* A mutant of InstallFilter: takes a positive result of seccomp() for     *)
(* success.                                                                *)
InstallFilterPositive ==
  \E result \in {"no policy", "no trap", "no_new_privs", "errno", "thread", "ok"} :
    /\ cjFilter' = IF result \in {"ok", "thread"} THEN "installed" ELSE "failed"
    /\ cjThreads' = IF result = "ok" THEN "all" ELSE "none"

(* The policy is opened and compiled, its traps turned into errors,        *)
(* no_new_privs set, and the filter installed in every thread at once, or  *)
(* in none when one cannot take it.                                        *)
InstallFilter ==
  \E result \in {"no policy", "no trap", "no_new_privs", "errno", "thread", "ok"} :
    /\ cjFilter' = IF result = "ok" THEN "installed" ELSE "failed"
    /\ cjThreads' = IF result = "ok" THEN "all" ELSE "none"

EnsureFilter ==
  \/ cjFilter = "unset" /\ InstallFilter
  \/ cjFilter # "unset" /\ UNCHANGED <<cjFilter, cjThreads>>

SetUpMinijail ==
  /\ EnsureFilter
  /\ UNCHANGED <<cjDevice, cjPlugin, cjStore, cjMade>>

(* The vendor's plugin asks what to register; its own answer is narrowed.  *)
getSupportedCodecs ==
  /\ \E known \in {{}, CjComponents} : 
       cjPlugin' = [asked |-> TRUE, codecs |-> KeepAllowedCodecs(known, AllowedCodecs)]
  /\ UNCHANGED <<cjDevice, cjThreads, cjFilter, cjStore, cjMade>>

(* A listed alias is allowed with its component.                           *)
FilteringStore(store, allowed) ==
  LET listed == store \cap allowed IN
  [built |-> TRUE, listed |-> listed, names |-> listed \cup UNION {CjAliases[c] : c \in listed}]

(* The store is built after EnsureFilter, from what is allowed then; the   *)
(* vendor's store may be missing.                                          *)
c2hwjailStoreCtor ==
  /\ ~cjStore.built
  /\ EnsureFilter
  /\ \E store \in {{}, CjComponents} :
       cjStore' = FilteringStore(store, IF cjFilter' = "installed" THEN AllowedCodecs ELSE {})
  /\ UNCHANGED <<cjDevice, cjPlugin, cjMade>>

createComponent(name) ==
  /\ cjStore.built /\ name \in cjStore.names
  /\ cjMade' = cjMade \cup {name}
  /\ UNCHANGED <<cjDevice, cjThreads, cjFilter, cjPlugin, cjStore>>

(* The property or the node changes under the service; the mode is         *)
(* read-only.                                                              *)
CjChange ==
  /\ \/ \E n \in {"missing", "root 0600", "mediacodec 0660"} : cjDevice' = [cjDevice EXCEPT !.node = n]
     \/ \E v \in {"_v1", "_hwdec"} : cjDevice' = [cjDevice EXCEPT !.variant = v]
  /\ UNCHANGED <<cjThreads, cjFilter, cjPlugin, cjStore, cjMade>>

CjNames == CjComponents \cup UNION {CjAliases[c] : c \in CjComponents}

CjNext ==
  SetUpMinijail \/ getSupportedCodecs \/ c2hwjailStoreCtor
  \/ (\E name \in CjNames : createComponent(name)) \/ CjChange

CjSpec == CjInit /\ [][CjNext]_cjVars

-----------------------------------------------------------------------------
(* No hardware codec runs outside the filter, and none but the intended    *)
(* ones runs at all: whatever the order of SetUpMinijail, the plugin's     *)
(* question and the store's construction, and whatever changed in between, *)
(* a component is created only in a process whose threads are all under    *)
(* the filter; by its name or an alias it is an encoder of the list, or a  *)
(* decoder of the list on a boot with the user's "1".  The plugin is never *)
(* given an empty list, which it would take for all codecs.                *)
CodecsConfined ==
  /\ cjMade # {} => cjThreads = "all"
  /\ \A name \in cjMade : \E c \in kEncoders \cup (IF cjDevice.mode = "1" THEN kDecoders ELSE {}) :
       name = c \/ name \in CjAliases[c]
  /\ cjPlugin.codecs \subseteq kEncoders \cup {"c2hwjail.none"}
                        \cup (IF cjDevice.mode = "1" THEN kDecoders ELSE {})
  /\ cjPlugin.asked => cjPlugin.codecs # {}

=============================================================================
