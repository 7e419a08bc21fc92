--------------------------- MODULE FirmwareRelease ---------------------------
(***************************************************************************)
(* fwrelease, which finds out the firmware release of the booted slot      *)
(* (firmware/): it hashes each firmware partition up to the length of each *)
(* release's image and looks for the release all of them hold.             *)
(*                                                                         *)
(* A line of the table is a record, FwMalformed for one whose fields do    *)
(* not parse; a release is the digits of its three numbers, for 16.9.0 and *)
(* 16.09.0 are two texts; a digest is the bytes it is of, so no two        *)
(* contents have the same.  Partitions are read in pieces of whatever size *)
(* read() returns.                                                         *)
(***************************************************************************)
EXTENDS Integers, Sequences, SequencesExt, FiniteSets

CONSTANTS FwNames,         \* the partitions, in the order of their names
          FwTexts,         \* the tables that may be in the vendor image
          FwContents,      \* what a partition may hold
          FwBuffer,        \* kChunkBytes
          FwMaxImage, FwMaxPartitions, FwMaxReleases   \* the limits

VARIABLES fwText,      \* the table's lines
          fwFlash,     \* name -> its content, or FwMissing
          fwRun,       \* the process
          fwProperty   \* ro.vendor.diamaneos.firmware_release

fwVars == <<fwText, fwFlash, fwRun, fwProperty>>

FwMalformed == [name |-> "", release |-> <<>>, bytes |-> 0, sha256 |-> <<>>]
kUnknown == <<"unknown">>
kMixed == <<"mixed">>
FwUnset == <<>>
FwMissing == <<>>
FwNoTable == [images |-> <<>>, releases |-> {}]

FwLineOk(line) == line # FwMalformed /\ line.bytes \in 1..FwMaxImage

(* Its partitions' images and its releases, or FwNoTable.                  *)
parseTable(text) ==
  LET lines(name) == SelectSeq(text, LAMBDA l : l.name = name)
      names       == {text[i].name : i \in DOMAIN text}
      releases    == {text[i].release : i \in DOMAIN text}
  IN
  IF /\ text # <<>>
     /\ \A i \in DOMAIN text : FwLineOk(text[i])
     /\ \A i, j \in DOMAIN text :
          i # j => text[i].name # text[j].name \/ text[i].release # text[j].release
     /\ Cardinality(names) <= FwMaxPartitions /\ Cardinality(releases) <= FwMaxReleases
     /\ \A name \in names : Len(lines(name)) = Cardinality(releases)
  THEN [images |-> [name \in names |-> lines(name)], releases |-> releases]
  ELSE FwNoTable

parseRelease(release) ==
  [k \in 1..3 |-> FoldLeft(LAMBDA number, digit : 10 * number + digit, 0, release[k])]

newerRelease(a, b) ==
  LET m == parseRelease(a)
      n == parseRelease(b)
  IN  \E k \in 1..3 : m[k] > n[k] /\ \A j \in 1..(k - 1) : m[j] = n[j]

(* The order of the texts: a dot, or the end, comes before any digit.      *)
DigitsBefore(d, e) ==
  \/ IsStrictPrefix(d, e)
  \/ \E k \in DOMAIN d \cap DOMAIN e : d[k] < e[k] /\ \A j \in 1..(k - 1) : d[j] = e[j]

TextBefore(a, b) ==
  \E k \in 1..3 : DigitsBefore(a[k], b[k]) /\ \A j \in 1..(k - 1) : a[j] = b[j]

matchingReleases(images, digests) ==
  {images[i].release : i \in {k \in DOMAIN images : /\ images[k].bytes \in DOMAIN digests
                                                    /\ digests[images[k].bytes] = images[k].sha256}}

(* The newest release that fits all; the first text of equal ones.         *)
result(table, matches) ==
  LET names  == DOMAIN table.images
      common == {r \in table.releases : \A name \in names : r \in matches[name]}
  IN
  IF \E name \in names : name \notin DOMAIN matches \/ matches[name] = {} THEN kUnknown
  ELSE IF common = {} THEN kMixed
  ELSE CHOOSE r \in common : \A s \in common \ {r} :
         newerRelease(r, s) \/ (~newerRelease(s, r) /\ TextBefore(r, s))

-----------------------------------------------------------------------------
(* pc; todo: the partitions still to be compared, the first one being      *)
(* read; lengths: those without a digest yet; pos: bytes read; context:    *)
(* what the running hash has taken in.                                     *)
FwProcess == [pc |-> "table", todo |-> <<>>, lengths |-> {}, pos |-> 0, context |-> <<>>,
              digests |-> <<>>, matches |-> <<>>, failed |-> FALSE]

FwInit ==
  /\ fwText \in FwTexts
  /\ fwFlash \in [{FwNames[i] : i \in DOMAIN FwNames} -> FwContents]
  /\ fwRun = FwProcess
  /\ fwProperty = FwUnset

FwTable == parseTable(fwText)

(* The property is set, or cannot be; either way the process ends.         *)
report(value) ==
  /\ fwProperty' \in {value, FwUnset}
  /\ fwRun' = [fwRun EXCEPT !.pc = "done"]
  /\ UNCHANGED <<fwText, fwFlash>>

reportFailure ==
  /\ fwProperty' \in {kUnknown, FwUnset}
  /\ fwRun' = [fwRun EXCEPT !.pc = "done", !.failed = TRUE]
  /\ UNCHANGED <<fwText, fwFlash>>

FwReadTable ==
  /\ fwRun.pc = "table"
  /\ \/ reportFailure                                  \* unreadable, or no slot suffix
     \/ FwTable = FwNoTable /\ report(kUnknown)
     \/ /\ FwTable # FwNoTable
        /\ fwRun' = [fwRun EXCEPT !.pc = "open",
                       !.todo = SelectSeq(FwNames, LAMBDA n : n \in DOMAIN FwTable.images)]
        /\ UNCHANGED <<fwText, fwFlash, fwProperty>>

FwOpen ==
  /\ fwRun.pc = "open" /\ fwRun.todo # <<>>
  /\ LET name == Head(fwRun.todo) IN
     \/ reportFailure
     \/ /\ fwFlash[name] # FwMissing
        /\ fwRun' = [fwRun EXCEPT !.pc = "read", !.pos = 0, !.context = <<>>, !.digests = <<>>,
                       !.lengths = {FwTable.images[name][i].bytes : i \in DOMAIN FwTable.images[name]}]
        /\ UNCHANGED <<fwText, fwFlash, fwProperty>>

(* A mutant of TakeLength: takes the bytes from the start of the buffer.   *)
TakeLengthFromStart(buffer, s, length) ==
  LET take    == length - s.hashed
      context == s.context \o SubSeq(buffer, 1, take)
  IN  [context |-> context, used |-> s.used + take, hashed |-> length,
       digests |-> [l \in DOMAIN s.digests \cup {length} |->
                      IF l = length THEN context ELSE s.digests[l]]]

(* Finish a copy of the running hash at one length this read reaches.      *)
TakeLength(buffer, s, length) ==
  LET take    == length - s.hashed
      context == s.context \o SubSeq(buffer, s.used + 1, s.used + take)
  IN  [context |-> context, used |-> s.used + take, hashed |-> length,
       digests |-> [l \in DOMAIN s.digests \cup {length} |->
                      IF l = length THEN context ELSE s.digests[l]]]

(* One read of prefixDigests, of n bytes.                                  *)
prefixDigests(n) ==
  LET content == fwFlash[Head(fwRun.todo)]
      buffer  == SubSeq(content, fwRun.pos + 1, fwRun.pos + n)
      reached == {l \in fwRun.lengths : l <= fwRun.pos + n}
      taken   == FoldLeft(LAMBDA s, l : TakeLength(buffer, s, l),
                          [context |-> fwRun.context, used |-> 0, hashed |-> fwRun.pos,
                           digests |-> fwRun.digests],
                          SetToSortSeq(reached, <))
      left    == fwRun.lengths \ reached
  IN
  /\ fwRun.pc = "read" /\ n <= Len(content) - fwRun.pos
  /\ fwRun' = [fwRun EXCEPT !.pc = IF left = {} THEN "match" ELSE "read",
                            !.lengths = left, !.digests = taken.digests,
                            !.pos = fwRun.pos + n,
                            !.context = taken.context \o SubSeq(buffer, taken.used + 1, n)]
  /\ UNCHANGED <<fwText, fwFlash, fwProperty>>

FwReadEnds ==
  /\ fwRun.pc = "read"
  /\ \/ reportFailure
     \/ /\ fwRun.pos = Len(fwFlash[Head(fwRun.todo)])
        /\ fwRun' = [fwRun EXCEPT !.pc = "match"]
        /\ UNCHANGED <<fwText, fwFlash, fwProperty>>

FwMatch ==
  LET name  == Head(fwRun.todo)
      found == matchingReleases(FwTable.images[name], fwRun.digests)
  IN
  /\ fwRun.pc = "match"
  /\ \/ found = {} /\ report(kUnknown)
     \/ /\ found # {}
        /\ fwRun' = [fwRun EXCEPT !.pc = "open", !.todo = Tail(@), !.digests = <<>>,
                       !.context = <<>>, !.lengths = {}, !.pos = 0,
                       !.matches = [n \in DOMAIN @ \cup {name} |-> IF n = name THEN found ELSE @[n]]]
        /\ UNCHANGED <<fwText, fwFlash, fwProperty>>

FwResult ==
  /\ fwRun.pc = "open" /\ fwRun.todo = <<>>
  /\ report(result(FwTable, fwRun.matches))

FwNext ==
  FwReadTable \/ FwOpen \/ (\E n \in 1..FwBuffer : prefixDigests(n)) \/ FwReadEnds
  \/ FwMatch \/ FwResult

-----------------------------------------------------------------------------
FwHolds(name, release) ==
  \E i \in DOMAIN fwText :
    LET line == fwText[i] IN
    /\ line.name = name /\ line.release = release /\ fwFlash[name] # FwMissing
    /\ line.bytes <= Len(fwFlash[name]) /\ SubSeq(fwFlash[name], 1, line.bytes) = line.sha256

(* Settings shows the firmware that is on the phone.  A release is         *)
(* reported only if each partition of the table begins with that release's *)
(* image, and none newer fits them all; "mixed" only if each holds some    *)
(* release and no release fits them all; "unknown" only if the table is    *)
(* not valid, a read failed or a partition holds no listed image.  That is *)
(* so however the reads cut the partition up (prefixDigests), and a        *)
(* release never matches because a partition is not listed for it.         *)
FirmwareTold ==
  LET names == DOMAIN FwTable.images
      Fit   == {r \in FwTable.releases : \A n \in names : FwHolds(n, r)}
      Known == \A n \in names : \E r \in FwTable.releases : FwHolds(n, r)
  IN
  CASE fwProperty = FwUnset -> TRUE
    [] fwProperty = kUnknown -> fwRun.failed \/ FwTable = FwNoTable \/ ~Known
    [] fwProperty = kMixed -> Known /\ Fit = {}
    [] OTHER -> /\ fwProperty \in Fit /\ \A r \in Fit : ~newerRelease(r, fwProperty)
                /\ {fwText[i].name : i \in DOMAIN fwText} = names

=============================================================================
