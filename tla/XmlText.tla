------------------------------- MODULE XmlText -------------------------------
(***************************************************************************)
(* How the vendored XML library, compat/tinyxml2-v34, carries a value      *)
(* through a file: XMLPrinter escapes it, StrPair::ParseText finds where   *)
(* it ends, and StrPair::GetStr decodes it in place, in the buffer the     *)
(* file was read into: a read position p runs ahead of a write position q. *)
(*                                                                         *)
(* A character is its byte.  Values are short sequences over the bytes     *)
(* that the code tells apart.                                              *)
(***************************************************************************)
EXTENDS Integers, Sequences, FiniteSets, SequencesExt

CONSTANTS XtValues,      \* the values that are written
          XtCodePoints,  \* the code points that are referred to by number
          XtMaxZeros,    \* how many leading zeros a reference has
          XtBodies       \* what an author may have put behind "&#" instead

VARIABLES xtJob,    \* what is carried: see XtInit
          xtBuf,    \* the buffer from _start to _end
          xtP, xtQ, \* the positions in it, from 1
          xtDone

xtVars == <<xtJob, xtBuf, xtP, xtQ, xtDone>>

LF == 10
CR == 13
Space == 32
Quot == 34
Hash == 35
Amp == 38
Apos == 39
Semicolon == 59
Lt == 60
Gt == 62
LowerX == 120

MAX_CODE_POINT == 1114111

(* The entities, in the order they are tried: pattern and value.           *)
entities == <<[pattern |-> <<113, 117, 111, 116>>, value |-> Quot],
              [pattern |-> <<97, 109, 112>>,       value |-> Amp],
              [pattern |-> <<97, 112, 111, 115>>,  value |-> Apos],
              [pattern |-> <<108, 116>>,           value |-> Lt],
              [pattern |-> <<103, 116>>,           value |-> Gt]>>

-----------------------------------------------------------------------------
(* Writing.                                                                *)

_restrictedEntityFlag == {Amp, Lt, Gt}
_entityFlag == {entities[i].value : i \in DOMAIN entities}

(* A mutant of the next operator: escapes in attributes what it does in    *)
(* text.                                                                   *)
PrintRestricted(value, restricted) ==
  FlattenSeq([i \in DOMAIN value |->
    IF value[i] \in _restrictedEntityFlag
    THEN <<Amp>> \o (CHOOSE e \in ToSet(entities) : e.value = value[i]).pattern \o <<Semicolon>>
    ELSE <<value[i]>>])

PrintString(value, restricted) ==
  FlattenSeq([i \in DOMAIN value |->
    IF value[i] \in IF restricted THEN _restrictedEntityFlag ELSE _entityFlag
    THEN <<Amp>> \o (CHOOSE e \in ToSet(entities) : e.value = value[i]).pattern \o <<Semicolon>>
    ELSE <<value[i]>>])

(* A reference as an author writes it: radix 10 or 16 and leading zeros.   *)
RECURSIVE Digits(_, _)
Digits(n, radix) ==
  LET digit == (IF n % radix < 10 THEN 48 ELSE 87) + (n % radix)
  IN  IF n < radix THEN <<digit>> ELSE Append(Digits(n \div radix, radix), digit)

Reference(n, radix, zeros) ==
  <<Amp, Hash>> \o (IF radix = 16 THEN <<LowerX>> ELSE <<>>)
  \o [i \in 1..zeros |-> 48] \o Digits(n, radix) \o <<Semicolon>>

-----------------------------------------------------------------------------
(* Reading.                                                                *)

(* The character at i; the terminator that GetStr puts at _end.            *)
At(i) == IF i <= Len(xtBuf) THEN xtBuf[i] ELSE 0

(* Up to the first end mark; text ends at '<', an attribute at its quote.  *)
ParseText(file, endChar) ==
  LET end == CHOOSE i \in DOMAIN file : file[i] = endChar /\ \A j \in 1..(i - 1) : file[j] # endChar
  IN  SubSeq(file, 1, end - 1)

ConvertUTF32ToUTF8(input) ==
  LET Cont(n) == 128 + (n % 64) IN
  CASE input < 128     -> <<input>>
    [] input \in 128..2047 -> <<192 + (input \div 64), Cont(input)>>
    [] input \in 2048..65535 -> <<224 + (input \div 4096), Cont(input \div 64), Cont(input)>>
    [] input \in 65536..2097151 ->
         <<240 + (input \div 262144), Cont(input \div 4096), Cont(input \div 64), Cont(input)>>
    [] OTHER -> <<>>

DigitOf(c, radix) ==
  CASE c \in 48..57                  -> c - 48
    [] radix = 16 /\ c \in 97..102   -> c - 87
    [] radix = 16 /\ c \in 65..70    -> c - 55
    [] OTHER                         -> -1

(* The digits are added up from the last to the first; mult, the weight of *)
(* the next one, never exceeds MAX_CODE_POINT.                             *)
RECURSIVE AddDigits(_, _, _, _, _)
AddDigits(first, q, radix, mult, ucs) ==
  IF q < first THEN ucs
  ELSE LET digit  == DigitOf(At(q), radix)
           scaled == mult * digit
           next   == mult * radix
       IN  IF digit = -1 \/ scaled > MAX_CODE_POINT \/ ucs > MAX_CODE_POINT - scaled THEN -1
           ELSE AddDigits(first, q - 1, radix,
                          IF next > MAX_CODE_POINT THEN MAX_CODE_POINT ELSE next, ucs + scaled)

(* Where reading goes on, 0 if this is no reference, and what it stands    *)
(* for.  The digits are those between the next semicolon and the '#' or    *)
(* 'x' that is nearest before it.  "&#" at the very end loses its          *)
(* ampersand.                                                              *)
GetCharacterRef(p) ==
  LET hex        == At(p + 2) = LowerX
      radix      == IF hex THEN 16 ELSE 10
      terminator == IF hex THEN LowerX ELSE Hash
      from  == IF hex THEN p + 2 ELSE p + 1
      ends  == {i \in (from + 1)..Len(xtBuf) : xtBuf[i] = Semicolon}
      end   == CHOOSE i \in ends : \A j \in ends : i <= j
      marks == {i \in from..(end - 1) : xtBuf[i] = terminator}
      mark  == CHOOSE i \in marks : \A j \in marks : i >= j
      ucs   == AddDigits(mark + 1, end - 1, radix, 1, 0)
  IN  IF At(p + 2) = 0 THEN [next |-> p + 1, bytes |-> <<>>]
      ELSE IF ends = {} \/ ucs = -1 THEN [next |-> 0, bytes |-> <<>>]
      ELSE [next |-> end + 1, bytes |-> ConvertUTF32ToUTF8(ucs)]

(* memcpy( q, bytes, len ), then on with reading at p.                     *)
XtMove(p, bytes) ==
  /\ xtP' = p
  /\ xtQ' = xtQ + Len(bytes)
  /\ xtBuf' = [i \in DOMAIN xtBuf |->
                 IF i \in xtQ..(xtQ + Len(bytes) - 1) THEN bytes[i - xtQ + 1] ELSE xtBuf[i]]
  /\ UNCHANGED <<xtJob, xtDone>>

XtReading == ~xtDone /\ xtP <= Len(xtBuf)

(* CR-LF, LF-CR, CR and LF become LF.                                      *)
GetStrNewline ==
  /\ XtReading /\ At(xtP) \in {CR, LF}
  /\ LET other == IF At(xtP) = CR THEN LF ELSE CR
     IN  XtMove(IF At(xtP + 1) = other THEN xtP + 2 ELSE xtP + 1, <<LF>>)

GetStrReference ==
  /\ XtReading /\ At(xtP) = Amp /\ At(xtP + 1) = Hash
  /\ LET ref == GetCharacterRef(xtP) IN
     IF ref.next = 0 THEN XtMove(xtP + 1, <<Amp>>) ELSE XtMove(ref.next, ref.bytes)

EntityAt(e, p) ==
  /\ \A i \in DOMAIN e.pattern : At(p + i) = e.pattern[i]
  /\ At(p + Len(e.pattern) + 1) = Semicolon

(* An ampersand that begins no entity is passed over, and what the buffer  *)
(* holds at q stands for it: the ampersand itself only while nothing       *)
(* before it was shortened.                                                *)
GetStrEntity ==
  /\ XtReading /\ At(xtP) = Amp /\ At(xtP + 1) # Hash
  /\ LET found == {i \in DOMAIN entities : EntityAt(entities[i], xtP)} IN
     \/ /\ found # {}
        /\ LET e == entities[CHOOSE i \in found : \A j \in found : i <= j]
           IN  XtMove(xtP + Len(e.pattern) + 2, <<e.value>>)
     \/ found = {} /\ XtMove(xtP + 1, <<xtBuf[xtQ]>>)

GetStrOther ==
  /\ XtReading /\ At(xtP) \notin {CR, LF, Amp}
  /\ XtMove(xtP + 1, <<At(xtP)>>)

IsWhiteSpace(c) == c \in {Space, LF, CR}

RECURSIVE SkipWhiteSpace(_)
SkipWhiteSpace(s) == IF s # <<>> /\ IsWhiteSpace(Head(s)) THEN SkipWhiteSpace(Tail(s)) ELSE s

(* Each run of white space becomes one space, or nothing at the ends.      *)
RECURSIVE CollapseFrom(_, _)
CollapseFrom(s, q) ==
  LET rest == SkipWhiteSpace(s) IN
  IF rest = <<>> THEN q
  ELSE CollapseFrom(Tail(rest), q \o (IF rest = s THEN <<>> ELSE <<Space>>) \o <<Head(rest)>>)

CollapseWhitespace(s) == CollapseFrom(SkipWhiteSpace(s), <<>>)

(* The terminator goes to q; text of a document that collapses white space *)
(* is collapsed then.                                                      *)
GetStrEnd ==
  /\ ~xtDone /\ xtP > Len(xtBuf)
  /\ xtDone' = TRUE
  /\ LET str == SubSeq(xtBuf, 1, xtQ - 1)
     IN  xtBuf' = IF xtJob.collapse THEN CollapseWhitespace(str) ELSE str
  /\ UNCHANGED <<xtJob, xtP, xtQ>>

XtNext == GetStrNewline \/ GetStrReference \/ GetStrEntity \/ GetStrOther \/ GetStrEnd

-----------------------------------------------------------------------------
(* Line ends as a reader sees them.                                        *)
RECURSIVE Normal(_)
Normal(s) ==
  IF s = <<>> THEN <<>>
  ELSE IF Len(s) > 1 /\ {s[1], s[2]} = {CR, LF} THEN <<LF>> \o Normal(Tail(Tail(s)))
  ELSE <<IF s[1] = CR THEN LF ELSE s[1]>> \o Normal(Tail(s))

Shortened(s) == Len(Normal(s)) < Len(s)

(* A value is printed as text or as an attribute, followed by its end mark *)
(* and by more of the file; or an author's file holds a reference between  *)
(* two escaped values, something like a reference, or a value that nobody  *)
(* escaped.                                                                *)
XtFile(job) ==
  CASE job.kind = "text"      -> PrintString(job.value, TRUE) \o <<Lt, Lt>>
    [] job.kind = "attribute" -> PrintString(job.value, FALSE) \o <<Quot, Quot>>
    [] job.kind = "raw"       -> job.value \o <<Lt>>
    [] job.kind = "reference" ->
         PrintString(job.value, TRUE) \o Reference(job.ref, job.radix, job.zeros)
         \o PrintString(job.value, TRUE) \o <<Lt>>
    [] job.kind = "body"      -> <<Amp, Hash>> \o job.value \o <<Lt>>

XtJobs ==
  [kind : {"text"}, value : XtValues, collapse : BOOLEAN]
  \cup [kind : {"attribute"}, value : XtValues, collapse : {FALSE}]
  \cup [kind : {"raw"}, value : {v \in XtValues : ~Contains(v, Lt) /\ ~Shortened(v)},
        collapse : {FALSE}]
  \cup [kind : {"reference"}, value : {v \in XtValues : Len(v) <= 1}, collapse : {FALSE},
        ref : XtCodePoints, radix : {10, 16}, zeros : 0..XtMaxZeros]
  \cup [kind : {"body"}, value : XtBodies, collapse : {FALSE}]

XtInit ==
  /\ xtJob \in XtJobs
  /\ xtBuf = ParseText(XtFile(xtJob), IF xtJob.kind = "attribute" THEN Quot ELSE Lt)
  /\ xtP = 1 /\ xtQ = 1 /\ xtDone = FALSE

-----------------------------------------------------------------------------
(* The value of UTF-8 bytes.                                               *)
FromUtf8(b) ==
  CASE Len(b) = 1 -> b[1]
    [] Len(b) = 2 -> (b[1] % 32) * 64 + (b[2] % 64)
    [] Len(b) = 3 -> (b[1] % 16) * 4096 + (b[2] % 64) * 64 + (b[3] % 64)
    [] Len(b) = 4 -> (b[1] % 8) * 262144 + (b[2] % 64) * 4096 + (b[3] % 64) * 64 + (b[4] % 64)

(* Whether a reference stands for radix to some power, beyond the last     *)
(* code point.                                                             *)
PowerBeyond(n, radix) == n > MAX_CODE_POINT /\ \E k \in 6..7 : n = radix^k

(* What "&#" and a body are read as: the digits in front of its first      *)
(* semicolon, as far back as the last mark, if there is nothing else.      *)
BodyRead(body) ==
  LET hex    == body # <<>> /\ body[1] = LowerX
      radix  == IF hex THEN 16 ELSE 10
      end    == SelectInSeq(body, LAMBDA c : c = Semicolon)
      before == SubSeq(body, 1, end - 1)
      mark   == SelectLastInSeq(before, LAMBDA c : c = IF hex THEN LowerX ELSE Hash)
      digits == SubSeq(before, mark + 1, end - 1)
      number == FoldLeft(LAMBDA acc, c : acc * radix + DigitOf(c, radix), 0, digits)
  IN  IF body = <<>> THEN <<Hash>>
      ELSE IF end = 0 \/ \E i \in DOMAIN digits : DigitOf(digits[i], radix) = -1
           THEN <<Amp, Hash>> \o body
           ELSE ConvertUTF32ToUTF8(number) \o SubSeq(body, end + 1, Len(body))

NotWhite(s) == SelectSeq(s, LAMBDA c : ~IsWhiteSpace(c))
Words(s) == Cardinality({i \in DOMAIN s : /\ ~IsWhiteSpace(s[i])
                                          /\ i = 1 \/ IsWhiteSpace(s[i - 1])})

(* A value survives the file.  What was set is what is read back, but for  *)
(* line ends, which become LF: no character of it ends the text or the     *)
(* attribute early, none is decoded twice, and what decoding writes never  *)
(* overtakes what it has yet to read.  Collapsing keeps every word and     *)
(* leaves no white space at the ends or twice in a row.  A reference       *)
(* becomes its code point in UTF-8, whatever the radix and the leading     *)
(* zeros; one beyond U+10FFFF, one without its semicolon or with something *)
(* else among its digits, and an ampersand that begins nothing stay as     *)
(* they are written.                                                       *)
(*                                                                         *)
(* Four things a reader would not expect are part of it, or left out.  The *)
(* weight of a digit stops at U+10FFFF, so a one followed by six or more   *)
(* hexadecimal or seven or more decimal zeros is taken for U+10FFFF,       *)
(* although the code means to "reject" what exceeds MAX_CODE_POINT.  The   *)
(* digits are counted back to the nearest mark, so "&#1#2;" is U+2, and    *)
(* "&#;" is U+0.  "&#" at the very end loses its ampersand.  Left out:     *)
(* behind a shortened line end or entity, an ampersand that begins nothing *)
(* is replaced by a stale character of the buffer.                         *)
TextKept ==
  /\ ~xtDone => xtQ <= xtP
  /\ xtDone =>
       CASE xtJob.kind = "reference" ->
              LET v == Len(Normal(xtJob.value))
                  middle == SubSeq(xtBuf, v + 1, Len(xtBuf) - v)
              IN  /\ SubSeq(xtBuf, 1, v) = Normal(xtJob.value)
                  /\ SubSeq(xtBuf, Len(xtBuf) - v + 1, Len(xtBuf)) = Normal(xtJob.value)
                  /\ IF xtJob.ref <= MAX_CODE_POINT THEN FromUtf8(middle) = xtJob.ref
                     ELSE IF PowerBeyond(xtJob.ref, xtJob.radix)
                          THEN FromUtf8(middle) = MAX_CODE_POINT
                          ELSE middle = Reference(xtJob.ref, xtJob.radix, xtJob.zeros)
         [] xtJob.kind = "body" -> xtBuf = BodyRead(xtJob.value)
         [] xtJob.kind = "text" /\ xtJob.collapse ->
              /\ NotWhite(xtBuf) = NotWhite(xtJob.value)
              /\ Words(xtBuf) = Words(xtJob.value)
              /\ \A i \in DOMAIN xtBuf : IsWhiteSpace(xtBuf[i]) =>
                   i > 1 /\ i < Len(xtBuf) /\ ~IsWhiteSpace(xtBuf[i - 1])
         [] OTHER -> xtBuf = Normal(xtJob.value)

=============================================================================
