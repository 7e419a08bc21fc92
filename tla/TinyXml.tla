------------------------------- MODULE TinyXml -------------------------------
(***************************************************************************)
(* The vendored XML library, compat/tinyxml2-v34: the document as a heap   *)
(* of doubly linked nodes and the memory it owns, the editing calls, the   *)
(* parser and the printer.                                                 *)
(*                                                                         *)
(* A node is a number; 0 is the document.  Text is abstracted to names of  *)
(* elements and attributes.  The parser reads tags and runs of text, one   *)
(* item of XMLNode::ParseDeep's loop a step; its recursion is the stack    *)
(* xmlStack of the nodes whose children are being read.  What the parser   *)
(* is given next is up to the environment.                                 *)
(***************************************************************************)
EXTENDS Integers, Sequences, FiniteSets, SequencesExt, FiniteSetsExt

CONSTANTS XmlMaxNodes,    \* how many nodes exist at once
          XmlMaxTokens,   \* how many items one input has
          XmlMaxDepth,    \* TINYXML2_MAX_ELEMENT_DEPTH
          XmlMaxLost,     \* how many lost nodes a document is used on with
          XmlTags         \* the element tags that inputs are made of

VARIABLES xml,        \* the heap and the document, see XmlNew
          xmlErr,     \* _errorID
          xmlMode,    \* "idle", "Parse" or "LoadFile": which entry point is parsing
          xmlStack,   \* the activations of XMLNode::ParseDeep
          xmlRead     \* what the last parse has read

xmlVars == <<xml, xmlErr, xmlMode, xmlStack, xmlRead>>

Null == -1
Document == 0
Nodes == 1..XmlMaxNodes

PoolOf(kind) == CASE kind = "element" -> "elementPool"
                  [] kind = "text"    -> "textPool"
                  [] OTHER            -> "commentPool"
Pools == {"elementPool", "textPool", "commentPool"}

(* XMLNode's constructor; also what a freed item is overwritten with.      *)
Blank == [kind |-> "none", name |-> "", parent |-> Null, prev |-> Null, next |-> Null,
          first |-> Null, last |-> Null, attrs |-> <<>>]

(* node: the items; live: those allocated; unlinked: _unlinked; untracked  *)
(* and attributes: the pools' counters of nodes not yet in use, and of     *)
(* allocated attributes; lost: the nodes that were deleted while they      *)
(* counted as untracked; crashed: a null pointer was followed.             *)
XmlNew == [node |-> [n \in {Document} \cup Nodes |-> Blank], live |-> {}, unlinked |-> <<>>,
           untracked |-> [p \in Pools |-> 0], attributes |-> 0, lost |-> [p \in Pools |-> 0],
           crashed |-> FALSE]

XmlInit ==
  /\ xml = XmlNew /\ xmlErr = "SUCCESS" /\ xmlMode = "idle"
  /\ xmlStack = <<>> /\ xmlRead = <<>>

-----------------------------------------------------------------------------
(* The heap.  Each operator maps a heap to the heap after the call.        *)

(* n->field = value.                                                       *)
Put(h, n, field, value) ==
  IF n = Null THEN [h EXCEPT !.crashed = TRUE]
              ELSE [h EXCEPT !.node[n] = [@ EXCEPT ![field] = value]]

SetTracked(h, n) == [h EXCEPT !.untracked[PoolOf(h.node[n].kind)] = @ - 1]

(* A mutant of the next operator: forgets to fill the gap.                 *)
SwapRemoveNot(s, i) == Front(s)

(* DynArray::SwapRemove: the last entry takes the place of the removed one. *)
SwapRemove(s, i) == Front([s EXCEPT ![i] = Last(s)])

MarkInUse(h, n) ==
  IF Contains(h.unlinked, n)
  THEN [h EXCEPT !.unlinked = SwapRemove(@, CHOOSE i \in DOMAIN @ : @[i] = n)]
  ELSE h

(* The free list's order shows nowhere: the lowest free item is taken.     *)
XmlFresh(h) == CHOOSE n \in Nodes \ h.live : \A m \in Nodes \ h.live : n <= m

CreateUnlinkedNode(h, kind, name) ==
  LET n == XmlFresh(h) IN
  [h EXCEPT !.node[n] = [Blank EXCEPT !.kind = kind, !.name = name],
            !.live = @ \cup {n},
            !.unlinked = Append(@, n),
            !.untracked[PoolOf(kind)] = @ + 1]

Unlink(h, c) ==
  LET node == h.node[c]
      p    == node.parent
      h1 == IF h.node[p].first = c THEN Put(h, p, "first", node.next) ELSE h
      h2 == IF h1.node[p].last = c THEN Put(h1, p, "last", node.prev) ELSE h1
      h3 == IF node.prev # Null THEN Put(h2, node.prev, "next", node.next) ELSE h2
      h4 == IF node.next # Null THEN Put(h3, node.next, "prev", node.prev) ELSE h3
  IN  Put(Put(Put(h4, c, "next", Null), c, "prev", Null), c, "parent", Null)

(* XMLNode::DeleteNode of a node without parent: its destructor deletes    *)
(* the children, front to back, and an element's the attributes.           *)
RECURSIVE DeleteNode(_, _)
RECURSIVE DeleteChildren(_, _)
DeleteNode(h, n) ==
  LET h1 == DeleteChildren(MarkInUse(h, n), n) IN
  [h1 EXCEPT !.live = @ \ {n}, !.node[n] = Blank,
             !.attributes = @ - Len(h1.node[n].attrs)]
DeleteChildren(h, n) ==
  LET c == h.node[n].first IN
  IF c = Null THEN h ELSE DeleteChildren(DeleteNode(Unlink(h, c), c), n)

(* XMLDocument::DeleteNode.                                                *)
DocDeleteNode(h, n) ==
  IF h.node[n].parent # Null THEN DeleteNode(Unlink(h, n), n)
                             ELSE DeleteNode(SetTracked(h, n), n)

RECURSIVE DeleteUnlinked(_)
DeleteUnlinked(h) ==
  IF h.unlinked = <<>> THEN h ELSE DeleteUnlinked(DocDeleteNode(h, h.unlinked[1]))

Clear(h) == DeleteUnlinked(DeleteChildren(h, Document))

InsertChildPreamble(h, c) ==
  IF h.node[c].parent # Null THEN Unlink(h, c) ELSE SetTracked(MarkInUse(h, c), c)

InsertEndChild(h, p, c) ==
  LET h1   == InsertChildPreamble(h, c)
      last == h1.node[p].last
      h2   == IF last # Null THEN Put(Put(h1, last, "next", c), c, "prev", last)
                             ELSE Put(Put(h1, p, "first", c), c, "prev", Null)
  IN  Put(Put(Put(h2, p, "last", c), c, "next", Null), c, "parent", p)

InsertFirstChild(h, p, c) ==
  LET h1    == InsertChildPreamble(h, c)
      first == h1.node[p].first
      h2    == IF first # Null THEN Put(Put(h1, first, "prev", c), c, "next", first)
                               ELSE Put(Put(h1, p, "last", c), c, "next", Null)
  IN  Put(Put(Put(h2, p, "first", c), c, "prev", Null), c, "parent", p)

(* afterThis->_next is tested before the preamble takes addThis out of     *)
(* its place, and followed after it.                                       *)
InsertAfterChild(h, p, after, c) ==
  IF after = c THEN h
  ELSE IF h.node[after].next = Null THEN InsertEndChild(h, p, c)
  ELSE LET h1   == InsertChildPreamble(h, c)
           next == h1.node[after].next
           h2   == Put(Put(h1, c, "prev", after), c, "next", next)
       IN  Put(Put(Put(h2, next, "prev", c), after, "next", c), c, "parent", p)

(* Fresh attributes are linked behind the others.                          *)
CreateAttribute(h, n, name) ==
  [h EXCEPT !.attributes = @ + 1, !.node[n].attrs = Append(@, name)]

FindOrCreateAttribute(h, n, name) ==
  IF Contains(h.node[n].attrs, name) THEN h ELSE CreateAttribute(h, n, name)

DeleteAttribute(h, n, name) ==
  IF Contains(h.node[n].attrs, name)
  THEN [h EXCEPT !.attributes = @ - 1, !.node[n].attrs = Remove(@, name)]
  ELSE h

(* DeepClone, with ShallowClone of the node itself; the clone is the node  *)
(* that was free before.                                                   *)
RECURSIVE DeepClone(_, _)
RECURSIVE CloneFrom(_, _, _)
DeepClone(h, n) ==
  LET clone == XmlFresh(h)
      h1 == CreateUnlinkedNode(h, h.node[n].kind, h.node[n].name)
      h2 == [h1 EXCEPT !.node[clone].attrs = h.node[n].attrs,
                       !.attributes = @ + Len(h.node[n].attrs)]
  IN  CloneFrom(h2, clone, h.node[n].first)
CloneFrom(h, clone, c) ==
  IF c = Null THEN h
  ELSE CloneFrom(InsertEndChild(DeepClone(h, c), clone, XmlFresh(h)), clone, h.node[c].next)

-----------------------------------------------------------------------------
(* Editing.  The caller owns the pointers: it does not insert a node below *)
(* itself, and it stops using a node it has deleted.                       *)

RECURSIVE Children(_, _)
Children(h, c) == IF c = Null THEN <<>> ELSE <<c>> \o Children(h, h.node[c].next)

RECURSIVE Subtree(_, _)
Subtree(h, n) == {n} \cup UNION {Subtree(h, c) : c \in ToSet(Children(h, h.node[n].first))}

HasRoom(k) == Cardinality(Nodes \ xml.live) >= k

XmlEditing == xmlMode = "idle" /\ ~xml.crashed

XmlEdit(h) == xml' = h /\ xmlRead' = <<>> /\ UNCHANGED <<xmlErr, xmlMode, xmlStack>>

XmlNewNode(kind, name) ==
  XmlEditing /\ HasRoom(1) /\ XmlEdit(CreateUnlinkedNode(xml, kind, name))

XmlMayInsert(p, c) ==
  XmlEditing /\ c \in xml.live /\ p \in xml.live \cup {Document} /\ p \notin Subtree(xml, c)

XmlInsertEnd(p, c)   == XmlMayInsert(p, c) /\ XmlEdit(InsertEndChild(xml, p, c))
XmlInsertFirst(p, c) == XmlMayInsert(p, c) /\ XmlEdit(InsertFirstChild(xml, p, c))

XmlInsertAfter(after, c) ==
  LET p == xml.node[after].parent IN
  /\ after \in xml.live /\ p # Null
  /\ XmlMayInsert(p, c)
  /\ XmlEdit(InsertAfterChild(xml, p, after, c))

(* InsertNewChildElement, InsertNewText and the like for the other kinds.  *)
InsertNewChild(p, kind, name) ==
  /\ XmlEditing /\ HasRoom(1)
  /\ p \in xml.live /\ xml.node[p].kind = "element"
  /\ XmlEdit(InsertEndChild(CreateUnlinkedNode(xml, kind, name), p, XmlFresh(xml)))

(* A leading text takes the new value; otherwise a text is put in front.   *)
SetText(p) ==
  LET first == xml.node[p].first IN
  /\ XmlEditing
  /\ p \in xml.live /\ xml.node[p].kind = "element"
  /\ \/ first # Null /\ xml.node[first].kind = "text" /\ XmlEdit(xml)
     \/ /\ first # Null => xml.node[first].kind # "text"
        /\ HasRoom(1)
        /\ XmlEdit(InsertFirstChild(CreateUnlinkedNode(xml, "text", ""), p, XmlFresh(xml)))

XmlDelete(n) == XmlEditing /\ n \in xml.live /\ XmlEdit(DocDeleteNode(xml, n))

XmlClone(n) ==
  /\ XmlEditing
  /\ n \in xml.live /\ HasRoom(Cardinality(Subtree(xml, n)))
  /\ XmlEdit(DeepClone(xml, n))

XmlAttribute(n, name) ==
  /\ XmlEditing
  /\ n \in xml.live /\ xml.node[n].kind = "element"
  /\ \/ XmlEdit(FindOrCreateAttribute(xml, n, name))
     \/ XmlEdit(DeleteAttribute(xml, n, name))

XmlClear ==
  /\ XmlEditing
  /\ xml' = Clear(xml) /\ xmlErr' = "SUCCESS" /\ xmlRead' = <<>>
  /\ UNCHANGED <<xmlMode, xmlStack>>

(* Saving clears the error of an earlier load, too.                        *)
SaveFile ==
  /\ XmlEditing
  /\ xmlErr' \in {"SUCCESS", "FILE_COULD_NOT_BE_OPENED"}
  /\ xmlRead' = <<>>
  /\ UNCHANGED <<xml, xmlMode, xmlStack>>

-----------------------------------------------------------------------------
(* Parsing.                                                                *)

(* A bound: what LoadFile loses adds up in a document that is used again   *)
(* and again, so it is not loaded again once that is more than XmlMaxLost. *)
XmlFewLost == MapThenSumSet(LAMBDA p : xml.lost[p], Pools) <= XmlMaxLost

(* Parse and LoadFile begin alike; a file that is missing, unreadable or   *)
(* empty, and an empty string, end there.  LoadFile of a name clears       *)
(* twice, before and after opening the file.                               *)
XmlBegin(mode) ==
  /\ XmlEditing
  /\ XmlFewLost
  /\ xml' = Clear(xml)
  /\ xmlRead' = <<>>
  /\ \/ xmlMode' = mode /\ xmlStack' = <<Document>> /\ xmlErr' = "SUCCESS"
     \/ /\ xmlErr' \in IF mode = "Parse" THEN {"EMPTY_DOCUMENT"}
                       ELSE {"EMPTY_DOCUMENT", "FILE_NOT_FOUND", "FILE_READ_ERROR"}
        /\ UNCHANGED <<xmlMode, xmlStack>>

(* XMLNode::DeleteNode of a node that was never put in use: nobody marks   *)
(* it tracked.                                                             *)
Discard(h, n) ==
  [DeleteNode(h, n) EXCEPT !.lost[PoolOf(h.node[n].kind)] = @ + 1]

(* Every activation but the first returns null: its node is deleted by the *)
(* one below, innermost first.                                             *)
RECURSIVE Abandon(_, _)
Abandon(h, stack) ==
  IF Len(stack) = 1 THEN h ELSE Abandon(Discard(h, Last(stack)), Front(stack))

(* Parse() leaves nothing behind of a failed parse: it deletes the tree    *)
(* and drops the pools' blocks with whatever they still hold.  LoadFile    *)
(* keeps what was read.                                                    *)
DropPools(h) ==
  [DeleteChildren(h, Document) EXCEPT
     !.live = {}, !.untracked = [p \in Pools |-> 0], !.lost = [p \in Pools |-> 0],
     !.attributes = 0]

XmlStop(h, err) ==
  /\ xml' = IF err # "SUCCESS" /\ xmlMode = "Parse" THEN DropPools(h) ELSE h
  /\ xmlErr' = err
  /\ xmlMode' = "idle" /\ xmlStack' = <<>>

XmlFail(h, err) == XmlStop(Abandon(h, xmlStack), err)

(* The loop goes on with the activations stack, or finds the end of the    *)
(* input, which only the document's own activation may.                    *)
XmlGoOn(h, stack, last) ==
  \/ ~last /\ xml' = h /\ xmlStack' = stack /\ UNCHANGED <<xmlErr, xmlMode>>
  \/ last /\ Len(stack) = 1 /\ XmlStop(h, "SUCCESS")
  \/ last /\ Len(stack) > 1 /\ XmlStop(Abandon(h, stack), "PARSING")

Self == Last(xmlStack)

HasDuplicates(attrs) == Cardinality(ToSet(attrs)) < Len(attrs)

(* The attributes that ParseAttributes links to an element: up to the      *)
(* first one whose name is there already, which is deleted again.          *)
ParseAttributes(h, n, attrs) ==
  LET Distinct(k) == ~HasDuplicates(SubSeq(attrs, 1, k))
      k == CHOOSE k \in 0..Len(attrs) : Distinct(k) /\ (k = Len(attrs) \/ ~Distinct(k + 1))
  IN  [h EXCEPT !.attributes = @ + k, !.node[n].attrs = SubSeq(attrs, 1, k)]

(* A mutant of the next operator: looks at the first child only.           *)
WellLocatedFirst ==
  /\ Self = Document
  /\ LET doc == xml.node[Document] IN
     doc.first # Null => xml.node[doc.first].kind = "declaration"

(* Document level, and nothing but declarations so far.                    *)
WellLocated ==
  /\ Self = Document
  /\ LET doc == xml.node[Document] IN
     doc.first # Null => /\ xml.node[doc.first].kind = "declaration"
                         /\ xml.node[doc.last].kind = "declaration"

(* What ParseAttributes makes of a tag: "</a/>" ends as a sealed element,  *)
(* since the slash at its end overrides the one at its start.              *)
ClosingType(tag) == IF tag.form \in {"sealed", "close sealed"} THEN "CLOSED"
                    ELSE IF tag.form = "close" THEN "CLOSING" ELSE "OPEN"

(* One element tag.  last: nothing follows it.                             *)
ParseElement(tag, last) ==
  LET n == XmlFresh(xml)
      parsed == ParseAttributes(CreateUnlinkedNode(xml, "element", tag.name), n, tag.attrs)
      type   == ClosingType(tag)
  IN
  \/ HasDuplicates(tag.attrs) /\ XmlFail(Discard(parsed, n), "PARSING_ATTRIBUTE")
  \/ /\ ~HasDuplicates(tag.attrs) /\ type = "CLOSED"
     /\ XmlGoOn(InsertEndChild(parsed, Self, n), xmlStack, last)
  \/ /\ ~HasDuplicates(tag.attrs) /\ type = "OPEN"
     /\ IF last THEN XmlFail(Discard(parsed, n), "MISMATCHED_ELEMENT")
        ELSE IF Len(xmlStack) + 1 = XmlMaxDepth
             THEN XmlFail(Discard(parsed, n), "ELEMENT_DEPTH_EXCEEDED")
             ELSE XmlGoOn(parsed, Append(xmlStack, n), FALSE)
  \/ /\ ~HasDuplicates(tag.attrs) /\ type = "CLOSING"
     /\ LET h == DeleteNode(SetTracked(parsed, n), n) IN
        IF Self = Document THEN XmlStop(h, "SUCCESS")
        ELSE IF xml.node[Self].name = tag.name
             THEN XmlGoOn(InsertEndChild(h, Last(Front(xmlStack)), Self), Front(xmlStack), last)
             ELSE XmlFail(h, "MISMATCHED_ELEMENT")

(* Text, comments, declarations and unknown items.  Text that reaches the  *)
(* end of the input, or an item without its closing mark, is an error.     *)
ParseOther(kind, last, broken) ==
  LET n == XmlFresh(xml)
      h == CreateUnlinkedNode(xml, kind, "")
      unfinished == broken \/ (kind = "text" /\ last)
      misplaced  == kind = "declaration" /\ ~WellLocated
  IN
  \/ unfinished /\ XmlFail(Discard(h, n), "PARSING")
  \/ ~unfinished /\ misplaced /\ XmlFail(Discard(h, n), "PARSING_DECLARATION")
  \/ ~unfinished /\ ~misplaced /\ XmlGoOn(InsertEndChild(h, Self, n), xmlStack, last)

Tag(form, name, attrs) == [form |-> form, name |-> name, attrs |-> attrs]

XmlParsing == xmlMode # "idle" /\ Len(xmlRead) < XmlMaxTokens /\ HasRoom(1)

XmlParseTag(tag, last) ==
  /\ XmlParsing
  /\ ParseElement(tag, last)
  /\ xmlRead' = Append(xmlRead, tag)

(* Text ends at the next tag, so that two runs never follow each other.    *)
XmlParseOther(kind, last, broken) ==
  /\ XmlParsing
  /\ kind = "text" /\ xmlRead # <<>> => Last(xmlRead).form # "text"
  /\ ParseOther(kind, last, broken)
  /\ xmlRead' = Append(xmlRead, Tag(IF broken THEN "broken" ELSE kind, "", <<>>))

(* Only white space is left.                                               *)
XmlParseEnd ==
  /\ xmlMode # "idle" /\ xmlRead # <<>> /\ Last(xmlRead).form # "text"
  /\ XmlGoOn(xml, xmlStack, TRUE)
  /\ UNCHANGED xmlRead

XmlEditNext ==
  \/ XmlNewNode("element", "")
  \/ \E p \in {Document} \cup Nodes, c \in Nodes :
       XmlInsertEnd(p, c) \/ XmlInsertFirst(p, c)
  \/ \E a, c \in Nodes : XmlInsertAfter(a, c)
  \/ \E n \in Nodes : \/ \E kind \in {"element", "text"} : InsertNewChild(n, kind, "")
                      \/ SetText(n) \/ XmlDelete(n) \/ XmlClone(n)
  \/ XmlClear

XmlParseNext ==
  \/ \E mode \in {"Parse", "LoadFile"} : XmlBegin(mode)
  \/ \E tag \in XmlTags, last \in BOOLEAN : XmlParseTag(tag, last)
  \/ \E kind \in {"text", "comment", "declaration"}, last, broken \in BOOLEAN :
       XmlParseOther(kind, last, broken)
  \/ XmlParseEnd
  \/ \E n \in Nodes : XmlAttribute(n, "k")
  \/ SaveFile

XmlEditSpec == XmlInit /\ [][XmlEditNext]_xmlVars

-----------------------------------------------------------------------------
(* Printing.  XMLPrinter writes tags and line breaks; how far a line is    *)
(* indented is left out.  pending: the element whose tag is not sealed.    *)

XMLPrinter(compact) == [out |-> <<>>, stack |-> <<>>, pending |-> <<>>, depth |-> 0,
                        textDepth |-> -1, first |-> TRUE, compact |-> compact]

Write(pr, token) == [pr EXCEPT !.out = Append(@, token)]
LineBreak == Tag("line break", "", <<>>)

SealElementIfJustOpened(pr) ==
  IF pr.pending = <<>> THEN pr ELSE [Write(pr, pr.pending[1]) EXCEPT !.pending = <<>>]

PrepareForNewNode(pr) ==
  LET sealed == SealElementIfJustOpened(pr) IN
  IF pr.compact THEN sealed
  ELSE [(IF ~pr.first /\ pr.textDepth < 0 THEN Write(sealed, LineBreak) ELSE sealed)
          EXCEPT !.first = FALSE]

OpenElement(pr, name) ==
  [PrepareForNewNode(pr) EXCEPT
     !.stack = Append(@, name), !.pending = <<Tag("open", name, <<>>)>>, !.depth = @ + 1]

PushAttribute(pr, name) == [pr EXCEPT !.pending[1].attrs = Append(@, name)]

CloseElement(pr) ==
  LET up     == [pr EXCEPT !.depth = @ - 1, !.stack = Front(@), !.pending = <<>>]
      closed == IF pr.pending # <<>>
                THEN Write(up, [pr.pending[1] EXCEPT !.form = "sealed"])
                ELSE Write(IF pr.textDepth < 0 /\ ~pr.compact THEN Write(up, LineBreak) ELSE up,
                           Tag("close", Last(pr.stack), <<>>))
      broken == IF up.depth = 0 /\ ~pr.compact THEN Write(closed, LineBreak) ELSE closed
  IN  [broken EXCEPT !.textDepth = IF @ = up.depth THEN -1 ELSE @]

PushText(pr) ==
  Write(SealElementIfJustOpened([pr EXCEPT !.textDepth = pr.depth - 1]), Tag("text", "", <<>>))

PushOther(pr, kind) == Write(PrepareForNewNode(pr), Tag(kind, "", <<>>))

RECURSIVE Accept(_, _, _)
Accept(h, pr, n) ==
  LET node == h.node[n]
      Inside(printer) ==
        FoldLeft(LAMBDA acc, c : Accept(h, acc, c), printer, Children(h, node.first))
  IN  CASE n = Document -> Inside(pr)
        [] node.kind = "element" ->
             CloseElement(Inside(FoldLeft(PushAttribute, OpenElement(pr, node.name), node.attrs)))
        [] node.kind = "text" -> PushText(pr)
        [] OTHER              -> PushOther(pr, node.kind)

Printed(compact) == Accept(xml, XMLPrinter(compact), Document).out

-----------------------------------------------------------------------------
(* What an input means, told from the input alone: open holds the names of *)
(* the open elements, out the input with "<a></a>" as "<a/>"; stray is set *)
(* by a closing tag at document level, behind which nothing is read.       *)
Meant(read) ==
  LET Item(acc, t) ==
        IF acc.bad \/ acc.stray THEN acc
        ELSE IF t.form = "broken" \/ HasDuplicates(t.attrs) THEN [acc EXCEPT !.bad = TRUE]
        ELSE CASE t.form = "close" /\ acc.open = <<>> -> [acc EXCEPT !.stray = TRUE]
               [] t.form = "close" /\ acc.open # <<>> ->
                    [acc EXCEPT !.bad = Last(acc.open) # t.name, !.open = Front(@),
                                !.out = IF Last(@).form = "open"
                                        THEN Append(Front(@), [Last(@) EXCEPT !.form = "sealed"])
                                        ELSE Append(@, t)]
               [] t.form = "open" ->
                    [acc EXCEPT !.bad = Len(acc.open) + 2 = XmlMaxDepth,
                                !.open = Append(@, t.name), !.out = Append(@, t)]
               [] t.form = "declaration" ->
                    [acc EXCEPT !.bad = \E i \in DOMAIN acc.out : acc.out[i].form # "declaration",
                                !.out = Append(@, t)]
               [] OTHER -> [acc EXCEPT !.out = Append(@, t)]
  IN  FoldLeft(Item, [open |-> <<>>, out |-> <<>>, bad |-> FALSE, stray |-> FALSE], read)

(* Every element is closed, by a tag of its name; no attribute is repeated *)
(* in a tag, no item is cut off, declarations come first, and text stands  *)
(* before a tag.                                                           *)
WellFormed(read) ==
  LET meant == Meant(read) IN
  /\ ~meant.bad /\ ~meant.stray
  /\ meant.open = <<>> /\ Last(read).form # "text"
  /\ \A i \in DOMAIN read : read[i].form # "close sealed"

(* The input with "</a/>" read as "<a/>".                                  *)
Resealed(read) ==
  [i \in DOMAIN read |-> [read[i] EXCEPT !.form = IF @ = "close sealed" THEN "sealed" ELSE @]]

(* Two kinds of input more that are read without an error.  A closing tag  *)
(* that closes nothing ends the document, whatever follows it; and a tag   *)
(* with a slash at both ends is an element of its own.                     *)
CutShort(read)   == Meant(Resealed(read)).stray
SealedTwice(read) == Resealed(read) # read /\ WellFormed(Resealed(read))

(* Parse and LoadFile report success for the well-formed inputs, for the   *)
(* two kinds above, and for no others.  Printing the document then gives   *)
(* back what was read, or, if a stray closing tag cut it short, what stood *)
(* before it, whichever way it is laid out; the line breaks that the       *)
(* printer adds touch no text inside an element, where they would become   *)
(* part of it.                                                             *)
(*                                                                         *)
(* CutShort and SealedTwice are not what the parser's comment says, "the   *)
(* closing element (/foo) *must* be the next thing after the opening       *)
(* element, and the names must match": after a stray closing tag the rest  *)
(* of the input is dropped without an error.                               *)
ParseExact ==
  xmlMode = "idle" /\ xmlRead # <<>> /\ ~xml.crashed =>
    LET accepted == WellFormed(xmlRead) \/ CutShort(xmlRead) \/ SealedTwice(xmlRead)
    IN  /\ (xmlErr = "SUCCESS") = accepted
        /\ accepted => \A compact \in BOOLEAN :
             LET out == Printed(compact) IN
             /\ SelectSeq(out, LAMBDA t : t # LineBreak) = Meant(Resealed(xmlRead)).out
             /\ \A i \in 1..(Len(out) - 1) :
                  {out[i].form, out[i + 1].form} = {"text", "line break"} =>
                    LET before == SubSeq(out, 1, i)
                        Count(form) == Cardinality({j \in DOMAIN before : before[j].form = form})
                    IN  Count("open") = Count("close")

(* The document is one tree and owns every node once.  Parents, siblings   *)
(* and ends agree in both directions, whatever was inserted, moved,        *)
(* cloned, deleted or read; a node is in the tree, or in another           *)
(* unlinked one, or itself listed once in _unlinked, which lists no freed  *)
(* node: Clear deletes what it lists.  The pools count what is there: all  *)
(* attributes, and as untracked the nodes never put in use.                *)
(*                                                                         *)
(* They are off by exactly the nodes that a LoadFile discarded when it     *)
(* failed halfway, until a failing Parse drops the pools.  A debug build   *)
(* asserts in Clear that they are not ("_elementPool.CurrentAllocs() ==    *)
(* _elementPool.Untracked()") unless an error is recorded, and that error  *)
(* is gone when LoadFile clears for the second time, or after SaveFile:    *)
(* the assertion fails when such a document is loaded again.               *)
TreeSound ==
  ~xml.crashed =>
    /\ \A n \in {Document} \cup xml.live :
         LET node == xml.node[n] IN
         /\ (node.first = Null) = (node.last = Null)
         /\ node.first # Null => /\ xml.node[node.first].prev = Null
                                 /\ xml.node[node.first].parent = n
                                 /\ xml.node[node.last].next = Null
                                 /\ xml.node[node.last].parent = n
         /\ node.next # Null => /\ xml.node[node.next].prev = n
                                /\ xml.node[node.next].parent = node.parent
    /\ \A n \in xml.live :
         LET p == xml.node[n].parent IN
         /\ p # Null => /\ p \in xml.live \cup {Document}
                        /\ Contains(Children(xml, xml.node[p].first), n)
         /\ (p = Null) = Contains(xml.unlinked, n)
    /\ ToSet(xml.unlinked) \subseteq xml.live
    /\ Cardinality(ToSet(xml.unlinked)) = Len(xml.unlinked)
    /\ xml.attributes = MapThenSumSet(LAMBDA n : Len(xml.node[n].attrs), xml.live)
    /\ \A pool \in Pools :
         xml.untracked[pool] = xml.lost[pool] +
           Cardinality({n \in ToSet(xml.unlinked) : PoolOf(xml.node[n].kind) = pool})

(* InsertAfterChild moves: afterwards the node stands behind the one named, *)
(* wherever in the document it was before (tinyxml2.h: "If the child node   *)
(* is already part of the document, it is moved from its old location to    *)
(* the new location").                                                      *)
MovedWhereAsked ==
  [][\A after, c \in Nodes : after # c /\ XmlInsertAfter(after, c) =>
       ~xml'.crashed /\ xml'.node[after].next = c /\ xml'.node[c].prev = after]_xmlVars

=============================================================================
