-------------------------------- MODULE KXml ---------------------------------
(***************************************************************************)
(* The XML answers of a WebDAV server: KXml reads the text and raises an   *)
(* event for every element and every text (davlib/KXml.cpp), KXmlDocument  *)
(* builds the tree from the events (davlib/KXmlDocument.cpp), and          *)
(* KWebDavFileList::parse lists the files of a multistatus                 *)
(* (davlib/KXmlMultiStatus.cpp).                                           *)
(*                                                                         *)
(* A document is a sequence of the pieces the reader cuts the text into,   *)
(* white space between them left out: elements opened, closed or both      *)
(* ("single"), texts, CDATA sections, comments, the prolog, and the pieces *)
(* the text may break off in.  An element's name is <<prefix, local name>>.*)
(* Attributes are left out.                                                *)
(***************************************************************************)
EXTENDS Naturals, Sequences, SequencesExt

CONSTANTS
  Docs,            \* the answers: [text: the pieces, files: what the server meant to list]
  Short, Has200,   \* texts no longer than the prefix to strip; those with "200" in them
  htmlDecode(_),   \* a text with its entities resolved
  Cut(_),          \* a path without the prefix and a last slash
  url_decode(_)    \* a path with its escapes resolved

VARIABLES
  doc,
  hot,          \* the next piece to read
  contexts,     \* KXml: names of the open elements
  curContext,   \* KXml: the last event opened an element, which takes the text
  state,        \* KXml: what the last piece was
  done,         \* "new", "parsing", "true" (parsed), "throw" or "listed"
  parents, cur_node, root,   \* KXmlDocument
  failed,       \* an assert has failed
  files         \* KWebDavFileList: the paths listed

reader == <<contexts, curContext, state>>
tree == <<parents, cur_node, root, failed>>
vars == <<doc, hot, reader, done, tree, files>>

NoText == "no text"
NoNode == [tag |-> "", body |-> <<>>]
NewBody == [text |-> NoText, childs |-> <<>>]

Init ==
  /\ doc \in Docs /\ hot = 1
  /\ contexts = <<>> /\ curContext = FALSE /\ state = "none" /\ done = "new"
  /\ parents = <<>> /\ cur_node = NoNode /\ root = NoNode /\ failed = FALSE
  /\ files = <<>>

-----------------------------------------------------------------------------
(* KXmlDocument: the events.                                               *)

startElement(n) ==
  /\ parents' = Append(parents, cur_node)
  /\ cur_node' = [tag |-> n[2], body |-> <<NewBody>>]
  /\ UNCHANGED <<root, failed>>

startCharacter(v) ==
  /\ cur_node' = IF cur_node = NoNode THEN NoNode
                 ELSE [cur_node EXCEPT !.body[1].text = v]
  /\ UNCHANGED <<parents, root, failed>>

\* KXmlNodeBody::add: a child whose tag is there already adds its body to it.
AddAnew(body, xml) == [body EXCEPT !.childs = (xml.tag :> xml.body) @@ @]
add(body, xml) ==
  [body EXCEPT !.childs =
     (xml.tag :> IF xml.tag \in DOMAIN @ THEN @[xml.tag] \o xml.body ELSE xml.body) @@ @]

\* KXmlNode::append: the child goes into the last body.
append(node, xml) == [node EXCEPT !.body[Len(node.body)] = add(@, xml)]

Parent(ps) == IF ps = <<>> THEN NoNode ELSE Last(ps)

\* The end of element x, whose parent is at the top of ps.
Ended(x, ps) ==
  /\ parents' = IF ps = <<>> THEN ps ELSE Front(ps)
  /\ IF Parent(ps) = NoNode
       THEN failed' = (failed \/ root # NoNode) /\ root' = x /\ cur_node' = NoNode
       ELSE cur_node' = append(Parent(ps), x) /\ UNCHANGED <<root, failed>>

endElement == IF cur_node = NoNode THEN UNCHANGED tree ELSE Ended(cur_node, parents)

-----------------------------------------------------------------------------
(* KXml.                                                                   *)

Piece == doc.text[hot]
IsText(p) == p.k = "text"

\* startParse: text before the prolog goes with it; there must be an element.
startParse ==
  /\ done = "new"
  /\ LET marks == {i \in DOMAIN doc.text : ~IsText(doc.text[i])} IN
       IF marks = {} THEN done' = "throw" /\ UNCHANGED hot
       ELSE LET first == CHOOSE i \in marks : \A j \in marks : i <= j
                k == doc.text[first].k
            IN  /\ done' = IF k = "badprolog" THEN "throw" ELSE "parsing"
                /\ hot' = IF k = "prolog" THEN first + 1 ELSE hot
  /\ UNCHANGED <<doc, reader, tree, files>>

More == done = "parsing" /\ hot <= Len(doc.text)
Advance == hot' = hot + 1 /\ UNCHANGED <<doc, files>>

Comment ==
  /\ More /\ Piece.k = "comment" /\ Advance
  /\ UNCHANGED <<reader, done, tree>>

\* No '>' ends the tag, or no "]]>" the section.
Broken ==
  /\ More /\ Piece.k = "bad"
  /\ done' = "throw" /\ UNCHANGED <<doc, hot, reader, tree, files>>

Open ==
  /\ More /\ Piece.k = "open" /\ Advance
  /\ state' = "start" /\ curContext' = TRUE /\ contexts' = Append(contexts, Piece.n)
  /\ startElement(Piece.n) /\ UNCHANGED done

\* <n/>: both events at once, and the end of the text if nothing is open.
Single ==
  /\ More /\ Piece.k = "single" /\ Advance
  /\ state' = "start" /\ curContext' = FALSE /\ UNCHANGED contexts
  /\ Ended([tag |-> Piece.n[2], body |-> <<NewBody>>], Append(parents, cur_node))
  /\ done' = IF contexts = <<>> THEN "true" ELSE done

Matches(n) == contexts # <<>> /\ Last(contexts) = n

Close ==
  /\ More /\ Piece.k = "close"
  /\ IF Matches(Piece.n)
       THEN /\ Advance /\ contexts' = Front(contexts)
            /\ state' = "end" /\ curContext' = FALSE
            /\ endElement /\ UNCHANGED done
       ELSE /\ done' = "throw" /\ state' = "end"
            /\ UNCHANGED <<doc, hot, contexts, curContext, tree, files>>

Character(v) ==
  /\ state' = "char" /\ UNCHANGED <<contexts, curContext, done>>
  /\ IF curContext THEN startCharacter(v) ELSE UNCHANGED tree

CData == More /\ Piece.k = "cdata" /\ Advance /\ Character(Piece.v)

EndsText == state = "char" \/ hot = Len(doc.text)

\* A text after a text, and a text no '<' follows, end the loop.
Text ==
  /\ More /\ IsText(Piece)
  /\ IF EndsText THEN done' = "true" /\ UNCHANGED <<doc, hot, reader, tree, files>>
                 ELSE Advance /\ Character(htmlDecode(Piece.v))

EndOfText ==
  /\ done = "parsing" /\ hot > Len(doc.text)
  /\ done' = "true" /\ UNCHANGED <<doc, hot, reader, tree, files>>

-----------------------------------------------------------------------------
(* KWebDavFileList::parse.                                                 *)

\* find_child: the bodies of the child with this tag, <<>> if there is none.
find_child(body, tag) == IF tag \in DOMAIN body.childs THEN body.childs[tag] ELSE <<>>
Character1(bodies) == bodies[1].text

\* The path of one response, <<>> when the response is passed over.
FileOf(body) ==
  LET href == find_child(body, "href")
      propstat == find_child(body, "propstat")
      status == IF propstat = <<>> THEN <<>> ELSE find_child(propstat[1], "status")
  IN  IF \/ href = <<>> \/ Character1(href) \in Short \cup {NoText}
         \/ status = <<>> \/ Character1(status) \notin Has200
        THEN <<>> ELSE <<url_decode(Cut(Character1(href)))>>

FilesOf(bodies) == FlattenSeq([i \in DOMAIN bodies |-> FileOf(bodies[i])])

ListFiles ==
  /\ done \in {"true", "throw"} /\ done' = "listed"
  /\ files' = IF root.tag # "multistatus" \/ find_child(root.body[1], "response") = <<>>
              THEN <<>> ELSE FilesOf(find_child(root.body[1], "response"))
  /\ UNCHANGED <<doc, hot, reader, tree>>

Finished == done = "listed" /\ UNCHANGED vars

Next ==
  \/ startParse \/ Comment \/ Broken \/ Open \/ Single \/ Close
  \/ CData \/ Text \/ EndOfText \/ ListFiles \/ Finished

Spec == Init /\ [][Next]_vars

-----------------------------------------------------------------------------
(* Properties.                                                             *)

IsTag(p) == p.k \in {"open", "single", "close"}
Starts(p) == p.k \in {"open", "single"}

\* Names of the elements open before piece i of a well-formed document.
OpenAt(i) ==
  FoldLeft(LAMBDA s, p : IF p.k = "open" THEN Append(s, p.n)
                         ELSE IF p.k = "close" /\ s # <<>> THEN Front(s) ELSE s,
           <<>>, SubSeq(doc.text, 1, i - 1))

\* One element with everything in it, properly nested, and nothing around it
\* but comments and the prolog.
WellFormed ==
  LET n == Len(doc.text) tags == {i \in 1..n : IsTag(doc.text[i])} IN
  /\ \A i \in tags : doc.text[i].k = "close" =>
       OpenAt(i) # <<>> /\ Last(OpenAt(i)) = doc.text[i].n
  /\ OpenAt(n + 1) = <<>>
  /\ \E i \in tags : \A j \in 1..n :
       IF j < i THEN ~IsTag(doc.text[j])
       ELSE j = i \/ OpenAt(j) # <<>> \/ doc.text[j].k = "comment"
  /\ \A j \in 1..n : doc.text[j].k \notin {"bad", "badprolog"}
  /\ \A j \in 1..n : doc.text[j].k \in {"text", "cdata"} => OpenAt(j) # <<>>

\* A text stands on its own: the last tag before it is not followed by
\* another text or section.
OneText ==
  \A j \in DOMAIN doc.text : IsText(doc.text[j]) =>
    \A i \in 1..(j - 1) : doc.text[i].k \in {"text", "cdata"} =>
      \E m \in (i + 1)..(j - 1) : IsTag(doc.text[m])

\* What element i says: the last text between its start and the next tag.
TextIn(i) ==
  LET own == {j \in (i + 1)..Len(doc.text) :
                /\ doc.text[j].k \in {"text", "cdata"}
                /\ \A m \in (i + 1)..j : ~IsTag(doc.text[m])}
  IN  IF own = {} \/ doc.text[i].k = "single" THEN NoText
      ELSE LET p == doc.text[CHOOSE j \in own : \A m \in own : m <= j]
           IN  IF IsText(p) THEN htmlDecode(p.v) ELSE p.v

PathOf(i) == [k \in 1..(Len(OpenAt(i)) + 1) |->
                IF k <= Len(OpenAt(i)) THEN OpenAt(i)[k][2] ELSE doc.text[i].n[2]]
Written(path) ==
  LET at == SelectSeq([i \in DOMAIN doc.text |-> i],
                      LAMBDA i : Starts(doc.text[i]) /\ PathOf(i) = path)
  IN  [k \in DOMAIN at |-> TextIn(at[k])]
Built(path) ==
  LET at == FoldLeft(LAMBDA bs, tag : FlattenSeq([k \in DOMAIN bs |-> find_child(bs[k], tag)]),
                     root.body, Tail(path))
  IN  [k \in DOMAIN at |-> at[k].text]

\* Parsing a well-formed document gives its tree: at every path the bodies
\* are the elements written there, each once, in the order of the document
\* and each with its own text, though children of one tag share a node and
\* the tree is built from events that do not name the parent.
TreeIsDocument ==
  done = "true" /\ WellFormed /\ OneText =>
    \A path \in {PathOf(i) : i \in {j \in DOMAIN doc.text : Starts(doc.text[j])}} :
      root.tag = path[1] /\ Built(path) = Written(path)

\* The reader's stack and the builder's stay in step in any text, well-formed
\* or not, up to the point where it is refused: the node that takes texts and
\* children is that of the innermost open element.
InStep ==
  done \in {"parsing", "true"} =>
    /\ Len(parents) = Len(contexts)
    /\ cur_node.tag = IF contexts = <<>> THEN "" ELSE Last(contexts)[2]
    /\ \A i \in 2..Len(parents) : parents[i].tag = contexts[i - 1][2]

\* The files a client is given are those the server listed with status 200
\* in a multistatus, in that order; from a text that is not one, none.
FilesAreListed == done = "listed" => files = doc.files

\* Where the loop leaves a well-formed document early, at the comment "xml
\* end" (KXml.cpp), the document has ended.
EndsAtEnd == done = "true" /\ WellFormed => contexts = <<>>

\* endElement asserts that the root it sets is the first one.
RootOnce == ~failed
=============================================================================
