------------------------------ MODULE Registry ------------------------------
(***************************************************************************)
(* The parser of resin.conf (src/srun/registry.c): cse_parse reads a file   *)
(* into a tree of registry_t nodes linked by parent, next, prev, first and   *)
(* last, and a resin:include element is replaced in the middle of the parse  *)
(* by what the parser makes of another file.                                *)
(*                                                                          *)
(* A step reads one piece of a file: a tag with its attributes, an end tag,  *)
(* text, or a comment, processing instruction or doctype.  The pieces are    *)
(* chosen while they are read, from those that the grammar of a family       *)
(* allows in the current element, so every file of the family is read, and   *)
(* every file it may include.                                               *)
(*                                                                          *)
(* A pointer is an index in nodes, 0 is NULL.  Strings are sequences of      *)
(* one-character strings.                                                   *)
(***************************************************************************)
EXTENDS Integers, Sequences, SequencesExt, FiniteSets

CONSTANTS
  Families,   \* for each family of files a record [grammar, max]: grammar[key]
              \*   is the set of pieces that may stand in an element of that key,
              \*   max bounds the pieces read
  MaxFiles,   \* bound on the files that are open at the same time
  Capacity    \* is.capacity at the start of a file, 1024 in the code

Null == <<"NULL">>        \* a char * without a string
Junk == "junk"            \* a character of memory that was never written
Unclear == <<"unclear">>  \* history: text whose meaning is left open
Include == "resin:include"
IsSpace(s) == \A i \in 1 .. Len(s) : s[i] = " "

\* Pieces of a file.
Tag(key, attrs) == [t |-> "tag", key |-> key, attrs |-> attrs]       \* <key ...>
EmptyTag(key, attrs) == [t |-> "empty", key |-> key, attrs |-> attrs] \* <key .../>
EndTag == [t |-> "end"]
Text(chars) == [t |-> "text", chars |-> chars]
Comment == [t |-> "comment"]     \* also <? ?> and <!DOCTYPE >
Unclosed == [t |-> "unclosed"]   \* one of them that reaches the end of file
Malformed == [t |-> "malformed"] \* a tag that parse_tag or parse_end_tag refuses

Char == STRING \ {"NULL", Junk, "unclear"}
Piece ==
  [t : {"tag", "empty"}, key : STRING, attrs : Seq(STRING \X Seq(Char))]
    \cup [t : {"text"}, chars : Seq(Char)]
    \cup [t : {"end", "comment", "unclosed", "malformed"}]

ASSUME RegistryAssumption ==
  /\ MaxFiles \in Nat \ {0} /\ Capacity \in Nat /\ Capacity > 2
  /\ \A f \in DOMAIN Families : \A key \in DOMAIN Families[f].grammar :
       Families[f].grammar[key] \subseteq Piece

VARIABLES
  family,      \* what the files are made of
  nodes,       \* the registry_t nodes allocated so far
  frames,      \* the calls of cse_parse, the innermost last
  phase,       \* "parse", "parsed", "refused" (cse_parse returned 0), "crashed"
  error,       \* config->error is set
  read,        \* number of pieces read
  \* history
  up,          \* up[n]: the element in which node n is written
  said,        \* said[n]: the value of n as it is written
  gone,        \* nodes that an include replaced or that nothing refers to
  headInclude  \* some file was included as the first child of an element

history == <<up, said, gone, headInclude>>
regVars == <<family, nodes, frames, phase, error, read, history>>

-----------------------------------------------------------------------------
(* Nodes.                                                                   *)

NewNode(key) == [parent |-> 0, next |-> 0, prev |-> 0, first |-> 0, last |-> 0,
                 key |-> key, value |-> Null]

\* The node p and those that follow it.
Chain(ns, p) ==
  LET upto[k \in 0 .. Len(ns)] ==
        IF k = 0 THEN <<p>>
        ELSE LET c == upto[k - 1]
             IN IF ns[Last(c)].next = 0 THEN c ELSE Append(c, ns[Last(c)].next)
  IN IF p = 0 THEN <<>> ELSE upto[Len(ns)]

\* cse_next_link: the first of these nodes with a key.
NextLink(ns, p, key) ==
  LET chain == Chain(ns, p)
      hits == {i \in 1 .. Len(chain) : ns[chain[i]].key = key}
  IN IF hits = {} THEN 0 ELSE chain[CHOOSE i \in hits : \A j \in hits : i <= j]

\* cse_find_value.
FindValue(ns, p, key) ==
  IF NextLink(ns, p, key) = 0 THEN Null ELSE ns[NextLink(ns, p, key)].value

\* registry_add.
RegistryAdd(ns, node, key) ==
  LET new == Len(ns) + 1
      last == ns[node].last
  IN Append(IF last # 0 THEN [ns EXCEPT ![last].next = new, ![node].last = new]
                        ELSE [ns EXCEPT ![node].first = new, ![node].last = new],
            [NewNode(key) EXCEPT !.parent = node, !.prev = last])

-----------------------------------------------------------------------------
(* Files.                                                                   *)

\* A call of cse_parse that has read nothing.  inc is the resin:include that
\* asks for the file, or 0; context the key whose grammar holds at its top.
Frame(root, inc, context) ==
  [root |-> root, node |-> root, inc |-> inc, context |-> context,
   buf |-> <<>>, cap |-> Capacity, spaceOnly |-> TRUE,
   run |-> <<>>, fresh |-> FALSE, atEnd |-> FALSE]

Top == Last(frames)
SetTop(f) == frames' = [frames EXCEPT ![Len(frames)] = f]

Context(ns, f) == IF f.node = f.root THEN f.context ELSE ns[f.node].key

\* Variant of BufAppend: the buffer does not grow.
BufAppendFull(f, ch) == [f EXCEPT !.buf = Append(@, ch)]

\* buf_append: a larger buffer does not get the characters of the old one.
BufAppend(f, ch) ==
  IF Len(f.buf) + 2 >= f.cap
  THEN [f EXCEPT !.cap = 2 * @, !.buf = [i \in 1 .. Len(@) |-> Junk] \o <<ch>>]
  ELSE [f EXCEPT !.buf = Append(@, ch)]

\* Characters one after the other.
Buffered(f, chars) ==
  LET upto[k \in 0 .. Len(chars)] ==
        IF k = 0 THEN f ELSE BufAppend(upto[k - 1], chars[k])
  IN upto[Len(chars)]

Collected(f, chars) == Buffered([f EXCEPT !.buf = <<>>], chars)

\* parse_attribute: id is the value of the element itself.  st is a record of the
\* nodes, the frame and, as history, of what is said in the nodes.
AddAttribute(st, elem, a) ==
  LET own == a[1] = "id"
      f == Collected(st.f, a[2])
      ns == IF own THEN st.ns ELSE RegistryAdd(st.ns, elem, a[1])
      attr == IF own THEN elem ELSE Len(ns)
  IN [ns |-> [ns EXCEPT ![attr].value = f.buf], f |-> f,
      said |-> IF own THEN [st.said EXCEPT ![elem] = a[2]] ELSE Append(st.said, a[2])]

\* parse_tag: the element and its attributes.  Names are short.
AddElement(ns, f, piece, s) ==
  LET upto[k \in 0 .. Len(piece.attrs)] ==
        IF k = 0 THEN [ns |-> RegistryAdd(ns, f.node, piece.key), f |-> f,
                       said |-> Append(s, Null)]
        ELSE AddAttribute(upto[k - 1], Len(ns) + 1, piece.attrs[k])
  IN [upto[Len(piece.attrs)] EXCEPT !.f.buf = <<>>]

\* Variant of Settled: text is taken for a value although there is an id.
SettledAlways(ns, f) ==
  IF ~f.spaceOnly /\ ns[f.node].first = 0
  THEN [ns EXCEPT ![f.node].value = f.buf] ELSE ns

\* cse_parse at '<': the text so far is the value of an element that has neither
\* a value nor a child.
Settled(ns, f) ==
  IF ~f.spaceOnly /\ ns[f.node].value = Null /\ ns[f.node].first = 0
  THEN [ns EXCEPT ![f.node].value = f.buf] ELSE ns

SettledBuf(f) == IF f.spaceOnly THEN <<>> ELSE f.buf

\* History: what is written as text of an element between its tag and the next
\* piece is its value; other text is not given a meaning here.  Space says nothing
\* unless it is too long for the buffer.
Says(f) ==
  IF IsSpace(f.run) /\ Len(f.run) + 2 <= Capacity THEN said
  ELSE [said EXCEPT ![f.node] =
          IF f.fresh /\ @ = Null /\ nodes[f.node].first = 0 THEN f.run ELSE Unclear]

\* History: the element in which what is read now is written.
Home(f) == IF f.node = f.root /\ f.inc # 0 THEN up[f.inc] ELSE f.node

-----------------------------------------------------------------------------

Init ==
  /\ family \in DOMAIN Families
  /\ nodes = <<NewNode("")>> /\ frames = <<Frame(1, 0, "")>>
  /\ phase = "parse" /\ error = FALSE /\ read = 0
  /\ up = <<0>> /\ said = <<Null>> /\ gone = {} /\ headInclude = FALSE

Grammar == Families[family].grammar

\* The pieces that may come next.
Ahead ==
  IF /\ phase = "parse" /\ ~Top.atEnd /\ read < Families[family].max
     /\ Context(nodes, Top) \in DOMAIN Grammar
  THEN Grammar[Context(nodes, Top)] ELSE {}

Reads(piece) == piece \in Ahead /\ read' = read + 1

\* parse_include, up to the nested cse_parse: the last child of the current
\* element is a resin:include with a href, and the file can be opened.
Wants(ns, node) ==
  LET inc == ns[node].last
  IN inc # 0 /\ ns[inc].key = Include /\ FindValue(ns, ns[inc].first, "href") \notin {Null, <<>>}

\* After a tag: f is the frame that read it, ns the nodes it has left, u and s
\* their history.
AfterTag(f, ns, u, s) ==
  \/ /\ nodes' = ns /\ up' = u /\ said' = s
     /\ frames' = [frames EXCEPT ![Len(frames)] = f]
  \/ /\ Wants(ns, f.node) /\ Len(frames) < MaxFiles
     /\ LET root == Len(ns) + 1
        IN /\ nodes' = Append(ns, NewNode("")) /\ up' = Append(u, 0)
           /\ said' = Append(s, Null)
           /\ frames' = Append([frames EXCEPT ![Len(frames)] = f],
                               Frame(root, ns[f.node].last, Context(ns, f)))

\* cse_parse at a tag: parse_tag, and parse_include of an element without content.
ReadTag(piece) ==
  /\ Reads(piece) /\ piece.t \in {"tag", "empty"}
  /\ LET elem == Len(nodes) + 1
         st == AddElement(Settled(nodes, Top), Top, piece, Says(Top))
         f == [st.f EXCEPT !.node = IF piece.t = "tag" THEN elem ELSE @,
                           !.run = <<>>, !.fresh = piece.t = "tag"]
         u == [n \in 1 .. Len(st.ns) |-> IF n < elem THEN up[n]
                                         ELSE IF n = elem THEN Home(Top) ELSE elem]
     IN AfterTag(f, st.ns, u, st.said)
  /\ UNCHANGED <<family, phase, error, gone, headInclude>>

\* parse_end_tag, which does not look at the name, and parse_include of an
\* element that has just been closed.  The name stays in the buffer.
ReadEndTag ==
  /\ Reads(EndTag) /\ nodes[Top.node].parent # 0
  /\ AfterTag([Top EXCEPT !.node = nodes[Top.node].parent, !.buf = <<"n">>,
                          !.run = <<>>, !.fresh = FALSE],
              Settled(nodes, Top), up, Says(Top))
  /\ UNCHANGED <<family, phase, error, gone, headInclude>>

\* One end tag too many: cse_parse goes on with a null pointer.
ReadSurplusEndTag ==
  /\ Reads(EndTag) /\ nodes[Top.node].parent = 0
  /\ phase' = "crashed"
  /\ UNCHANGED <<family, nodes, frames, error, history>>

\* Characters outside of tags.
ReadText(piece) ==
  /\ Reads(piece) /\ piece.t = "text"
  /\ SetTop([Buffered(Top, piece.chars) EXCEPT
               !.spaceOnly = @ /\ IsSpace(piece.chars), !.run = @ \o piece.chars])
  /\ UNCHANGED <<family, nodes, phase, error, history>>

\* skip_comment, skip_pi, skip_doctype: they leave the buffer alone.
ReadComment(piece) ==
  /\ Reads(piece) /\ piece.t \in {"comment", "unclosed"}
  /\ nodes' = Settled(nodes, Top) /\ said' = Says(Top)
  /\ SetTop([Top EXCEPT !.buf = SettledBuf(Top), !.run = <<>>, !.fresh = FALSE,
                        !.atEnd = piece.t = "unclosed"])
  /\ error' = (error \/ piece.t = "unclosed")
  /\ UNCHANGED <<family, phase, up, gone, headInclude>>

\* cse_parse returns 0.  An include stays in the tree, and so does what was read
\* of the included file in memory.
ReadMalformed ==
  /\ Reads(Malformed)
  /\ error' = TRUE
  /\ IF Top.inc # 0
     THEN /\ frames' = Front(frames) /\ gone' = gone \cup Top.root .. Len(nodes)
          /\ UNCHANGED phase
     ELSE phase' = "refused" /\ UNCHANGED <<frames, gone>>
  /\ UNCHANGED <<family, nodes, up, said, headInclude>>

-----------------------------------------------------------------------------
(* The end of a file.                                                       *)

\* Variant of Splice: the last child of the parent is not moved.
SpliceLast(ns, inc, sub) ==
  LET p == ns[inc].parent
  IN [n \in 1 .. Len(ns) |->
        CASE n = ns[inc].prev -> [ns[n] EXCEPT !.next = ns[sub].first]
          [] n = p -> [ns[n] EXCEPT !.first = IF ns[inc].prev = 0 THEN sub ELSE @]
          [] n = sub -> [ns[n] EXCEPT !.parent = p, !.prev = ns[inc].prev]
          [] n \in Range(Chain(ns, ns[sub].first)) -> [ns[n] EXCEPT !.parent = p]
          [] OTHER -> ns[n]]

\* parse_include, after the nested cse_parse: the children of the included root
\* sub take the place of inc.  As the first child it is sub that takes the place.
Splice(ns, inc, sub) ==
  LET p == ns[inc].parent
  IN [n \in 1 .. Len(ns) |->
        CASE n = ns[inc].prev -> [ns[n] EXCEPT !.next = ns[sub].first]
          [] n = p -> [ns[n] EXCEPT !.first = IF ns[inc].prev = 0 THEN sub ELSE @,
                                    !.last = ns[sub].last]
          [] n = sub -> [ns[n] EXCEPT !.parent = p, !.prev = ns[inc].prev]
          [] n \in Range(Chain(ns, ns[sub].first)) -> [ns[n] EXCEPT !.parent = p]
          [] OTHER -> ns[n]]

EndOfInclude ==
  /\ phase = "parse" /\ Top.inc # 0
  /\ frames' = Front(frames)
  /\ IF nodes[Top.root].first # 0
     THEN /\ nodes' = Splice(nodes, Top.inc, Top.root)
          /\ gone' = gone \cup {Top.root, Top.inc}
                       \cup {n \in 1 .. Len(nodes) : up[n] = Top.inc}
          /\ headInclude' = (headInclude \/ nodes[Top.inc].prev = 0)
     ELSE gone' = gone \cup {Top.root} /\ UNCHANGED <<nodes, headInclude>>
  /\ UNCHANGED <<family, phase, error, read, up, said>>

\* Elements that are not closed go unnoticed.
EndOfFile ==
  /\ phase = "parse" /\ Top.inc = 0
  /\ phase' = "parsed"
  /\ UNCHANGED <<family, nodes, frames, error, read, history>>

Parses ==
  \/ \E piece \in Ahead : ReadTag(piece) \/ ReadText(piece) \/ ReadComment(piece)
  \/ ReadEndTag \/ ReadSurplusEndTag \/ ReadMalformed
  \/ EndOfInclude \/ EndOfFile

-----------------------------------------------------------------------------
(* Properties.                                                              *)

\* Links lead to nodes, and a token fits its buffer with the 0 behind it.
RegistryTypeOK ==
  /\ \A n \in 1 .. Len(nodes) :
       {nodes[n].parent, nodes[n].next, nodes[n].prev, nodes[n].first, nodes[n].last}
         \subseteq 0 .. Len(nodes)
  /\ Len(up) = Len(nodes) /\ Len(said) = Len(nodes)
  /\ gone \subseteq 1 .. Len(nodes)
  /\ \A i \in 1 .. Len(frames) : Len(frames[i].buf) < frames[i].cap

\* History: the children of an element as they are written.  Nodes have numbers
\* in the order in which they are read.
Children(n) == {c \in 1 .. Len(nodes) : up[c] = n /\ c \notin gone}

\* The sequence lists a set of nodes in order.
InOrder(s, S) == Range(s) = S /\ \A i, j \in 1 .. Len(s) : i < j => s[i] < s[j]

AsWritten ==
  \A n \in 1 .. Len(nodes) \ gone :
    LET chain == Chain(nodes, nodes[n].first)
    IN /\ InOrder(chain, Children(n))
       /\ nodes[n].last = IF chain = <<>> THEN 0 ELSE Last(chain)
       /\ \A c \in Children(n) : nodes[c].parent = n

\* Between two pieces of the main file the links of the tree give every element
\* exactly the children that are written in it, in order, those of included
\* files in place of the resin:include, whatever was included where, closed or
\* missing; for the includes that parse_include handles, those with an element
\* or attribute before them.
TreeAsWritten == Len(frames) = 1 /\ ~headInclude => AsWritten

\* The same for every include: "Now insert the included configuration in place
\* of the resin:include" (parse_include).
IncludedInPlace == Len(frames) = 1 => AsWritten

\* The value of an element is its id, or the text right behind its tag up to the
\* next tag or comment: whole, if it fits the buffer, and with nothing in it of
\* what buf_append collected for earlier text, names or attributes.  An element
\* without either has no value but space.
ValueWhole ==
  \A n \in 1 .. Len(nodes) \ gone :
    /\ said[n] = Null => nodes[n].value = Null \/ IsSpace(nodes[n].value)
    /\ said[n] \notin {Null, Unclear} /\ Len(said[n]) + 2 <= Capacity =>
         nodes[n].value = said[n]

=============================================================================
