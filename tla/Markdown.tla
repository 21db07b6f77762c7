------------------------------ MODULE Markdown ------------------------------
(***************************************************************************)
(* The markdown of a chat message (agent/markdown): blocks line by line,   *)
(* inline marks, and the tree that is shown, while the text streams in.    *)
(* The text is a sequence of tokens: "w" is a word, "(u)" the target of a  *)
(* link, "nl" ends a line and every other token is the character it is.    *)
(* Escapes, entities, autolinks, titles and the columns' alignment are     *)
(* left out.                                                               *)
(***************************************************************************)
EXTENDS Integers, Sequences
LOCAL INSTANCE SequencesExt
LOCAL INSTANCE FiniteSetsExt

CONSTANTS
    Alphabets,      \* sets of deltas, each a sequence of tokens
    MaxDeltas       \* bound: how many deltas a reply has

ASSUME MarkdownAssumption == MaxDeltas \in Nat

VARIABLES
    alphabet,       \* what this reply is made of
    reply,          \* the text so far: ToolTurn.content
    deltas          \* how many deltas came

markdownVars == <<alphabet, reply, deltas>>

----------------------------------------------------------------------------
(* A line is a sequence of [tok, at]: the token and its place in the text. *)

Skip(s, n) == SubSeq(s, n + 1, Len(s))
AllIn(s, toks) == \A i \in DOMAIN s : s[i].tok \in toks
Has(s, tok) == \E i \in DOMAIN s : s[i].tok = tok
StartsWith(s, tok) == s # <<>> /\ s[1].tok = tok
EndsWith(s, tok) == s # <<>> /\ s[Len(s)].tok = tok
FirstIn(places, none) == IF places = {} THEN none ELSE Min(places)

\* How many tokens tok s begins with.
Lead(s, tok) == FirstIn({i \in DOMAIN s : s[i].tok # tok}, Len(s) + 1) - 1
TrimStart(s) == Skip(s, Lead(s, " "))
TrimEnd(s) == Reverse(TrimStart(Reverse(s)))
TrimLine(s) == TrimEnd(TrimStart(s))
IsBlank(line) == AllIn(line, {" "})

\* text.lines(): a last line that is empty is none.
LinesOf(text) ==
    LET whole == [i \in DOMAIN text |-> [tok |-> text[i], at |-> i]]
        step(lines, c) == IF c.tok = "nl" THEN Append(lines, <<>>) ELSE Append(Front(lines), Append(Last(lines), c))
        lines == FoldLeft(step, <<<<>>>>, whole)
    IN IF Last(lines) = <<>> THEN Front(lines) ELSE lines

----------------------------------------------------------------------------
(* Events: [kind, tag, at].  Start and End enclose what a tag holds.       *)

StartTag(tag) == [kind |-> "start", tag |-> tag, at |-> 0]
EndTag == [kind |-> "end", tag |-> "", at |-> 0]
Leaf(tag, at) == [kind |-> "leaf", tag |-> tag, at |-> at]
Wrap(tag, events) == <<StartTag(tag)>> \o events \o <<EndTag>>
TextLeaves(s) == [i \in DOMAIN s |-> Leaf("text", s[i].at)]
FlattenLines(lines) == FlattenSeq([k \in DOMAIN lines |-> TextLeaves(lines[k])])

----------------------------------------------------------------------------
(* Inline marks (inline.rs).                                               *)

Spaces == {" ", "nl"}
Punctuation == {"-", ">", "#", ".", "tick", "~", "*", "_", "|", "[", "]", "!", "(u)"}

NodeOf(events) == [delim |-> "", n |-> 0, opens |-> FALSE, closes |-> FALSE, events |-> events]
TextNode(buf) == IF buf = <<>> THEN <<>> ELSE <<NodeOf(TextLeaves(buf))>>

\* find_code_close: the next run of exactly n backticks.
CodeCloses(s, n) ==
    {i \in DOMAIN s : s[i].tok = "tick" /\ (i = 1 \/ s[i - 1].tok # "tick") /\ Lead(Skip(s, i - 1), "tick") = n}

\* parse_link: where the bracket that is open before s is closed, if a target follows.
BracketCloses(s) ==
    LET depth(j) == Cardinality({i \in 1..j : s[i].tok = "["}) - Cardinality({i \in 1..j : s[i].tok = "]"})
        j == FirstIn({i \in DOMAIN s : depth(i) < 0}, 0)
    IN IF j > 0 /\ j < Len(s) /\ s[j + 1].tok = "(u)" THEN j ELSE 0

\* A run may open before what is no space and close after what is none; "_" not
\* within a word.
Delim(ch, n, prev, next) ==
    [delim |-> ch, n |-> n, events |-> <<>>,
     opens |-> next \notin Spaces /\ (ch # "_" \/ prev \in Spaces \cup Punctuation),
     closes |-> prev \notin Spaces /\ (ch # "_" \/ next \in Spaces \cup Punctuation)]

Frame(ch, n, events) == [delim |-> ch, n |-> n, events |-> events]
Literal(frame) == [i \in 1..frame.n |-> Leaf("text", 0)] \o frame.events

\* Mutant of DemoteAbove: what an unpaired mark held goes with it.
MutDemoteAbove(stack, fi) ==
    LET above == [k \in 1..(Len(stack) - fi) |-> [i \in 1..stack[fi + k].n |-> Leaf("text", 0)]]
    IN Append(SubSeq(stack, 1, fi - 1), [stack[fi] EXCEPT !.events = @ \o FlattenSeq(above)])

\* demote_above: the frames above fi become the text that they are.
DemoteAbove(stack, fi) ==
    LET above == [k \in 1..(Len(stack) - fi) |-> Literal(stack[fi + k])]
    IN Append(SubSeq(stack, 1, fi - 1), [stack[fi] EXCEPT !.events = @ \o FlattenSeq(above)])

PushEvents(stack, events) == Append(Front(stack), [Last(stack) EXCEPT !.events = @ \o events])

\* The frames of a mark that a run can close.
Openers(stack, ch) == {k \in DOMAIN stack : stack[k].delim = ch /\ (ch # "~" \/ stack[k].n >= 2)}

\* The last frame is closed with so many marks.
Paired(stack, frame, take) ==
    LET node == Wrap(IF frame.delim = "~" THEN "del" ELSE IF take = 2 THEN "strong" ELSE "em", frame.events)
    IN IF frame.n > take THEN Append(stack, Frame(frame.delim, frame.n - take, node)) ELSE PushEvents(stack, node)

RECURSIVE CloseRun(_, _, _)
\* A run that closes takes two marks of the nearest opener, or one.
CloseRun(stack, ch, left) ==
    IF left = 0 \/ Openers(stack, ch) = {} \/ (ch = "~" /\ left < 2) THEN [stack |-> stack, left |-> left]
    ELSE LET fi == Max(Openers(stack, ch))
             take == IF ch # "~" /\ (stack[fi].n < 2 \/ left < 2) THEN 1 ELSE 2
             close(demoted) == Paired(Front(demoted), Last(demoted), take)
         IN CloseRun(close(DemoteAbove(stack, fi)), ch, left - take)

\* What is left of a run opens, or is text.
PushRest(closed, item) ==
    LET rest == Frame(item.delim, closed.left, <<>>)
    IN IF closed.left = 0 THEN closed.stack
       ELSE IF item.opens THEN Append(closed.stack, rest)
       ELSE PushEvents(closed.stack, Literal(rest))

\* resolve: the runs are paired, and a run that finds no partner is text.
Resolve(items) ==
    LET step(stack, item) ==
            IF item.delim = "" THEN PushEvents(stack, item.events)
            ELSE PushRest(IF item.closes THEN CloseRun(stack, item.delim, item.n) ELSE [stack |-> stack, left |-> item.n],
                          item)
    IN DemoteAbove(FoldLeft(step, <<Frame("", 0, <<>>)>>, items), 1)[1].events

RECURSIVE Scan(_, _, _)
\* scan: prev is the token before s, and buf the text since the last item.
Scan(prev, s, buf) ==
    IF s = <<>> THEN TextNode(buf)
    ELSE
    LET ch == s[1].tok
        run == Lead(s, ch)
        after == Skip(s, run)
        next == IF after = <<>> THEN "nl" ELSE after[1].tok
        close == FirstIn(CodeCloses(after, run), 0)
        image == ch = "!" /\ StartsWith(Tail(s), "[")
        inside == IF image THEN Skip(s, 2) ELSE Tail(s)
        bracket == IF image \/ ch = "[" THEN BracketCloses(inside) ELSE 0
        hard == Len(buf) >= 2 /\ EndsWith(buf, " ") /\ EndsWith(Front(buf), " ")
        delim == Delim(ch, run, prev, next)
        literal(n) == Scan(s[n].tok, Skip(s, n), buf \o SubSeq(s, 1, n))
    IN CASE ch = "nl" ->
              TextNode(TrimEnd(buf)) \o <<NodeOf(<<Leaf(IF hard THEN "br" ELSE "soft", 0)>>)>>
                \o Scan("nl", TrimStart(Tail(s)), <<>>)
         [] ch = "tick" /\ close > 0 ->
              TextNode(buf) \o <<NodeOf(Wrap("code", TextLeaves(SubSeq(after, 1, close - 1))))>>
                \o Scan("tick", Skip(after, close - 1 + run), <<>>)
         [] ch \in {"*", "_", "~"} /\ (ch # "~" \/ run >= 2) /\ (delim.opens \/ delim.closes) ->
              TextNode(buf) \o <<delim>> \o Scan(ch, after, <<>>)
         [] bracket > 0 ->
              TextNode(buf)
                \o <<NodeOf(Wrap(IF image THEN "image" ELSE "link", Resolve(Scan("nl", SubSeq(inside, 1, bracket - 1), <<>>))))>>
                \o Scan("(u)", Skip(inside, bracket + 1), <<>>)
         [] OTHER -> literal(IF ch \in {"tick", "*", "_", "~"} THEN run ELSE 1)

Inline(s) == Resolve(Scan("nl", s, <<>>))

----------------------------------------------------------------------------
(* Blocks (block.rs).                                                      *)

\* fence_open: three or more, and no backtick behind backticks.
FenceOf(line) ==
    LET t == TrimStart(line) IN [ch |-> IF t = <<>> THEN "" ELSE t[1].tok, n |-> IF t = <<>> THEN 0 ELSE Lead(t, t[1].tok)]
OpensFence(line) ==
    LET f == FenceOf(line)
    IN f.ch \in {"tick", "~"} /\ f.n >= 3 /\ ~(f.ch = "tick" /\ Has(Skip(TrimStart(line), f.n), "tick"))
ClosesFence(line, fence) ==
    LET t == TrimStart(line) IN Lead(t, fence.ch) >= fence.n /\ IsBlank(Skip(t, Lead(t, fence.ch)))

IsHeading(t) == Lead(t, "#") \in 1..6 /\ (Len(t) = Lead(t, "#") \/ t[Lead(t, "#") + 1].tok = " ")
\* atx_heading: a closing run is dropped if it stands alone.
HeadingText(t) ==
    LET content == TrimLine(Skip(t, Lead(t, "#")))
        stripped == SubSeq(content, 1, Len(content) - Lead(Reverse(content), "#"))
    IN IF stripped = <<>> \/ EndsWith(stripped, " ") THEN TrimEnd(stripped) ELSE content

IsRule(t) == \E ch \in {"-", "_", "*"} : AllIn(t, {ch, " "}) /\ Cardinality({i \in DOMAIN t : t[i].tok = ch}) >= 3

\* list_marker: whether the line is an item, of which kind, and where its text begins.
Marker(line) ==
    LET indent == Lead(line, " ")
        t == TrimStart(line)
        width == IF t # <<>> /\ t[1].tok \in {"-", "*"} THEN 1
                 ELSE IF Len(t) > 1 /\ t[1].tok = "1" /\ t[2].tok = "." THEN 2 ELSE 0
        after == Skip(t, width)
    IN [is |-> indent <= 3 /\ width > 0 /\ (after = <<>> \/ StartsWith(after, " ")),
        ordered |-> width = 2, col |-> indent + width + 1]

RECURSIVE SplitCells(_, _, _, _)
\* A "|" in a code span does not split.
SplitCells(s, cell, cells, code) ==
    IF s = <<>> THEN Append(cells, TrimLine(cell))
    ELSE IF s[1].tok = "tick"
    THEN LET run == Lead(s, "tick")
         IN SplitCells(Skip(s, run), cell \o SubSeq(s, 1, run), cells,
                       IF code = 0 THEN run ELSE IF code = run THEN 0 ELSE code)
    ELSE IF s[1].tok = "|" /\ code = 0 THEN SplitCells(Tail(s), <<>>, Append(cells, TrimLine(cell)), code)
    ELSE SplitCells(Tail(s), Append(cell, s[1]), cells, code)

\* split_row: the outer cells go if they are empty.
RowCells(line) ==
    LET behind(cells) == IF cells[1] = <<>> THEN Tail(cells) ELSE cells
        within(cells) == IF cells # <<>> /\ Last(cells) = <<>> THEN Front(cells) ELSE cells
    IN within(behind(SplitCells(TrimLine(line), <<>>, <<>>, 0)))

AreDelimiters(cells) ==
    cells # <<>> /\ \A k \in DOMAIN cells : cells[k] # <<>> /\ AllIn(cells[k], {"-"})
StartsTable(lines) ==
    /\ Has(lines[1], "|") /\ Len(lines) > 1 /\ Has(lines[2], "|")
    /\ \E cells \in {RowCells(lines[2])} : AreDelimiters(cells) /\ Len(RowCells(lines[1])) = Len(cells)

\* What the first line begins; the first that holds.
BlockKinds == <<"blank", "fence", "code", "heading", "rule", "quote", "table", "list", "paragraph">>
Begins(kind, lines) ==
    LET line == lines[1]
        t == TrimStart(line)
        indent == Lead(line, " ")
    IN CASE kind = "blank" -> t = <<>>
         [] kind = "fence" -> indent <= 3 /\ OpensFence(line)
         [] kind = "code" -> indent >= 4
         [] kind = "heading" -> IsHeading(t)
         [] kind = "rule" -> IsRule(t)
         [] kind = "quote" -> StartsWith(t, ">")
         [] kind = "table" -> StartsTable(lines)
         [] kind = "list" -> Marker(line).is
         [] kind = "paragraph" -> TRUE
KindOf(lines) == BlockKinds[Min({k \in DOMAIN BlockKinds : Begins(BlockKinds[k], lines)})]

\* How many lines come before the first of the places.
Before(places, lines) == FirstIn(places, Len(lines) + 1) - 1

\* Blank lines at the end of an item or of indented code are not part of it.
DropBlankEnd(lines) ==
    SubSeq(lines, 1, Max({0} \cup {k \in DOMAIN lines : lines[k] # <<>>}))
Unindented(line, n) == IF IsBlank(line) THEN <<>> ELSE Skip(line, n)

\* parse_fence: an open fence takes the rest of the text.
FenceBlock(lines) ==
    LET indent == Lead(lines[1], " ")
        body == Tail(lines)
        n == Before({k \in DOMAIN body : ClosesFence(body[k], FenceOf(lines[1]))}, body)
        strip(line) == Skip(line, IF Lead(line, " ") < indent THEN Lead(line, " ") ELSE indent)
    IN [events |-> Wrap("pre", FlattenLines([k \in 1..n |-> strip(body[k])])), rest |-> Skip(body, n + 1)]

\* parse_indented_code.
CodeBlock(lines) ==
    LET n == Before({k \in DOMAIN lines : ~IsBlank(lines[k]) /\ Lead(lines[k], " ") < 4}, lines)
    IN [events |-> Wrap("pre", FlattenLines(DropBlankEnd([k \in 1..n |-> Unindented(lines[k], 4)]))),
        rest |-> Skip(lines, n)]

\* parse_table: a row has as many cells as the table has columns.
TableBlock(lines) ==
    LET columns == Len(RowCells(lines[1]))
        n == Before({k \in 3..Len(lines) : IsBlank(lines[k]) \/ ~Has(lines[k], "|")}, lines)
        row(tag, cells) ==
            Wrap(tag, FlattenSeq([c \in 1..columns |-> Wrap("cell", IF c <= Len(cells) THEN Inline(cells[c]) ELSE <<>>)]))
    IN [events |-> Wrap("table", FlattenSeq([k \in 1..n |-> IF k = 2 THEN <<>>
                                                             ELSE row(IF k = 1 THEN "head" ELSE "row", RowCells(lines[k]))])),
        rest |-> Skip(lines, n)]

\* parse_paragraph: until a blank line or what interrupts it; indented code does not.
ParagraphBlock(lines) ==
    LET n == Before({k \in 2..Len(lines) : KindOf(Skip(lines, k - 1)) \notin {"code", "paragraph"}}, lines)
        text == FlattenSeq([k \in 1..n |-> IF k = 1 THEN TrimStart(lines[1]) ELSE <<[tok |-> "nl", at |-> 0]>> \o lines[k]])
    IN [events |-> Wrap("p", Inline(text)), rest |-> Skip(lines, n)]

\* strip_item_paragraphs: a paragraph of an item holds its text without a <p>;
\* a second one that follows stands after a break.
StrippedItem(events) ==
    LET step(s, e) ==
            IF e.kind = "start" /\ e.tag = "p" /\ s.depth = 0
            THEN [out |-> IF s.pending THEN Append(s.out, Leaf("br", 0)) ELSE s.out, depth |-> 1, within |-> TRUE, pending |-> FALSE]
            ELSE IF e.kind = "end" /\ s.depth = 1 /\ s.within
            THEN [s EXCEPT !.depth = 0, !.within = FALSE, !.pending = TRUE]
            ELSE [s EXCEPT !.out = Append(@, e), !.pending = @ /\ s.depth > 0,
                           !.depth = CASE e.kind = "start" -> @ + 1 [] e.kind = "end" -> @ - 1 [] OTHER -> @]
    IN FoldLeft(step, [out |-> <<>>, depth |-> 0, within |-> FALSE, pending |-> FALSE], events).out

RECURSIVE ParseBlocks(_)

\* parse_quote: every line must carry the mark.
QuoteBlock(lines) ==
    LET n == Before({k \in DOMAIN lines : ~StartsWith(TrimStart(lines[k]), ">")}, lines)
        bare(line) == LET t == Tail(TrimStart(line)) IN IF StartsWith(t, " ") THEN Tail(t) ELSE t
    IN [events |-> Wrap("quote", FlattenSeq(ParseBlocks([k \in 1..n |-> bare(lines[k])]))), rest |-> Skip(lines, n)]

RECURSIVE ItemsOf(_, _)
\* parse_list: the items of one kind, each with the lines that are indented for it.
ItemsOf(lines, ordered) ==
    IF lines = <<>> \/ ~Marker(lines[1]).is \/ Marker(lines[1]).ordered # ordered
    THEN [events |-> <<>>, rest |-> lines]
    ELSE LET col == Marker(lines[1]).col
             body == Tail(lines)
             n == Before({k \in DOMAIN body : ~IsBlank(body[k]) /\ Lead(body[k], " ") < col}, body)
             item == DropBlankEnd(<<Skip(lines[1], col)>> \o [k \in 1..n |-> Unindented(body[k], col)])
             others == ItemsOf(Skip(body, n), ordered)
         IN [others EXCEPT !.events = Wrap("item", StrippedItem(FlattenSeq(ParseBlocks(item)))) \o @]
ListBlock(lines) ==
    LET items == ItemsOf(lines, Marker(lines[1]).ordered) IN [items EXCEPT !.events = Wrap("list", @)]

\* parse_blocks: the events of every block, in order.
ParseBlocks(lines) ==
    IF lines = <<>> THEN <<>>
    ELSE LET one(events) == [events |-> events, rest |-> Tail(lines)]
             block(kind) ==
                 CASE kind = "fence" -> FenceBlock(lines)
                   [] kind = "code" -> CodeBlock(lines)
                   [] kind = "heading" -> one(Wrap("heading", Inline(HeadingText(TrimStart(lines[1])))))
                   [] kind = "rule" -> one(<<Leaf("rule", 0)>>)
                   [] kind = "quote" -> QuoteBlock(lines)
                   [] kind = "table" -> TableBlock(lines)
                   [] kind = "list" -> ListBlock(lines)
                   [] kind = "paragraph" -> ParagraphBlock(lines)
             first(b) == <<b.events>> \o ParseBlocks(b.rest)
         IN IF IsBlank(lines[1]) THEN ParseBlocks(Tail(lines)) ELSE first(block(KindOf(lines)))

----------------------------------------------------------------------------
(* The tree that is shown (mod.rs): nodes are [tag, at, kids].             *)

Node(tag, at, kids) == [tag |-> tag, at |-> at, kids |-> kids]
AppendNode(w, node) ==
    IF w.stack = <<>> THEN [w EXCEPT !.root = Append(@, node)]
    ELSE [w EXCEPT !.stack = Append(Front(@), [Last(@) EXCEPT !.kids = Append(@, node)])]

\* A cell of the head is a <th>.
NodeTag(w, tag) == IF tag = "cell" THEN (IF w.head THEN "th" ELSE "td") ELSE tag

\* Writer::end.  An image is its text and a link.
WriterEnd(w) ==
    IF w.stack = <<>> THEN w
    ELSE LET frame == Last(w.stack)
             below == [w EXCEPT !.stack = Front(@), !.head = @ /\ frame.tag # "head"]
             node == Node(frame.tag, 0, frame.kids)
         IN CASE frame.tag = "head" -> AppendNode(below, Node("thead", 0, <<node>>))
              [] frame.tag = "image" -> AppendNode(AppendNode(below, node), Node("anchor", 0, <<>>))
              [] OTHER -> AppendNode(below, node)

WriterStep(w, event) ==
    CASE event.kind = "start" ->
           [w EXCEPT !.stack = Append(@, [tag |-> NodeTag(w, event.tag), kids |-> <<>>]), !.head = @ \/ event.tag = "head"]
      [] event.kind = "end" -> WriterEnd(w)
      [] event.kind = "leaf" -> AppendNode(w, Node(event.tag, event.at, <<>>))

\* render_markdown; what is still open at the end is closed.
RenderMarkdown(text) ==
    LET w == FoldLeft(WriterStep, [stack |-> <<>>, root |-> <<>>, head |-> FALSE], FlattenSeq(ParseBlocks(LinesOf(text))))
    IN FoldLeft(LAMBDA v, i : WriterEnd(v), w, w.stack).root

----------------------------------------------------------------------------
(* A reply streams in and is rendered again with every delta.              *)

MarkdownInit ==
    /\ alphabet \in Alphabets
    /\ reply = <<>>
    /\ deltas = 0

StreamDelta ==
    /\ deltas < MaxDeltas
    /\ deltas' = deltas + 1
    /\ \E delta \in alphabet : reply' = reply \o delta
    /\ UNCHANGED alphabet

MarkdownNext == StreamDelta

----------------------------------------------------------------------------
RECURSIVE PlacesShown(_)
PlacesShown(nodes) ==
    FlattenSeq([k \in DOMAIN nodes |-> IF nodes[k].tag = "text" THEN <<nodes[k].at>> ELSE PlacesShown(nodes[k].kids)])

\* The words of the text, in the order in which they are shown.
WordsShown(nodes, text) == SelectSeq(PlacesShown(nodes), LAMBDA at : at > 0 /\ text[at] = "w")

\* What may be missing: the language of a fence, and cells that a row has too many.
MayBeMissing(text) ==
    {at \in DOMAIN text : \E from \in 1..(at - 1) :
        /\ \A k \in from..at : text[k] # "nl"
        /\ \/ text[from] = "|"
           \/ \E ch \in {"tick", "~"} : from + 2 < at /\ \A k \in from..(from + 2) : text[k] = ch}

\* Up to its last newline the text is made of whole lines.
WholeLines(text) == SubSeq(text, 1, Max({0} \cup {i \in DOMAIN text : text[i] = "nl"}))

OnceInOrder(places, text) ==
    /\ \A i \in 1..(Len(places) - 1) : places[i] < places[i + 1]
    /\ {at \in DOMAIN text : text[at] = "w"} \subseteq {places[i] : i \in DOMAIN places} \cup MayBeMissing(text)

Depth(events, n) ==
    Cardinality({i \in 1..n : events[i].kind = "start"}) - Cardinality({i \in 1..n : events[i].kind = "end"})
Balanced(events) == Depth(events, Len(events)) = 0 /\ \A n \in DOMAIN events : Depth(events, n) >= 0

\* The blocks stay, but the last.
KeepsBlocks(earlier, blocks) == \A b \in 1..(Len(earlier) - 1) : blocks[b] = earlier[b]

(* Whatever a reply mixes, every word of it is shown once and in order     *)
(* ("content is never lost, only unstyled", events.rs), but for a fence's  *)
(* language and surplus cells; the events are balanced ("in balanced pairs *)
(* by construction"); and as the reply goes on, the blocks before the last *)
(* are not touched again, so what the user reads does not change.          *)
RepliesAreShown ==
    /\ OnceInOrder(WordsShown(RenderMarkdown(reply), reply), reply)
    /\ Balanced(FlattenSeq(ParseBlocks(LinesOf(reply))))
    /\ KeepsBlocks(ParseBlocks(LinesOf(WholeLines(reply))), ParseBlocks(LinesOf(reply)))
=============================================================================
