-------------------------- MODULE DocumentPipeline --------------------------
(***************************************************************************)
(* normalize_markdown, normalize_html and normalize_text                   *)
(* (ingestion/normalize.py), one action per kind of line, tag or part they *)
(* read, and what ingest_markdown makes of the result: the document is     *)
(* chunked and the chunks are validated.                                   *)
(***************************************************************************)
EXTENDS Chunker

CONSTANTS Formats,    \* which of the three normalizers the environment uses
          Sizes,      \* tokens on a line
          Levels,     \* heading levels
          MaxLines    \* bound: lines, tags or parts of a document

ASSUME PipelineAssumption ==
  /\ Formats \subseteq {"markdown", "html", "text"}
  /\ Sizes \subseteq Nat /\ Levels \subseteq Nat /\ MaxLines \in Nat

VARIABLES format, blocks, stack, paragraph, inFence, fenced,
          tag,        \* _HTMLToBlocks._current, and its _skip_depth
          read,       \* lines read so far
          content,    \* every token of text the normalizer took in
          chunks, done

reader == <<format, read, content, chunks, done>>
vars == <<format, blocks, stack, paragraph, inFence, fenced, tag, read, content, chunks, done>>

NoParagraph == [text |-> << >>, clause |-> FALSE]
NoTag == [kind |-> "none", level |-> 0, skip |-> 0]

Init ==
  /\ format \in Formats
  /\ blocks = << >> /\ stack = << >> /\ paragraph = NoParagraph
  /\ inFence = FALSE /\ fenced = << >> /\ tag = NoTag
  /\ read = 0 /\ content = << >> /\ chunks = << >> /\ done = FALSE

----------------------------------------------------------------------------

Trail(s) == [i \in DOMAIN s |-> s[i].name]

Block(kind, text, path, level) ==
  [kind |-> kind, text |-> text, path |-> path, level |-> level, name |-> read + 1]

\* Mutant: a heading of the same level stays open.
TrimDeeperOnly(level) ==
  LET open == {i \in DOMAIN stack : stack[i].level <= level}
  IN  SubSeq(stack, 1, IF open = {} THEN 0 ELSE Max(open))

\* An H2 closes every open H3: only the ancestors stay.
_trim_heading_path(level) ==
  LET open == {i \in DOMAIN stack : stack[i].level < level}
  IN  SubSeq(stack, 1, IF open = {} THEN 0 ELSE Max(open))

\* flush_paragraph
Flushed ==
  IF paragraph.text = << >> THEN blocks
  ELSE Append(blocks, Block(IF paragraph.clause THEN "CLAUSE" ELSE "PARAGRAPH",
                            paragraph.text, Trail(stack), 0))

NewWords(n) == [i \in 1..n |-> [line |-> read + 1, word |-> i]]

\* One more line is read; n of its words are text.
Read(f, n) ==
  /\ ~done /\ format = f /\ read < MaxLines
  /\ read' = read + 1
  /\ content' = content \o NewWords(n)
  /\ UNCHANGED <<format, chunks, done>>

HeadingBlock(flushed, level, text) ==
  LET kept == _trim_heading_path(level)
  IN  /\ blocks' = Append(flushed, Block("HEADING", text, Trail(kept), level))
      /\ stack' = Append(kept, [level |-> level, name |-> read + 1])

----------------------------------------------------------------------------
(* normalize_markdown                                                      *)

ReadFence ==
  /\ Read("markdown", 0)
  /\ blocks' = IF inFence THEN Append(blocks, Block("CODE", fenced, Trail(stack), 0)) ELSE Flushed
  /\ paragraph' = NoParagraph
  /\ inFence' = ~inFence
  /\ fenced' = IF inFence THEN << >> ELSE fenced
  /\ UNCHANGED <<stack, tag>>

ReadCode(n) ==
  /\ inFence /\ Read("markdown", n)
  /\ fenced' = fenced \o NewWords(n)
  /\ UNCHANGED <<blocks, stack, paragraph, inFence, tag>>

\* A heading is short: one token.
ReadHeading(level) ==
  /\ ~inFence /\ Read("markdown", 1)
  /\ HeadingBlock(Flushed, level, NewWords(1))
  /\ paragraph' = NoParagraph
  /\ UNCHANGED <<inFence, fenced, tag>>

ReadBlank ==
  /\ ~inFence /\ Read("markdown", 0)
  /\ blocks' = Flushed /\ paragraph' = NoParagraph
  /\ UNCHANGED <<stack, inFence, fenced, tag>>

\* A divider is skipped: the paragraph before it is not even flushed.
ReadDivider ==
  /\ ~inFence /\ Read("markdown", 0)
  /\ UNCHANGED <<blocks, stack, paragraph, inFence, fenced, tag>>

RowKind ==
  IF Flushed = << >> \/ Last(Flushed).kind # "TABLE_ROW" THEN "TABLE_HEADER" ELSE "TABLE_ROW"

ReadBlock(kind, n) ==
  /\ ~inFence /\ Read("markdown", n)
  /\ blocks' = Append(Flushed, Block(kind, NewWords(n), Trail(stack), 0))
  /\ paragraph' = NoParagraph
  /\ UNCHANGED <<stack, inFence, fenced, tag>>

\* A paragraph is a clause when its first line is numbered.
ReadProse(clause, n) ==
  /\ ~inFence /\ Read("markdown", n)
  /\ paragraph' = [text |-> paragraph.text \o NewWords(n),
                   clause |-> IF paragraph.text = << >> THEN clause ELSE paragraph.clause]
  /\ UNCHANGED <<blocks, stack, inFence, fenced, tag>>

MarkdownNext ==
  \/ ReadFence \/ ReadBlank \/ ReadDivider
  \/ \E level \in Levels : ReadHeading(level)
  \/ \E n \in Sizes :
       \/ ReadCode(n)
       \/ ReadBlock(RowKind, n)
       \/ \E kind \in {"QUOTE", "LIST_ITEM"} : ReadBlock(kind, n)
       \/ \E clause \in BOOLEAN : ReadProse(clause, n)

----------------------------------------------------------------------------
(* normalize_html: _HTMLToBlocks, and the loop over what it collects.  The *)
(* text between two tags is buffered in paragraph.                         *)

\* p, li, blockquote, pre, td, th
BlockTags == {"PARAGRAPH", "LIST_ITEM", "QUOTE", "CODE", "TABLE_ROW", "TABLE_HEADER"}

\* _flush, and the block made of what it collects
HtmlFlush ==
  IF tag.kind = "none" \/ paragraph.text = << >> THEN UNCHANGED <<blocks, stack>>
  ELSE IF tag.kind = "HEADING" THEN HeadingBlock(blocks, tag.level, paragraph.text)
  ELSE /\ blocks' = Append(blocks,
                      Block(IF paragraph.clause THEN "CLAUSE" ELSE tag.kind,
                            paragraph.text, Trail(stack), 0))
       /\ UNCHANGED stack

OpenBlockTag(kind, level) ==
  /\ tag.skip = 0 /\ Read("html", 0)
  /\ HtmlFlush
  /\ tag' = [tag EXCEPT !.kind = kind, !.level = level]
  /\ paragraph' = NoParagraph
  /\ UNCHANGED <<inFence, fenced>>

CloseBlockTag ==
  /\ tag.skip = 0 /\ Read("html", 0)
  /\ HtmlFlush
  /\ tag' = NoTag /\ paragraph' = NoParagraph
  /\ UNCHANGED <<inFence, fenced>>

\* script, style, nav, footer, header, aside
OpenSkipTag ==
  /\ Read("html", 0)
  /\ tag' = [tag EXCEPT !.skip = @ + 1]
  /\ UNCHANGED <<blocks, stack, paragraph, inFence, fenced>>

CloseSkipTag ==
  /\ Read("html", 0)
  /\ tag' = [tag EXCEPT !.skip = IF @ = 0 THEN 0 ELSE @ - 1]
  /\ UNCHANGED <<blocks, stack, paragraph, inFence, fenced>>

\* Text of a skipped region, or outside every block tag, is not taken in.
HtmlData(clause, n) ==
  /\ tag.skip = 0 /\ tag.kind # "none" /\ Read("html", n)
  /\ paragraph' = [text |-> paragraph.text \o NewWords(n),
                   clause |-> IF paragraph.text = << >> THEN clause ELSE paragraph.clause]
  /\ UNCHANGED <<blocks, stack, inFence, fenced, tag>>

\* A heading's text is one word for each of its data.
DataSizes == IF tag.kind = "HEADING" THEN {1} ELSE Sizes

HtmlNext ==
  \/ \E level \in Levels : OpenBlockTag("HEADING", level)
  \/ \E kind \in BlockTags : OpenBlockTag(kind, 0)
  \/ CloseBlockTag \/ OpenSkipTag \/ CloseSkipTag
  \/ \E n \in DataSizes, clause \in BOOLEAN : HtmlData(clause, n)

----------------------------------------------------------------------------
(* normalize_text: the parts between blank lines                           *)

ReadPart(kind, n) ==
  /\ Read("text", n)
  /\ blocks' = Append(blocks, Block(kind, NewWords(n), << >>, 0))
  /\ UNCHANGED <<stack, paragraph, inFence, fenced, tag>>

TextNext ==
  \E kind \in {"SPEAKER_TURN", "CLAUSE", "PARAGRAPH"}, n \in Sizes : ReadPart(kind, n)

----------------------------------------------------------------------------
(* The end of the input, and the rest of ingest_markdown up to the indexes *)

\* An unterminated fence keeps its content.
Unterminated ==
  IF fenced = << >> THEN Flushed
  ELSE Append(Flushed, Block("CODE", fenced, Trail(stack), 0))

Finish ==
  /\ ~done /\ done' = TRUE
  /\ CASE format = "markdown" -> blocks' = Unterminated /\ UNCHANGED stack
       [] format = "html"     -> HtmlFlush
       [] format = "text"     -> UNCHANGED <<blocks, stack>>
  /\ chunks' = Chunked(blocks')
  /\ paragraph' = NoParagraph /\ inFence' = FALSE /\ fenced' = << >> /\ tag' = NoTag
  /\ UNCHANGED <<format, read, content>>

\* What ingest_markdown hands to the indexes.
Indexed == Valid(chunks)

Next == MarkdownNext \/ HtmlNext \/ TextNext \/ Finish

Spec == Init /\ [][Next]_vars

----------------------------------------------------------------------------
(* Properties                                                              *)

\* A block's heading path names exactly the headings that enclose it: those
\* before it that no heading of the same or a higher rank has closed since.
\* The stack of normalize_markdown and of normalize_html is one way to find
\* them; a trail that kept a closed heading would file text under a section
\* it does not belong to.
Encloses(j, i) ==
  LET rank(k) == blocks[k].level
      closes(k) == IsHeading(blocks[k]) /\ rank(k) <= rank(j)
  IN  /\ j < i /\ IsHeading(blocks[j])
      /\ \A k \in (j + 1)..i : ~closes(k)

HeadingPathIsAncestry ==
  format # "text" =>
    \A i \in DOMAIN blocks :
      blocks[i].path = Trail(Picked(blocks, {j \in DOMAIN blocks : Encloses(j, i)}))

\* Sections of nothing but short headings: there is no chunk to hang them on.
Bare ==
  {s \in ToSet(MergeSmall(Sections(blocks))) :
     \A i \in DOMAIN s : IsHeading(s[i]) /\ Len(s[i].text) <= MaxChild}

\* Every word the normalizer took in reaches a chunk: through paragraphs
\* flushed by whatever follows them, tables, quotes, an unterminated fence,
\* sections merged forward and blocks split because they are too large.
\* The structure-aware chunker also puts it in one chunk only, in order.
NothingIsLost ==
  done => IF select_strategy(blocks) = "STRUCTURE_AWARE"
          THEN FlattenSeq([i \in DOMAIN chunks |-> chunks[i].text]) =
               Picked(content, {i \in DOMAIN content :
                                  \A s \in Bare : content[i] \notin ToSet(Text(s))})
          ELSE UNION {ToSet(chunks[i].text) : i \in DOMAIN chunks} = ToSet(content)

\* The structure-aware chunker never cuts a code block, a table row or a
\* clause, however large: it is whole in one chunk.
AtomsStayWhole ==
  done /\ select_strategy(blocks) = "STRUCTURE_AWARE" =>
    \A i \in DOMAIN blocks :
      ~IsSplittable(blocks[i]) =>
        \A j \in DOMAIN chunks :
          LET here == ToSet(blocks[i].text) \cap ToSet(chunks[j].text)
          IN  here = {} \/ here = ToSet(blocks[i].text)

\* "assert chunk.text in chunk.parent_text" (tests/unit/test_ingestion.py:258):
\* the text a query matched is part of the text the model is given.
MatchedTextReachesTheModel ==
  \A i \in DOMAIN Indexed : ToSet(Indexed[i].text) \subseteq ToSet(Indexed[i].context)

=============================================================================
