------------------------------- MODULE Chunker -------------------------------
(***************************************************************************)
(* From the blocks of a normalized document to the chunks that are         *)
(* indexed: the choice of a strategy, the structure-aware and the          *)
(* recursive chunker, and the validation of what they return               *)
(* (ingestion/chunking/, core/models/document.py).                         *)
(*                                                                         *)
(* A text is the sequence of its tokens and a token names the line and the *)
(* word it comes from, so that "which part of the document is this" can be *)
(* asked of every chunk.  The estimate of a text is its length; a line of  *)
(* a paragraph stands for a sentence.  Separators, the rounding of the     *)
(* estimate and the boilerplate patterns are left out: page furniture is a *)
(* text below MinTokens.                                                   *)
(***************************************************************************)
EXTENDS Integers, SequencesExt, Selections

CONSTANTS TargetChild, MaxChild, MinSection, MaxParent,
          RecursiveTarget, OverlapTokens, MinTokens

ASSUME ChunkerAssumption ==
  /\ TargetChild \in Nat \ {0} /\ MaxChild \in Nat /\ TargetChild <= MaxChild
  /\ MinSection \in Nat /\ MaxParent \in Nat /\ MinTokens \in Nat
  /\ RecursiveTarget \in Nat \ {0}
  /\ OverlapTokens \in Nat /\ 2 * OverlapTokens < RecursiveTarget

Kinds == {"HEADING", "PARAGRAPH", "LIST_ITEM", "TABLE_ROW", "TABLE_HEADER",
          "CODE", "QUOTE", "CLAUSE", "SPEAKER_TURN"}

IsHeading(b) == b.kind = "HEADING"
IsSplittable(b) == b.kind \notin {"CODE", "TABLE_ROW", "TABLE_HEADER", "CLAUSE"}

Text(blocks) == FlattenSeq([i \in DOMAIN blocks |-> blocks[i].text])

Count(blocks, kinds) == Cardinality({i \in DOMAIN blocks : blocks[i].kind \in kinds})
HeadingCount(blocks) == Count(blocks, {"HEADING"})

----------------------------------------------------------------------------
(* Document type and strategy.                                             *)

\* count / total >= percent / 100
Share(blocks, kinds, percent) == 100 * Count(blocks, kinds) >= percent * Len(blocks)

classify_document_type(blocks) ==
  IF blocks = << >> THEN "DEGRADED"
  ELSE IF Share(blocks, {"CLAUSE"}, 30) THEN "LEGAL_OR_POLICY"
  ELSE IF Share(blocks, {"SPEAKER_TURN"}, 40) THEN "TRANSCRIPT"
  ELSE IF Share(blocks, {"TABLE_ROW", "TABLE_HEADER"}, 50) THEN "TABULAR"
  ELSE IF Share(blocks, {"CODE"}, 50) THEN "CODE"
  ELSE IF HeadingCount(blocks) >= 2 THEN "STRUCTURED_PROSE"
  ELSE "UNSTRUCTURED_PROSE"

StrategyForType ==
  [STRUCTURED_PROSE |-> "STRUCTURE_AWARE", LEGAL_OR_POLICY |-> "CLAUSE_BOUNDED",
   UNSTRUCTURED_PROSE |-> "SEMANTIC", TRANSCRIPT |-> "SPEAKER_TURN",
   TABULAR |-> "ROW_GROUP", CODE |-> "SYNTAX_AWARE", DEGRADED |-> "RECURSIVE_CHARACTER"]

Implemented == {"STRUCTURE_AWARE", "RECURSIVE_CHARACTER"}

select_strategy(blocks) ==
  LET proposed == StrategyForType[classify_document_type(blocks)]
  IN  IF \/ proposed \notin Implemented
         \/ HeadingCount(blocks) < 2
      THEN "RECURSIVE_CHARACTER"
      ELSE proposed

----------------------------------------------------------------------------
(* Greedy packing: a part joins the buffer unless that exceeds the target  *)
(* and the buffer holds something.  Both chunkers split this way.          *)

NothingPacked == [done |-> << >>, buffer |-> << >>]

AddPart(acc, part, target) ==
  IF acc.buffer # << >> /\ Len(acc.buffer) + Len(part) > target
  THEN [done |-> Append(acc.done, acc.buffer), buffer |-> part]
  ELSE [done |-> acc.done, buffer |-> acc.buffer \o part]

Packed(parts, target) ==
  LET packed[i \in 0..Len(parts)] ==
        IF i = 0 THEN NothingPacked ELSE AddPart(packed[i - 1], parts[i], target)
  IN  packed[Len(parts)]

Pack(parts, target) ==
  LET last == Packed(parts, target)
  IN  IF last.buffer = << >> THEN last.done ELSE Append(last.done, last.buffer)

\* x joins the last part.
Extended(parts, x) == [parts EXCEPT ![Len(parts)] = Append(@, x)]

\* The sentences of a paragraph, the lines of a code block.
AddToken(lines, t) ==
  IF lines # << >> /\ Last(Last(lines)).line = t.line
  THEN Extended(lines, t) ELSE Append(lines, <<t>>)

Lines(text) ==
  LET lines[i \in 0..Len(text)] == IF i = 0 THEN << >> ELSE AddToken(lines[i - 1], text[i])
  IN  lines[Len(text)]

----------------------------------------------------------------------------
(* StructureAwareChunker.                                                  *)

\* A heading opens a section.
AddBlock(sections, b) ==
  IF sections = << >> \/ IsHeading(b) THEN Append(sections, <<b>>) ELSE Extended(sections, b)

Sections(blocks) ==
  LET sections[i \in 0..Len(blocks)] ==
        IF i = 0 THEN << >> ELSE AddBlock(sections[i - 1], blocks[i])
  IN  sections[Len(blocks)]

\* A section that is too small waits for the next one.
NothingMerged == [merged |-> << >>, pending |-> << >>]

AddSection(acc, section) ==
  LET candidate == acc.pending \o section
  IN  IF Len(Text(candidate)) < MinSection
      THEN [merged |-> acc.merged, pending |-> candidate]
      ELSE [merged |-> Append(acc.merged, candidate), pending |-> << >>]

Merging(sections) ==
  LET merged[i \in 0..Len(sections)] ==
        IF i = 0 THEN NothingMerged ELSE AddSection(merged[i - 1], sections[i])
  IN  merged[Len(sections)]

\* Mutant: what is pending at the end of the document is dropped.
MergeSmallDroppingTail(sections) == Merging(sections).merged

MergeSmall(sections) ==
  LET last == Merging(sections)
      n == Len(last.merged)
  IN  IF last.pending = << >> THEN last.merged
      ELSE IF n = 0 THEN <<last.pending>>
      ELSE [last.merged EXCEPT ![n] = @ \o last.pending]

\* Empty texts are dropped.
Nonempty(texts) == Picked(texts, {i \in DOMAIN texts : texts[i] # << >>})

\* Mutant: an atomic block is split like any other.
SplitAnything(b) == Pack(Lines(b.text), TargetChild)

SplitOversized(b) == IF IsSplittable(b) THEN Pack(Lines(b.text), TargetChild) ELSE <<b.text>>

\* A buffer that holds only headings is never emitted: it waits for content.
NoChildren == [children |-> << >>, buffer |-> << >>, content |-> FALSE]

FlushChild(acc) ==
  [children |-> IF acc.content THEN Append(acc.children, acc.buffer) ELSE acc.children,
   buffer |-> << >>, content |-> FALSE]

AddWhole(acc, b) ==
  [children |-> acc.children, buffer |-> acc.buffer \o b.text,
   content |-> acc.content \/ ~IsHeading(b)]

\* The headings that wait for content go with the first piece.
AddPieces(acc, pieces) ==
  LET first == IF acc.content THEN pieces[1] ELSE acc.buffer \o pieces[1]
  IN  [children |-> FlushChild(acc).children \o <<first>> \o Tail(pieces),
       buffer |-> << >>, content |-> FALSE]

PackBlock(acc, b) ==
  IF Len(b.text) > MaxChild THEN AddPieces(acc, SplitOversized(b))
  ELSE IF acc.content /\ Len(acc.buffer) + Len(b.text) > TargetChild
  THEN AddWhole(FlushChild(acc), b)
  ELSE AddWhole(acc, b)

Children(blocks) ==
  LET packed[i \in 0..Len(blocks)] ==
        IF i = 0 THEN NoChildren ELSE PackBlock(packed[i - 1], blocks[i])
  IN  packed[Len(blocks)]

PackChildren(blocks) ==
  LET last == Children(blocks)
      n == Len(last.children)
      children == IF last.content \/ n = 0 THEN FlushChild(last).children
                  ELSE [last.children EXCEPT ![n] = @ \o last.buffer]
  IN  Nonempty(children)

\* The trail of the first heading of the section, or of its first block.
HeadingPath(section) ==
  LET first == SelectInSeq(section, IsHeading)
  IN  IF first = 0 THEN section[1].path
      ELSE Append(section[first].path, section[first].name)

Truncate(text) == SubSeq(text, 1, IF Len(text) < MaxParent THEN Len(text) ELSE MaxParent)

SectionChunks(section) ==
  LET parent == Truncate(Text(section))
      children == PackChildren(section)
  IN  [i \in DOMAIN children |->
        [text |-> children[i], path |-> HeadingPath(section),
         \* parent_text is None where the parent is the text itself
         context |-> parent]]

StructureAware(blocks) ==
  LET merged == MergeSmall(Sections(blocks))
      sections == Picked(merged, {i \in DOMAIN merged : Text(merged[i]) # << >>})
  IN  FlattenSeq([i \in DOMAIN sections |-> SectionChunks(sections[i])])

----------------------------------------------------------------------------
(* RecursiveCharacterChunker: by block, then by line, then by word.        *)

SplitWith(pieces, Parts(_)) ==
  FlattenSeq([i \in DOMAIN pieces |->
    IF Len(pieces[i]) > RecursiveTarget
    THEN Pack(Parts(pieces[i]), RecursiveTarget) ELSE <<pieces[i]>>])

Words(text) == [i \in DOMAIN text |-> <<text[i]>>]

Split(blocks) ==
  SplitWith(SplitWith(Pack([i \in DOMAIN blocks |-> blocks[i].text], RecursiveTarget),
                      Lines),
            Words)

OverlapTail(text) ==
  SubSeq(text, IF Len(text) > OverlapTokens THEN Len(text) - OverlapTokens + 1 ELSE 1, Len(text))

RecursiveCharacter(blocks) ==
  LET pieces == Split(blocks)
      overlapped(i) == IF i = 1 THEN pieces[i] ELSE OverlapTail(pieces[i - 1]) \o pieces[i]
  IN  [i \in DOMAIN pieces |->
        [text |-> overlapped(i), path |-> << >>, context |-> overlapped(i)]]

----------------------------------------------------------------------------

Chunked(blocks) ==
  IF select_strategy(blocks) = "STRUCTURE_AWARE"
  THEN StructureAware(blocks) ELSE RecursiveCharacter(blocks)

\* validate_chunks: the chunks that are indexed.
Valid(cs) == SelectSeq(cs, LAMBDA c : Len(c.text) >= MinTokens)

=============================================================================
