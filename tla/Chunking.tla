------------------------------ MODULE Chunking ------------------------------
(***************************************************************************)
(* chunk_document (services/chunking.py): the markdown is split into       *)
(* sections at its headings, and a section that is too long into chunks    *)
(* that overlap.  Each step is one turn of a loop of the code.             *)
(*                                                                         *)
(* A markdown is a sequence of items: a heading of level 2 or 3, or (level *)
(* 0) a paragraph or a blank line.  A paragraph is the sequence of the     *)
(* lengths in characters of its sentences, <<>> is a blank line.           *)
(* Paragraphs are separated by a blank line, sentences by one character.   *)
(***************************************************************************)
EXTENDS Naturals, Sequences, SequencesExt

CONSTANTS
  Paragraphs,     \* the paragraphs that occur
  MaxItems,       \* bound: the items of a markdown
  MaxTokens,      \* chunk_max_tokens
  OverlapPercent, \* chunk_overlap_percent
  CharsPerToken,  \* 4 characters make a token
  HeadingLength   \* the length of a heading's line

VARIABLES
  items,     \* the markdown as far as it is read
  stack,     \* heading_stack: the places of the headings in items
  level,     \* current_level
  lines,     \* current_text_lines: paragraphs, and <<>> for a blank line
  sections,  \* sections: heading_chain and the paragraphs of the text
  section,   \* the section that is being split; 0 while headings are read
  unit,      \* the next paragraph, or sentence, of the section
  from,      \* the first one of current_chunk
  chunks     \* all_chunks: the section and the units each chunk consists of

vars == <<items, stack, level, lines, sections, section, unit, from, chunks>>

ASSUME ChunkingAssumption ==
  /\ MaxItems \in Nat /\ MaxTokens \in Nat \ {0}
  /\ OverlapPercent \in 0..50 /\ CharsPerToken \in Nat \ {0}
  /\ HeadingLength \in Nat
  /\ Paragraphs \subseteq Seq(Nat) /\ <<>> \notin Paragraphs

Item == [level : {0}, text : Paragraphs \cup {<<>>}] \cup [level : {2, 3}, text : {<<>>}]

-----------------------------------------------------------------------------
(* The text of a section as lengths: join(lengths, gap) is the length of   *)
(* the texts with gap characters between them.                             *)
Total(lengths) ==
  LET total[n \in 0..Len(lengths)] == IF n = 0 THEN 0 ELSE total[n - 1] + lengths[n]
  IN  total[Len(lengths)]

Join(lengths, gap) ==
  IF lengths = <<>> THEN 0 ELSE Total(lengths) + gap * (Len(lengths) - 1)

CountTokens(length) ==
  IF length \div CharsPerToken < 1 THEN 1 ELSE length \div CharsPerToken

ParagraphLengths(text) == [n \in DOMAIN text |-> Join(text[n], 1)]

TextTokens(text) == CountTokens(Join(ParagraphLengths(text), 2))

TooLong(text) == TextTokens(text) > MaxTokens

(* What a long section is split by: paragraphs, or the sentences when      *)
(* there is one paragraph only.                                            *)
Units(text) == IF Len(text) = 1 THEN text[1] ELSE ParagraphLengths(text)

(* The tokens of units a..b as the loop counts them, one by one.           *)
Tokens(text, a, b) ==
  Total([n \in 1..(IF b < a THEN 0 ELSE b + 1 - a) |-> CountTokens(Units(text)[a + n - 1])])

OverlapTokens == (MaxTokens * OverlapPercent) \div 100

(* The units at the end of chunk a..b that are kept for the next chunk.    *)
OverlapStart_AtLeast(text, a, b) ==
  CHOOSE k \in a..b + 1 :
    /\ Tokens(text, k, b) <= OverlapTokens + 1
    /\ \A j \in a..k - 1 : Tokens(text, j, b) > OverlapTokens + 1

OverlapStart(text, a, b) ==
  CHOOSE k \in a..b + 1 :
    /\ Tokens(text, k, b) <= OverlapTokens
    /\ \A j \in a..k - 1 : Tokens(text, j, b) > OverlapTokens

-----------------------------------------------------------------------------
(* A text without its blank lines, which strip() and the split at blank    *)
(* lines remove.                                                           *)
NonBlank(texts) ==
  LET kept[n \in 0..Len(texts)] ==
        IF n = 0 THEN <<>>
        ELSE IF texts[n] = <<>> THEN kept[n - 1] ELSE Append(kept[n - 1], texts[n])
  IN  kept[Len(texts)]

Text == NonBlank(lines)

Flush == Append(sections, [chain |-> stack, text |-> Text])

NewStack_Less(l) == IF l < level THEN SubSeq(stack, 1, l - 2) ELSE stack

(* heading_stack[: level - 2] for a heading that is not deeper.            *)
NewStack(l) ==
  IF l <= level
  THEN SubSeq(stack, 1, IF l - 2 < Len(stack) THEN l - 2 ELSE Len(stack))
  ELSE stack

(* A heading ends the section, even when only blank lines came before it.  *)
ReadHeading(l) ==
  /\ section = 0 /\ Len(items) < MaxItems
  /\ items' = Append(items, [level |-> l, text |-> <<>>])
  /\ sections' = IF lines # <<>> THEN Flush ELSE sections
  /\ lines' = <<>>
  /\ stack' = Append(NewStack(l), Len(items'))
  /\ level' = l
  /\ UNCHANGED <<section, unit, from, chunks>>

ReadLine(line) ==
  /\ section = 0 /\ Len(items) < MaxItems
  /\ items' = Append(items, [level |-> 0, text |-> line])
  /\ lines' = Append(lines, line)
  /\ UNCHANGED <<stack, level, sections, section, unit, from, chunks>>

EndOfMarkdown_Drops ==
  /\ section = 0
  /\ section' = 1 /\ unit' = 1 /\ from' = 1
  /\ lines' = <<>>
  /\ UNCHANGED <<items, stack, level, sections, chunks>>

(* n headings, one a line, are one paragraph, taken to be one sentence:    *)
(* headings that end sentences would be split there, when they are too     *)
(* long together.                                                          *)
Headings(n) == <<<<Join([k \in 1..n |-> HeadingLength], 1)>>>>

(* The last section is flushed only when it has a text.  A markdown of     *)
(* headings alone, with no line in between, is a section by itself.        *)
EndOfMarkdown ==
  /\ section = 0
  /\ sections' = IF Text # <<>> THEN Flush
                 ELSE IF sections = <<>> /\ level # 0
                 THEN <<[chain |-> <<>>, text |-> Headings(Len(items) - Len(lines))]>>
                 ELSE sections
  /\ section' = 1 /\ unit' = 1 /\ from' = 1
  /\ lines' = <<>>
  /\ UNCHANGED <<items, stack, level, chunks>>

-----------------------------------------------------------------------------
Chunk(a, b) == Append(chunks, [section |-> section, from |-> a, to |-> b])

(* token_count of a chunk: its units, sentences too, are joined by a blank *)
(* line, and the text is counted as a whole.                               *)
TokenCount(c) ==
  LET text == sections[c.section].text
  IN  IF TooLong(text)
      THEN CountTokens(Join(SubSeq(Units(text), c.from, c.to), 2))
      ELSE TextTokens(text)

(* The most characters, with a blank line after each, of units that have   *)
(* so many tokens one by one: CountTokens rounds down for each of them.    *)
MostCharacters(tokens) == (2 * CharsPerToken + 1) * tokens

Splitting == section \in DOMAIN sections

ThisText == sections[section].text

NextSection == section' = section + 1 /\ unit' = 1 /\ from' = 1

(* A section that fits is one chunk.                                       *)
KeepWhole ==
  /\ Splitting /\ ~TooLong(ThisText)
  /\ chunks' = Chunk(1, Len(Units(ThisText)))
  /\ NextSection
  /\ UNCHANGED <<items, stack, level, lines, sections>>

Full_IfEmpty == Tokens(ThisText, from, unit) > MaxTokens

(* current_chunk is not empty and the next unit is too much for it.        *)
Full == from < unit /\ Tokens(ThisText, from, unit) > MaxTokens

(* One turn of the loop over the units: from..unit is current_chunk after  *)
(* it.                                                                     *)
TakeUnit ==
  /\ Splitting /\ TooLong(ThisText)
  /\ unit <= Len(Units(ThisText))
  /\ IF Full
     THEN /\ chunks' = Chunk(from, unit - 1)
          /\ from' = OverlapStart(ThisText, from, unit - 1)
     ELSE UNCHANGED <<chunks, from>>
  /\ unit' = unit + 1
  /\ UNCHANGED <<items, stack, level, lines, sections, section>>

EndSection ==
  /\ Splitting /\ TooLong(ThisText)
  /\ unit > Len(Units(ThisText))
  /\ chunks' = Chunk(from, unit - 1)
  /\ NextSection
  /\ UNCHANGED <<items, stack, level, lines, sections>>

Init ==
  /\ items = <<>> /\ stack = <<>> /\ level = 0 /\ lines = <<>> /\ sections = <<>>
  /\ section = 0 /\ unit = 1 /\ from = 1 /\ chunks = <<>>

Next ==
  \/ \E l \in {2, 3} : ReadHeading(l)
  \/ \E line \in Paragraphs \cup {<<>>} : ReadLine(line)
  \/ EndOfMarkdown
  \/ KeepWhole
  \/ TakeUnit
  \/ EndSection

Spec == Init /\ [][Next]_vars

-----------------------------------------------------------------------------
(* The items, sections and chunks have their shape: chunks are ranges of   *)
(* units of their section, and only an empty section has an empty chunk.   *)
TypeOK ==
  /\ Len(items) <= MaxItems
  /\ \A n \in DOMAIN items : items[n] \in Item
  /\ \A n \in DOMAIN stack : stack[n] \in DOMAIN items
  /\ level \in {0, 2, 3}
  /\ section \in 0..Len(sections) + 1
  /\ from <= unit
  /\ \A c \in {chunks[n] : n \in DOMAIN chunks} :
       LET text == sections[c.section].text
       IN  text # <<>> => 1 <= c.from /\ c.from <= c.to /\ c.to <= Len(Units(text))

Finished == section > Len(sections)

AllParagraphs == NonBlank([n \in DOMAIN items |-> items[n].text])

SectionText == FlattenSeq([s \in DOMAIN sections |-> sections[s].text])

(* Chunk n is the first, or the last, of its section.                      *)
IsFirst(n) == n = 1 \/ chunks[n - 1].section # chunks[n].section

IsLast(n) == n = Len(chunks) \/ chunks[n + 1].section # chunks[n].section

(* Nothing is lost and nothing is out of place: in the end the sections    *)
(* have all the paragraphs in their order, or the headings when the        *)
(* markdown has no more; a markdown that is not blank has a chunk.  Every  *)
(* section has chunks, in the order of the sections, which start at its    *)
(* first unit, end at its last and leave no gap, and each goes further     *)
(* than the one before (_split_by_headings, _semantic_sub_split).          *)
EverythingIsChunked ==
  Finished =>
    /\ \/ SectionText = AllParagraphs
       \/ /\ AllParagraphs = <<>>
          /\ \E k \in DOMAIN items :
               /\ SectionText = Headings(k)
               /\ \A n \in DOMAIN items : items[n].level # 0 <=> n <= k
    /\ chunks = <<>> => \A n \in DOMAIN items : items[n] = [level |-> 0, text |-> <<>>]
    /\ \A s \in DOMAIN sections : \E n \in DOMAIN chunks : chunks[n].section = s
    /\ \A n \in DOMAIN chunks :
         LET c == chunks[n]
         IN  /\ IsFirst(n) => c.from = 1
             /\ IsLast(n) => c.to = Len(Units(sections[c.section].text))
             /\ n > 1 => chunks[n - 1].section <= c.section
             /\ ~IsFirst(n) =>
                  /\ c.from <= chunks[n - 1].to + 1
                  /\ chunks[n - 1].from <= c.from /\ chunks[n - 1].to < c.to

(* No chunk is reported with more tokens than its units can have when they *)
(* keep to MaxTokens one by one, or than an overlap of OverlapTokens and   *)
(* one unit that does not fit beside it (_semantic_sub_split compares the  *)
(* sum of the units' counts; chunk_document counts the joined text).       *)
ChunksFit ==
  \A n \in DOMAIN chunks :
    LET c == chunks[n]
        units == Units(sections[c.section].text)
    IN  \/ TokenCount(c) <= CountTokens(MostCharacters(MaxTokens) - 2)
        \/ TokenCount(c) <= CountTokens(MostCharacters(OverlapTokens) + units[c.to])

(* The headings above item n: the last one of level 2, and the last one of *)
(* level 3 after it.                                                       *)
Enclosing(n) ==
  LET above(l) == {k \in 1..n - 1 : items[k].level = l}
      h2 == above(2)
      h3 == {k \in above(3) : \A j \in h2 : j < k}
      lastOf(s) == IF s = {} THEN <<>> ELSE <<CHOOSE k \in s : \A j \in s : j <= k>>
  IN  lastOf(h2) \o lastOf(h3)

StartsWithLevel3 ==
  \E n \in DOMAIN items :
    items[n].level = 3 /\ \A k \in 1..n - 1 : items[k].level # 2

(* When no heading of level 3 comes before the first one of level 2, the   *)
(* heading chain of the text that is being read is that of the headings    *)
(* that enclose it, whatever the headings before (heading_stack).          *)
ChainEncloses ==
  section = 0 /\ ~StartsWithLevel3 => stack = Enclosing(Len(items) + 1)
=============================================================================
