---------------------------- MODULE ChunkRecord ----------------------------
(***************************************************************************)
(* What the chunks of a document are, and what is promised about them:     *)
(* together they tell the text, and none is larger than it need be.  How   *)
(* they are made is in Chunking.                                           *)
(*                                                                         *)
(* A text is its paragraphs, in sections, and a paragraph is its           *)
(* sentences, of which only the lengths matter.  What counts as a heading, *)
(* a paragraph or a block is decided by regular expressions and taken as   *)
(* it comes: a code block with a line that looks like a heading is two     *)
(* paragraphs of two sections here.                                        *)
(*                                                                         *)
(* Modelled from apps/api/app/rag/chunking/chunker.py.                     *)
(***************************************************************************)
EXTENDS Integers, Sequences, SequencesExt

CONSTANTS
    Paragraphs,     \* what a paragraph may be: see Paragraph
    ChunkSize,      \* tokens a chunk should have
    ChunkOverlap    \* tokens that may be repeated in the next chunk

\* A code block or table, or plain text; with the lengths of its sentences.
Paragraph == [block : BOOLEAN, sentences : Seq(Nat \ {0})]

ASSUME ParagraphsAreParagraphs ==
    /\ Paragraphs \subseteq Paragraph
    /\ \A p \in Paragraphs : p.sentences # <<>>

ASSUME SizesAreSizes == ChunkSize \in Nat /\ ChunkOverlap \in Nat

VARIABLES
    text,       \* the paragraphs read so far, and the section of each
    content,    \* current_content: the paragraphs of the chunk being built
    allChunks   \* the chunks made so far

\* A part of a chunk is a paragraph as a whole, sentence 0, or one sentence of it.
Whole(i) == <<i, 0>>

Chunk == [section : Nat, parts : Seq(Nat \X Nat), count : Nat]

----------------------------------------------------------------------------
(* Sizes *)

\* estimate_tokens
Tokens(length) == IF length < 4 THEN 1 ELSE length \div 4

Total(lengths) ==
    LET sum[k \in 0 .. Len(lengths)] ==
            IF k = 0 THEN 0 ELSE sum[k - 1] + lengths[k]
    IN  sum[Len(lengths)]

\* Sentences are separated by one character, paragraphs by two.
Joined(lengths, gap) == Total(lengths) + gap * (Len(lengths) - 1)

Size(p) == Tokens(Joined(p.sentences, 1))

\* A block that is not too large is kept in one piece.
IsAtomic(p) == p.block /\ Size(p) <= 2 * ChunkSize

----------------------------------------------------------------------------
(* Properties *)

PartsIn(list) == UNION {ToSet(list[k].parts) : k \in DOMAIN list}

\* What is told, by the chunks or by the one being built.
Told == PartsIn(allChunks) \union {Whole(i) : i \in ToSet(content)}

SentencesOf(t, i) == {i} \X (1 .. Len(t[i].paragraph.sentences))

\* Each paragraph is told as a whole or by all of its sentences, and nothing else
\* is.
NothingLost ==
    /\ \A part \in Told : part[1] \in DOMAIN text
    /\ \A i \in DOMAIN text :
          {part \in Told : part[1] = i} \in {{Whole(i)}, SentencesOf(text, i)}

Before(a, b) == a[1] < b[1] \/ (a[1] = b[1] /\ a[2] < b[2])

Ascending(parts) ==
    \A m, n \in DOMAIN parts : m < n => Before(parts[m], parts[n])

\* What earlier tells comes before what later tells, but for its last part, which
\* may begin the next chunk; a paragraph that is repeated is no larger than the
\* overlap.
Follows(t, earlier, later, next) ==
    \A a \in ToSet(earlier), b \in ToSet(later) :
        \/ Before(a, b)
        \/ /\ a = b /\ next
           /\ a = Last(earlier) /\ b = Head(later)
           /\ b[2] = 0 => Size(t[b[1]].paragraph) <= ChunkOverlap

Tiling(t, list) ==
    /\ \A k \in DOMAIN list : Ascending(list[k].parts)
    /\ \A k, l \in DOMAIN list :
          k < l => Follows(t, list[k].parts, list[l].parts, l = k + 1)

\* No chunk reaches over the end of its section.
InOneSection(t, chunk) ==
    \A part \in ToSet(chunk.parts) : t[part[1]].section = chunk.section

\* The chunks tile the text: nothing is lost, nothing is out of order or under
\* another heading, and what is told twice is what the overlap allows
\* (chunker.py:117-137, :153-226).
ChunksTileText ==
    /\ NothingLost
    /\ Tiling(text, allChunks)
    /\ \A k \in DOMAIN allChunks : InOneSection(text, allChunks[k])

\* The estimate of a sum is larger than the sum of estimates, by what is lost in
\* rounding and by the separators.
Estimate(sum, n) == sum + (5 * n - 2) \div 4

BoundedSize(t, chunk) ==
    LET n == Len(chunk.parts)
        bySentence == chunk.parts[1][2] # 0
    IN \/ ~bySentence /\ chunk.count <= Estimate(ChunkSize + ChunkOverlap, n)
       \/ bySentence /\ (chunk.count <= Estimate(ChunkSize, n) \/ n <= 2)
       \/ n = 1 /\ IsAtomic(t[chunk.parts[1][1]].paragraph)

\* A chunk is no larger than size and overlap allow, unless it is a block on its
\* own or holds a sentence that does not fit with the one before it
\* (chunker.py:117-137, :160-217).
LargeChunksAreWhole ==
    \A k \in DOMAIN allChunks : BoundedSize(text, allChunks[k])
=============================================================================
