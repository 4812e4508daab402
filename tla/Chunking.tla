------------------------------ MODULE Chunking ------------------------------
(***************************************************************************)
(* How a document of the knowledge base is cut into chunks: the loop of    *)
(* SemanticChunker.chunk over the sections and paragraphs of a text, one   *)
(* paragraph a step.  Sections come from the headings of a page, and       *)
(* chunk_pages runs the pages one after the other.                         *)
(*                                                                         *)
(* Modelled from apps/api/app/rag/chunking/chunker.py.                     *)
(***************************************************************************)
EXTENDS ChunkRecord

CONSTANTS
    MaxParagraphs   \* bound on the length of the text

VARIABLES
    section,    \* the section being read
    tokens,     \* current_tokens
    ended       \* the text has been read

vars == <<text, section, content, tokens, allChunks, ended>>

TypeOK ==
    /\ text \in Seq([section : Nat, paragraph : Paragraphs])
    /\ section \in Nat
    /\ content \in Seq(Nat)
    /\ tokens \in Nat
    /\ allChunks \in Seq(Chunk)
    /\ ended \in BOOLEAN

Init ==
    /\ text = <<>> /\ section = 1
    /\ content = <<>> /\ tokens = 0
    /\ allChunks = <<>>
    /\ ended = FALSE

\* The length of a part of text t.
Length(t, part) ==
    IF part[2] = 0 THEN Joined(t[part[1]].paragraph.sentences, 1)
    ELSE t[part[1]].paragraph.sentences[part[2]]

\* _make_chunk
MakeChunk(t, parts, gap) ==
    [section |-> section, parts |-> parts,
     count |-> Tokens(Joined([k \in DOMAIN parts |-> Length(t, parts[k])], gap))]

----------------------------------------------------------------------------
(* Paragraphs *)

\* The chunk being built is put out, unless it is empty.
Flush(paragraphs) ==
    IF paragraphs = <<>> THEN <<>>
    ELSE <<MakeChunk(text, [k \in DOMAIN paragraphs |-> Whole(paragraphs[k])], 2)>>

\* The last paragraph is repeated at the beginning of the next chunk if it is
\* small enough.
Carried ==
    IF content # <<>> /\ Size(text[Last(content)].paragraph) <= ChunkOverlap
    THEN <<Last(content)>> ELSE <<>>

CarriedTokens == IF Carried = <<>> THEN 0 ELSE Size(text[Last(content)].paragraph)

\* The next paragraph of the section is p.
Following(p) ==
    /\ ~ended /\ Len(text) < MaxParagraphs
    /\ text' = Append(text, [section |-> section, paragraph |-> p])
    /\ UNCHANGED <<section, ended>>

\* A block is a chunk of its own.
ReadBlock(p) ==
    /\ Following(p)
    /\ IsAtomic(p)
    /\ allChunks' = allChunks \o Flush(content)
                      \o <<MakeChunk(text', <<Whole(Len(text'))>>, 2)>>
    /\ content' = <<>>
    /\ tokens' = 0

ReadParagraph(p) ==
    /\ Following(p)
    /\ ~IsAtomic(p) /\ Size(p) <= ChunkSize
    /\ IF tokens + Size(p) > ChunkSize /\ content # <<>>
       THEN /\ allChunks' = allChunks \o Flush(content)
            /\ content' = Append(Carried, Len(text'))
            /\ tokens' = CarriedTokens + Size(p)
       ELSE /\ content' = Append(content, Len(text'))
            /\ tokens' = tokens + Size(p)
            /\ UNCHANGED allChunks

----------------------------------------------------------------------------
(* Long paragraphs *)

\* Variant: the sentence that is repeated does not count.
AddSentence_Free(t, i, acc, j) ==
    LET size == Tokens(t[i].paragraph.sentences[j])
    IN IF acc.tokens + size <= ChunkSize \/ acc.current = <<>>
       THEN [acc EXCEPT !.current = Append(@, <<i, j>>), !.tokens = @ + size]
       ELSE [done |-> Append(acc.done, acc.current),
             current |-> <<Last(acc.current), <<i, j>>>>,
             tokens |-> size]

\* One sentence more: if it does not fit, the sentences before it are put out
\* and the last of them is repeated before it.
AddSentence(t, i, acc, j) ==
    LET lengths == t[i].paragraph.sentences
        fits    == acc.tokens + Tokens(lengths[j]) <= ChunkSize \/ acc.current = <<>>
    IN IF fits
       THEN [acc EXCEPT !.current = Append(@, <<i, j>>), !.tokens = @ + Tokens(lengths[j])]
       ELSE [done |-> Append(acc.done, acc.current),
             current |-> <<Last(acc.current), <<i, j>>>>,
             tokens |-> Tokens(lengths[Last(acc.current)[2]]) + Tokens(lengths[j])]

NoSentence == [done |-> <<>>, current |-> <<>>, tokens |-> 0]

\* The loop of _split_sentences over paragraph i.
AddedSentences(t, i) ==
    LET n == Len(t[i].paragraph.sentences)
        added[j \in 0 .. n] ==
            IF j = 0 THEN NoSentence ELSE AddSentence(t, i, added[j - 1], j)
    IN  added[n]

\* Variant: the sentences left at the end are not put out.
SplitSentences_Rest(t, i) == AddedSentences(t, i).done

\* _split_sentences
SplitSentences(t, i) == Append(AddedSentences(t, i).done, AddedSentences(t, i).current)

SentenceChunks(t, i) ==
    [k \in DOMAIN SplitSentences(t, i) |-> MakeChunk(t, SplitSentences(t, i)[k], 1)]

\* A paragraph that is too large is split by sentences.  What was carried over
\* before it becomes a chunk that repeats what the chunk before it says.
ReadLong(p) ==
    /\ Following(p)
    /\ ~IsAtomic(p) /\ Size(p) > ChunkSize
    /\ allChunks' = allChunks \o Flush(content) \o Flush(Carried)
                      \o SentenceChunks(text', Len(text'))
    /\ content' = <<>>
    /\ tokens' = 0

----------------------------------------------------------------------------

\* The section is over: another heading follows, or another page.
EndSection ==
    /\ ~ended /\ text # <<>> /\ Last(text).section = section
    /\ allChunks' = allChunks \o Flush(content)
    /\ content' = <<>>
    /\ tokens' = 0
    /\ section' = section + 1
    /\ UNCHANGED <<text, ended>>

EndText ==
    /\ ~ended /\ content = <<>>
    /\ ended' = TRUE
    /\ UNCHANGED <<text, section, content, tokens, allChunks>>

Next ==
    \/ \E p \in Paragraphs : ReadBlock(p) \/ ReadParagraph(p) \/ ReadLong(p)
    \/ EndSection
    \/ EndText

Spec == Init /\ [][Next]_vars
=============================================================================
