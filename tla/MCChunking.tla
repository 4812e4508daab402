----------------------------- MODULE MCChunking -----------------------------
EXTENDS Chunking, TLC

P(block, sentences) == [block |-> block, sentences |-> sentences]

\* A chunk is of four tokens, with one token of overlap: paragraphs that may be
\* carried over, also one that is larger than its estimate, some that fit and
\* some that must be split, and blocks of both kinds.
MCParagraphs ==
    {P(FALSE, <<4>>), P(FALSE, <<7>>), P(FALSE, <<10>>), P(FALSE, <<8, 8>>),
     P(FALSE, <<7, 7, 7, 3>>), P(FALSE, <<5, 40, 12, 5>>),
     P(TRUE, <<20>>), P(TRUE, <<20, 20>>)}
=============================================================================
