---------------------------- MODULE MCBboxRefiner -----------------------------
(***************************************************************************)
(* A small instance of BboxRefiner for TLC. Symbols 1-3 are letters, 4 is  *)
(* a digit, 8 and 9 are letters of a script without word boundaries.       *)
(***************************************************************************)
EXTENDS BboxRefiner

CONSTANTS name, amount, flag

Raw(text, lo, hi) == [text |-> text, lo |-> lo, hi |-> hi, legible |-> TRUE]
Page(layer, scan, table) == [layer |-> layer, scan |-> scan, table |-> table]
Phrase(kind_, lo, hi, tokens) == [kind |-> kind_, lo |-> lo, hi |-> hi, tokens |-> tokens]

\* A page with a text layer: a name twice, one word past the page's edge
TextPage == Page(<<Raw(<<1>>, 0, 1), Raw(<<2, 3>>, 1, 3), Raw(<<1>>, 3, 4), Raw(<<2, 3>>, 4, 9)>>,
                 <<>>, <<>>)

\* A scanned page: a paragraph, a table of which one cell has no box, a smudge
ScanPage == Page(<<Raw(<<3>>, 0, 1)>>,
                 <<Phrase("text", 0, 3, <<Raw(<<8, 9>>, 0, 2), Raw(<<8>>, 2, 3)>>),
                   Phrase("bare_cell", 0, 0, <<Raw(<<4, 4>>, 3, 4), Raw(<<4, 4>>, 4, 5)>>),
                   Phrase("cell", 7, 6, <<[Raw(<<2>>, 5, 6) EXCEPT !.legible = FALSE]>>)>>,
                 <<4, 6>>)

MCDocs == { [media |-> "pdf", opens |-> TRUE, pages |-> <<TextPage, ScanPage>>],
            [media |-> "pdf", opens |-> TRUE, pages |-> <<ScanPage, TextPage, TextPage>>],
            [media |-> "pdf", opens |-> FALSE, pages |-> <<>>],
            [media |-> "image", opens |-> TRUE, pages |-> <<ScanPage>>],
            [media |-> "other", opens |-> TRUE, pages |-> <<>>] }

LlmBox == [lo |-> 0, hi |-> PageWidth, source |-> "llm", score |-> 0]
Leaf(value, pages_, bbox) == [value |-> value, pages |-> pages_, bbox |-> bbox]
Value(literal, stripped) == [literal |-> literal, stripped |-> stripped]

MCPicks == {{1}, {2, 9}}

MCLeaves ==
    { [f \in Field |->
         CASE f = name   -> Leaf(n, p, LlmBox)
           [] f = amount -> Leaf(Value(<<4, 4, 3, 4, 4>>, <<4, 4, 0, 4, 4>>), q, NoBox)
           [] OTHER      -> Leaf(Blank, {}, NoBox)] :
      n \in {Value(<<1, 0, 2, 3>>, <<1, 0, 2, 3>>), Value(<<8, 9, 8>>, <<8, 9, 8>>)},
      p \in {{2}}, q \in {{}, {1}} }
=============================================================================
