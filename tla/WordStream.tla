------------------------------ MODULE WordStream ------------------------------
(***************************************************************************)
(* Where the bbox refiner's words come from: the text layer of a PDF       *)
(* (PyMuPDFWordExtractor), the OCR engines behind the OcrEngine protocol   *)
(* and the WordRouter that picks one of the two page by page.              *)
(*                                                                         *)
(* A document is its media class and its pages. A page has the words of    *)
(* its text layer and the phrases that are visible on it, which only an    *)
(* OCR engine reads. A text is a sequence of symbols; a box is the range   *)
(* <<lo, hi>> it covers on the horizontal axis, on a grid of PageWidth     *)
(* units (the vertical range of a token is that of its line). Raw          *)
(* coordinates may overshoot the page. A symbol is a code point.           *)
(***************************************************************************)
EXTENDS Positions, SequencesExt

CONSTANTS
    PageWidth,      \* grid units of a page
    MinTextWords,   \* bbox_refine_min_text_words
    MaxTextPages    \* bbox_refine_max_text_pages

ASSUME WordAssumption == /\ PageWidth \in Nat \ {0}
                         /\ MinTextWords \in Nat /\ MaxTextPages \in Nat \ {0}

Texts == Seq(Nat)

\* A token as an engine reports it; a page's content as it is read.
Token == [text : Texts, lo : Int, hi : Int, legible : BOOLEAN]
Readable(page) ==
    /\ page.layer \in Seq(Token)
    /\ page.scan \in Seq([kind : STRING, lo : Int, hi : Int, tokens : Seq(Token)])
    /\ page.table = <<>> \/ page.table \in Int \X Int

Raised == <<[page |-> 0]>>  \* a call that ended with an exception
NoOrder == 1000         \* reading_order is None: float("inf") of the matcher

Clamp(x) == IF x < 0 THEN 0 ELSE IF x > PageWidth THEN PageWidth ELSE x

\* One Word; order is the reading_order that only Docling sets.
Word(text, lo, hi, order) == [text |-> text, lo |-> Clamp(lo), hi |-> Clamp(hi), order |-> order]

\* Blank tokens and boxes that are degenerate once clamped are dropped.
Usable(words) == At(words, {k \in DOMAIN words : words[k].text # <<>> /\ words[k].lo < words[k].hi})

PageWords(p, words, textLayer, source) ==
    [page |-> p, words |-> words, textLayer |-> textLayer, source |-> source]

-----------------------------------------------------------------------------
(* PyMuPDFWordExtractor.extract *)

\* A PDF that does not open has no pages; pages past the cap have no entry.
TextLayer(doc) ==
    IF doc.media # "pdf" \/ ~doc.opens THEN <<>>
    ELSE [p \in 1 .. (IF Len(doc.pages) < MaxTextPages THEN Len(doc.pages) ELSE MaxTextPages) |->
            LET layer == doc.pages[p].layer
                words == Usable([k \in DOMAIN layer |->
                                   Word(layer[k].text, layer[k].lo, layer[k].hi, NoOrder)])
            IN  PageWords(p, words, Len(words) >= MinTextWords, "pdf_text")]

-----------------------------------------------------------------------------
(* TesseractOcrEngine *)

\* _ocr_image_bytes: tokens that were not recognised (conf < 0) are skipped.
OcrImage(page, p) ==
    LET seen  == FlattenSeq([k \in DOMAIN page.scan |-> page.scan[k].tokens])
        words == Usable([k \in DOMAIN seen |->
                           Word(IF seen[k].legible THEN seen[k].text ELSE <<>>,
                                seen[k].lo, seen[k].hi, NoOrder)])
    IN  PageWords(p, words, words # <<>>, "ocr")

\* recognise: every page is read, also those that have a text layer. A missing
\* binary, a page it cannot read and a PDF that does not open are exceptions.
Tesseract(doc, state) ==
    IF state # "works" \/ (doc.media = "pdf" /\ ~doc.opens) THEN Raised
    ELSE [p \in DOMAIN doc.pages |-> OcrImage(doc.pages[p], p)]

-----------------------------------------------------------------------------
(* DoclingOcrEngine *)

\* _tokenize_phrase: the phrase's range is cut in proportion to the letters
\* of its tokens; the last token ends where the phrase ends.
Tokenize(tokens, lo, hi, order) ==
    LET letters[k \in 0 .. Len(tokens)] ==
            IF k = 0 THEN 0 ELSE letters[k - 1] + Len(tokens[k].text)
        total  == letters[Len(tokens)]
        cut(k) == IF k = Len(tokens) THEN hi ELSE lo + ((hi - lo) * letters[k]) \div total
    IN  IF total = 0 THEN <<>>
        ELSE Usable([k \in DOMAIN tokens |-> Word(tokens[k].text, cut(k - 1), cut(k), order)])

\* A cell without a box of its own is anchored to its table's box
\* (_emit_table_words); an item without any has no place.
ItemBox(page, phrase) ==
    CASE phrase.kind \in {"text", "cell"} -> <<phrase.lo, phrase.hi>>
      [] phrase.kind = "bare_cell" /\ page.table # <<>> -> page.table
      [] OTHER -> <<>>

\* recognise, for one page: the items that have a place are numbered in
\* reading order, and their tokens carry that number.
LayoutPage(page, p) ==
    LET box(item) == ItemBox(page, item)
        placed == At(page.scan, {k \in DOMAIN page.scan : LET b == box(page.scan[k]) IN
                                   b # <<>> /\ Clamp(b[1]) < Clamp(b[2])})
        words  == FlattenSeq([k \in DOMAIN placed |-> LET b == box(placed[k]) IN
                      Tokenize(placed[k].tokens, Clamp(b[1]), Clamp(b[2]), k - 1)])
    IN  PageWords(p, words, words # <<>>, "ocr")

\* A package that is not installed is an exception; a conversion that raises is
\* logged and yields no pages.
Docling(doc, state) ==
    CASE state = "missing" -> Raised
      [] state = "fails" \/ (state = "works" /\ doc.media = "pdf" /\ ~doc.opens) -> <<>>
      [] OTHER -> [p \in DOMAIN doc.pages |-> LayoutPage(doc.pages[p], p)]

\* Whether the engine works this time, fails on the document or is not there
EngineStates == {"works", "fails", "missing"}

\* The engine behind the OcrEngine bean; NoneOcrEngine answers [].
Recognise(engine, doc, state) ==
    CASE engine = "tesseract" -> Tesseract(doc, state)
      [] engine = "docling"   -> Docling(doc, state)
      [] OTHER                -> <<>>

-----------------------------------------------------------------------------
(* WordRouter.collect *)

\* Pages without a text layer take the OCR engine's words when it has the
\* page, and keep their own few words when it does not.
Collect(engine, doc, state) ==
    LET text == TextLayer(doc)
        ocr  == Recognise(engine, doc, state)
    IN  CASE doc.media = "image" -> ocr
          [] doc.media = "other" -> <<>>
          [] \A p \in DOMAIN text : text[p].textLayer -> text
          [] ocr = Raised -> Raised
          [] OTHER -> [p \in DOMAIN text |->
                         IF ~text[p].textLayer /\ p \in DOMAIN ocr THEN ocr[p] ELSE text[p]]
=============================================================================
