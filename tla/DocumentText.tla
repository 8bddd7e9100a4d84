---------------------------- MODULE DocumentText ----------------------------
(***************************************************************************)
(* From a file to its chunks: parse_document_bytes tries up to three PDF   *)
(* libraries, and chunk_pages cuts each page with text into windows of     *)
(* words that overlap.  A file is, for each library, the number of words   *)
(* it finds on each page; a text file or a DOCX file is one page.          *)
(*                                                                         *)
(* The cutting is the one chunker.py does itself: with langchain installed *)
(* a library does it.  The window moves one step at a time, as the loop    *)
(* does.                                                                   *)
(***************************************************************************)
EXTENDS Ranking

CONSTANTS
  Pages,        \* the pages of a file: sequences of numbers of words
  Sizes,        \* chunk_size
  Overlaps      \* chunk_overlap

ASSUME PagesAssumption == Pages \subseteq Seq(Nat)
ASSUME WindowAssumption == Sizes \subseteq Nat /\ Overlaps \subseteq Nat

VARIABLES
  file,     \* kind, whether each library is installed, and what each one reads
  size, overlap,
  step,     \* what is done next, or how it ended
  parser,   \* the library tried next: 1, 2, 3
  pages,    \* parse_document_bytes: the pages that have text
  current,  \* the page chunk_pages is at
  start,    \* where the window begins
  chunks    \* the chunks made

vars == <<file, size, overlap, step, parser, pages, current, start, chunks>>
inputs == <<file, size, overlap>>

Libraries == 1..3       \* PyMuPDF, pdfplumber, pypdf

Files == [pdf : BOOLEAN, installed : {i \in SUBSET Libraries : 3 \in i},
          read : [Libraries -> Pages]]

TypeOK ==
  /\ file \in Files
  /\ size \in Sizes /\ overlap \in Overlaps
  /\ step \in {"parse", "split", "page", "window", "chunked", "unreadable", "raised"}
  /\ parser \in Libraries
  /\ \A i \in DOMAIN pages : pages[i].words > 0 /\ pages[i].number \in Nat
  /\ current \in Nat /\ start \in Nat
  /\ \A i \in DOMAIN chunks : chunks[i].words # {} /\ chunks[i].index \in Nat

Init ==
  /\ file \in Files
  /\ ~file.pdf => Len(file.read[1]) = 1 /\ file.read[2] = file.read[1] /\ file.read[3] = file.read[1]
  /\ size \in Sizes /\ overlap \in Overlaps
  /\ step = "parse" /\ parser = 1
  /\ pages = <<>> /\ current = 1 /\ start = 0
  /\ chunks = <<>>

-----------------------------------------------------------------------------
(* Mutants: plausible bugs in the definitions below. *)

\* WithText, numbering the pages that are left.
WithTextNumbered(read) ==
  LET numbers == InPlace({i \in DOMAIN read : read[i] > 0})
  IN [i \in DOMAIN numbers |-> [number |-> i, of |-> numbers[i], words |-> read[numbers[i]]]]

\* Advance, leaving a gap.
AdvanceTooFar == start + size + overlap
-----------------------------------------------------------------------------
\* The pages with text, under the numbers they have in the file.
WithText(read) ==
  LET numbers == InPlace({i \in DOMAIN read : read[i] > 0})
  IN [i \in DOMAIN numbers |->
        [number |-> numbers[i], of |-> numbers[i], words |-> read[numbers[i]]]]

NextLibrary == parser + 1

\* A library that is not installed, or finds no text, leaves the file to the
\* next; one that fails on it ends the parsing.
ParsePdf ==
  LET text == IF parser \in file.installed THEN WithText(file.read[parser]) ELSE <<>>
  IN /\ step = "parse" /\ file.pdf
     /\ \/ text # <<>> /\ pages' = text /\ step' = "split" /\ UNCHANGED parser
        \/ /\ text = <<>>
           /\ IF NextLibrary \in Libraries THEN parser' = NextLibrary /\ UNCHANGED step
              ELSE step' = "unreadable" /\ UNCHANGED parser
           /\ UNCHANGED pages
        \/ parser \in file.installed /\ step' = "raised" /\ UNCHANGED <<parser, pages>>
     /\ UNCHANGED <<inputs, current, start, chunks>>

\* Text and DOCX become one page; DOCX that is no archive raises.
ParseOther ==
  /\ step = "parse" /\ ~file.pdf
  /\ \/ /\ pages' = WithText(file.read[1])
        /\ step' = IF pages' = <<>> THEN "unreadable" ELSE "split"
     \/ step' = "raised" /\ UNCHANGED pages
  /\ UNCHANGED <<inputs, parser, current, start, chunks>>

Refuses == overlap >= size

\* chunk_pages begins: an overlap that leaves no step is refused.
BeginChunks ==
  /\ step = "split"
  /\ step' = IF Refuses THEN "raised" ELSE "page"
  /\ UNCHANGED <<inputs, parser, pages, current, start, chunks>>

NextPage ==
  /\ step = "page"
  /\ step' = IF current \in DOMAIN pages THEN "window" ELSE "chunked"
  /\ start' = 0
  /\ UNCHANGED <<inputs, parser, pages, current, chunks>>

Advance == start + (size - overlap)
Ends(end, words) == end = words

\* One window of the current page; the one that reaches its end is the last.
Window ==
  LET page == pages[current]
      end == NoMoreThan(start + size, page.words)
      index == Cardinality({i \in DOMAIN chunks : chunks[i].number = page.number})
  IN /\ step = "window"
     /\ chunks' = IF start < page.words
                  THEN Append(chunks, [number |-> page.number, index |-> index,
                                       of |-> page.of, words |-> start..(end - 1)])
                  ELSE chunks
     /\ IF start >= page.words \/ Ends(end, page.words)
        THEN step' = "page" /\ current' = current + 1 /\ UNCHANGED start
        ELSE start' = Advance /\ UNCHANGED <<step, current>>
     /\ UNCHANGED <<inputs, parser, pages>>

Next == ParsePdf \/ ParseOther \/ BeginChunks \/ NextPage \/ Window

Spec == Init /\ [][Next]_vars
-----------------------------------------------------------------------------
(* Properties *)

ChunksOf(p) == {chunks[i] : i \in {j \in DOMAIN chunks : chunks[j].of = p.of}}

(***************************************************************************)
(* No word is lost: a file is called unreadable only if no library at hand *)
(* finds a word in it, and when a file is cut, every word of every page    *)
(* the parser found is in a chunk, in whatever ratio the page, the window  *)
(* and the overlap stand.                                                  *)
(***************************************************************************)
NoWordLost ==
  /\ step = "unreadable" => \A l \in file.installed : WithText(file.read[l]) = <<>>
  /\ step = "chunked" =>
       \A i \in DOMAIN pages :
         UNION {c.words : c \in ChunksOf(pages[i])} = 0..(pages[i].words - 1)

(***************************************************************************)
(* Citations can be trusted: the words of a chunk are from the page whose  *)
(* number it carries, empty pages before it counted, and no two chunks     *)
(* share the page and index their ids are made from.  Neighbours share     *)
(* overlap words, no more and no fewer, so that no chunk only repeats      *)
(* words of the one before it.                                             *)
(***************************************************************************)
CitesItsPage(c) == c.number = c.of

ChunksAreSound ==
  /\ TypeOK
  /\ \A i \in DOMAIN chunks : CitesItsPage(chunks[i])
  /\ \A i, j \in DOMAIN chunks :
       chunks[i].number = chunks[j].number /\ chunks[i].index = chunks[j].index => i = j
  /\ \A i \in 1..(Len(chunks) - 1) : chunks[i].of = chunks[i + 1].of =>
       /\ Cardinality(chunks[i].words \cap chunks[i + 1].words) = overlap
       /\ ~(chunks[i + 1].words \subseteq chunks[i].words)
=============================================================================
