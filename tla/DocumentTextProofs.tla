------------------------- MODULE DocumentTextProofs -------------------------
(***************************************************************************)
(* No word of a document is lost and its chunks can be cited, for every    *)
(* file, every chunk size and every overlap. The invariant follows the     *)
(* loop over windows: what has been cut of the page under way is all of it *)
(* up to where the last window ended, which is the overlap past where the  *)
(* next one starts.                                                        *)
(***************************************************************************)
EXTENDS DocumentText, RankingProofs

\* A page that was kept: the number it carries, the page of the file it is, its words.
Page == [number : Nat, of : Nat, words : Nat]

\* The pages the parser kept: with text, under their own numbers, in their order.
PagesSound(some) ==
  /\ some \in Seq(Page)
  /\ \A i \in 1..Len(some) : some[i].words > 0 /\ some[i].number = some[i].of
  /\ \A i, j \in 1..Len(some) : i < j => some[i].of < some[j].of

\* Of a PDF, no library tried so far found a word.
ParseInv ==
  /\ ~file.pdf => \A l \in Libraries : file.read[l] = file.read[1]
  /\ step = "parse" /\ file.pdf =>
       \A l \in file.installed : l < parser => WithText(file.read[l]) = <<>>
  /\ step = "unreadable" => \A l \in file.installed : WithText(file.read[l]) = <<>>
  /\ PagesSound(pages)

\* The chunks of a page among some, and the words in them.
Held(some, p) == {some[i] : i \in {j \in DOMAIN some : some[j].of = p.of}}
Covered(some, p) == UNION {c.words : c \in Held(some, p)}

\* Where the loops stand, and what of the page number is left to do.
CutInv ==
  /\ step \in {"page", "window", "chunked"} => overlap < size
  /\ step \in {"parse", "split", "unreadable"} => chunks = <<>> /\ current = 1
  /\ current <= Len(pages) + 1
  /\ step = "window" => current <= Len(pages)
  /\ step = "chunked" => current = Len(pages) + 1

\* Before the current page everything is covered, after it nothing; of the
\* current page as much as the window has passed, by chunks the last of which
\* ends overlap words past its beginning.
CoverInv ==
  /\ \A i \in 1..Len(pages) : i < current => Covered(chunks, pages[i]) = 0..(pages[i].words - 1)
  /\ \A i \in 1..Len(pages) :
       i > current \/ (i = current /\ (step # "window" \/ start = 0)) => Held(chunks, pages[i]) = {}
  /\ step = "window" /\ start # 0 =>
       LET last == chunks[Len(chunks)] IN
       /\ chunks # <<>> /\ last.of = pages[current].of
       /\ size <= start + overlap
       /\ last.words = (start + overlap - size)..(start + overlap - 1)
       /\ start + overlap < pages[current].words
       /\ Covered(chunks, pages[current]) = 0..(start + overlap - 1)

\* The chunks before i that carry its page number.
Before(some, i) == {j \in 1..(i - 1) : some[j].number = some[i].number}

\* Neighbouring chunks of one page share overlap words and neither holds the other.
Neighbours(a, b, shared) ==
  a.of = b.of => /\ Cardinality(a.words \cap b.words) = shared
                 /\ ~(b.words \subseteq a.words)

\* A chunk: the page number it carries, its index, the page it is of, its words.
Chunk == [number : Nat, index : Nat, of : Nat, words : SUBSET Nat]

\* Indexes count the chunks of a page from 0, so that page and index name one chunk.
ChunkInv ==
  /\ chunks \in Seq(Chunk)
  /\ \A i \in 1..Len(chunks) :
       /\ CitesItsPage(chunks[i]) /\ chunks[i].words # {}
       /\ chunks[i].index = Cardinality(Before(chunks, i))
  /\ \A i \in 1..(Len(chunks) - 1) : Neighbours(chunks[i], chunks[i + 1], overlap)

\* The inductive invariant.
IInv ==
  /\ file \in Files /\ size \in Sizes /\ overlap \in Overlaps
  /\ step \in {"parse", "split", "page", "window", "chunked", "unreadable", "raised"}
  /\ parser \in Libraries /\ current \in Nat \ {0} /\ start \in Nat
  /\ ParseInv /\ CutInv /\ CoverInv /\ ChunkInv

-----------------------------------------------------------------------------
\* The pages with text keep their numbers and their order.
LEMMA WithTextSound ==
  ASSUME NEW read \in Seq(Nat)
  PROVE  PagesSound(WithText(read))
<1> DEFINE S == {i \in DOMAIN read : read[i] > 0}
           n == Cardinality(S)
           o == InPlace(S)
           some == WithText(read)
<1>1. S \in SUBSET Nat /\ IsFiniteSet(S)
  <2>1. S \in SUBSET (1..Len(read)) /\ IsFiniteSet(1..Len(read))
    BY UptoFinite
  <2> QED BY <2>1, FS_Subset
<1>2. \A i \in S : i \in DOMAIN read /\ read[i] \in Nat /\ read[i] > 0
  OBVIOUS
<1>3. some = [i \in DOMAIN o |-> [number |-> o[i], of |-> o[i], words |-> read[o[i]]]]
  BY DEF WithText
<1> HIDE DEF S, some
<1>4. /\ n \in Nat /\ o \in [1..n -> S]
      /\ \A k, l \in 1..n : k < l => o[k] < o[l]
  BY <1>1, InPlaceLists
<1> HIDE DEF n, o
<1>5. /\ DOMAIN o = 1..n
      /\ \A i \in 1..n : o[i] \in Nat /\ read[o[i]] \in Nat /\ read[o[i]] > 0
  BY <1>1, <1>2, <1>4
<1>6. some \in [1..n -> Page]
  BY <1>3, <1>5 DEF Page
<1>7. some \in Seq(Page) /\ Len(some) = n
  BY <1>4, <1>6, SeqDef
<1>8. \A i \in 1..n : some[i].words = read[o[i]] /\ some[i].number = o[i] /\ some[i].of = o[i]
  BY <1>3, <1>5
<1> QED BY <1>4, <1>5, <1>7, <1>8 DEF PagesSound, some

\* So do the pages of a file that has not been parsed.
LEMMA NoPagesSound == PagesSound(<<>>)
BY DEF PagesSound

\* A new chunk adds its words to its page and nothing to another.
LEMMA HeldAppend ==
  ASSUME NEW C, NEW some \in Seq(C), NEW c \in C, NEW p
  PROVE  /\ c.of = p.of => /\ Held(Append(some, c), p) = Held(some, p) \cup {c}
                           /\ Covered(Append(some, c), p) = Covered(some, p) \cup c.words
         /\ c.of # p.of => /\ Held(Append(some, c), p) = Held(some, p)
                           /\ Covered(Append(some, c), p) = Covered(some, p)
<1> DEFINE more == Append(some, c)
           n == Len(some)
<1>1. /\ n \in Nat /\ DOMAIN some = 1..n /\ DOMAIN more = 1..(n + 1)
      /\ more[n + 1] = c /\ \A i \in 1..n : more[i] = some[i]
  OBVIOUS
<1> HIDE DEF more, n
<1>2. c.of = p.of => Held(more, p) = Held(some, p) \cup {c}
  BY <1>1 DEF Held
<1>3. c.of # p.of => Held(more, p) = Held(some, p)
  BY <1>1 DEF Held
<1>4. c.of = p.of => Covered(more, p) = Covered(some, p) \cup c.words
  BY <1>2 DEF Covered
<1> QED BY <1>2, <1>3, <1>4 DEF Covered, more

\* A new chunk comes after all others.
LEMMA BeforeAppend ==
  ASSUME NEW C, NEW some \in Seq(C), NEW c \in C
  PROVE  /\ \A i \in 1..Len(some) : Before(Append(some, c), i) = Before(some, i)
         /\ Before(Append(some, c), Len(some) + 1)
              = {j \in DOMAIN some : some[j].number = c.number}
<1> DEFINE more == Append(some, c)
           n == Len(some)
<1>1. /\ n \in Nat /\ DOMAIN some = 1..n
      /\ more[n + 1] = c /\ \A i \in 1..n : more[i] = some[i]
  OBVIOUS
<1> HIDE DEF more, n
<1>2. ASSUME NEW i \in 1..n PROVE Before(more, i) = Before(some, i)
  <2>1. \A j \in 1..(i - 1) : j \in 1..n
    BY <1>1
  <2> QED BY <1>1, <2>1 DEF Before
<1>3. Before(more, n + 1) = {j \in DOMAIN some : some[j].number = c.number}
  BY <1>1 DEF Before
<1> QED BY <1>2, <1>3 DEF more, n

\* The chunks before one can be counted.
LEMMA BeforeFinite ==
  ASSUME NEW some, NEW n \in Nat, NEW i \in 1..n
  PROVE  IsFiniteSet(Before(some, i)) /\ Cardinality(Before(some, i)) \in Nat
<1>1. i - 1 \in Nat /\ Before(some, i) \in SUBSET (1..(i - 1))
  BY DEF Before
<1> QED BY <1>1, UptoFinite, FS_Subset, FS_CardinalityType

\* Where a window of z words that overlap by o ends on a page of w words, when it
\* begins at s.
LEMMA WindowEnds ==
  ASSUME NEW s \in Nat, NEW z \in Nat, NEW o \in Nat, NEW w \in Nat, o < z, w > 0,
         s = 0 \/ (z <= s + o /\ s + o < w)
  PROVE  LET e == NoMoreThan(s + z, w) IN
         /\ e \in Nat /\ s < w /\ s < e /\ e <= w
         /\ e # w => e = s + z /\ e < w
         /\ s # 0 => s + o < e
BY DEF NoMoreThan

\* Two windows of which the second begins inside the first.
LEMMA WindowsMeet ==
  ASSUME NEW b \in Nat, NEW s \in Nat, NEW o \in Nat, NEW e \in Nat, b <= s, s + o < e
  PROVE  LET first == b..(s + o - 1)
             second == s..(e - 1)
         IN /\ Cardinality(first \cap second) = o
            /\ ~(second \subseteq first)
<1> DEFINE first == b..(s + o - 1)
           second == s..(e - 1)
<1>1. first \cap second = s..(s + o - 1)
  OBVIOUS
<1>2. Cardinality(s..(s + o - 1)) = o
  BY FS_Interval
<1>3. s + o \in second /\ s + o \notin first
  OBVIOUS
<1> QED BY <1>1, <1>2, <1>3

\* Before the file is parsed there are no pages and no chunks.
LEMMA InitIInv == Init => IInv
<1> SUFFICES ASSUME Init PROVE IInv
  OBVIOUS
<1>1. ParseInv
  <2>1. ~file.pdf => \A l \in Libraries : file.read[l] = file.read[1]
    BY DEF Init, Libraries
  <2>2. PagesSound(pages)
    BY NoPagesSound DEF Init
  <2>3. \A l \in Libraries : ~(l < parser)
    BY DEF Init, Libraries
  <2>4. file.installed \subseteq Libraries
    BY DEF Init, Files
  <2> QED BY <2>1, <2>2, <2>3, <2>4 DEF ParseInv, Init
<1>2. CutInv /\ CoverInv /\ ChunkInv
  BY DEF Init, CutInv, CoverInv, ChunkInv
<1> QED BY <1>1, <1>2 DEF Init, IInv, Libraries

\* A PDF library that finds no text leaves the file to the next one.
LEMMA ParsePdfIInv == IInv /\ ParsePdf => IInv'
<1> SUFFICES ASSUME IInv, ParsePdf PROVE IInv'
  OBVIOUS
<1> DEFINE text == IF parser \in file.installed THEN WithText(file.read[parser]) ELSE <<>>
<1> USE DEF IInv
<1>1. /\ step = "parse" /\ file.pdf
      /\ UNCHANGED <<file, size, overlap, current, start, chunks>>
      /\ \/ text # <<>> /\ pages' = text /\ step' = "split" /\ parser' = parser
         \/ /\ text = <<>> /\ parser + 1 \in Libraries /\ parser' = parser + 1
            /\ step' = "parse" /\ pages' = pages
         \/ /\ text = <<>> /\ parser + 1 \notin Libraries /\ parser' = parser
            /\ step' = "unreadable" /\ pages' = pages
         \/ step' = "raised" /\ parser' = parser /\ pages' = pages
  BY DEF ParsePdf, inputs, NextLibrary
<1>2. PagesSound(text)
  <2>1. \A l \in Libraries : file.read[l] \in Seq(Nat)
    BY PagesAssumption DEF Files
  <2>2. parser \in file.installed => PagesSound(WithText(file.read[parser]))
    BY <2>1, WithTextSound
  <2> QED BY <2>2, NoPagesSound
<1>3. file.installed \subseteq 1..3 /\ parser \in 1..3
  BY DEF Files, Libraries
<1>4. ParseInv'
  <2>1. PagesSound(pages')
    BY <1>1, <1>2 DEF ParseInv
  <2>2. \A l \in file.installed : l < parser => WithText(file.read[l]) = <<>>
    BY <1>1 DEF ParseInv
  <2>3. text = <<>> => \A l \in file.installed : l < parser + 1 => WithText(file.read[l]) = <<>>
    BY <1>3, <2>2
  <2>4. text = <<>> /\ parser + 1 \notin Libraries =>
          \A l \in file.installed : WithText(file.read[l]) = <<>>
    BY <1>3, <2>3 DEF Libraries
  <2> HIDE DEF text
  <2>5. ~file'.pdf => \A l \in Libraries : file'.read[l] = file'.read[1]
    BY <1>1
  <2> QED BY <1>1, <2>1, <2>3, <2>4, <2>5 DEF ParseInv
<1> HIDE DEF text
<1>5. chunks = <<>> /\ current = 1 /\ Len(pages') \in Nat
  BY <1>1, <1>4 DEF CutInv, ParseInv, PagesSound
<1>6. CutInv'
  BY <1>1, <1>5 DEF CutInv
<1>7. CoverInv' /\ ChunkInv'
  BY <1>1, <1>5 DEF CoverInv, ChunkInv, Held
<1> QED BY <1>1, <1>4, <1>6, <1>7

\* Files of the other formats have one parser.
LEMMA ParseOtherIInv == IInv /\ ParseOther => IInv'
<1> SUFFICES ASSUME IInv, ParseOther PROVE IInv'
  OBVIOUS
<1> DEFINE text == WithText(file.read[1])
<1> USE DEF IInv
<1>1. /\ step = "parse" /\ ~file.pdf
      /\ UNCHANGED <<file, size, overlap, parser, current, start, chunks>>
      /\ \/ pages' = text /\ text # <<>> /\ step' = "split"
         \/ pages' = text /\ text = <<>> /\ step' = "unreadable"
         \/ step' = "raised" /\ pages' = pages
  BY DEF ParseOther, inputs
<1>2. PagesSound(text)
  <2>1. file.read[1] \in Seq(Nat)
    BY PagesAssumption DEF Files, Libraries
  <2> QED BY <2>1, WithTextSound
<1>3. ParseInv'
  <2>1. \A l \in file.installed : file.read[l] = file.read[1]
    BY <1>1 DEF ParseInv, Files
  <2>2. text = <<>> => \A l \in file.installed : WithText(file.read[l]) = <<>>
    BY <2>1
  <2> HIDE DEF text
  <2> QED BY <1>1, <1>2, <2>2 DEF ParseInv
<1> HIDE DEF text
<1>4. chunks = <<>> /\ current = 1 /\ Len(pages') \in Nat
  BY <1>1, <1>3 DEF CutInv, ParseInv, PagesSound
<1>5. CutInv'
  BY <1>1, <1>4 DEF CutInv
<1>6. CoverInv' /\ ChunkInv'
  BY <1>1, <1>4 DEF CoverInv, ChunkInv, Held
<1> QED BY <1>1, <1>3, <1>5, <1>6

\* The window moves on by more than nothing once the overlap is below its size.
LEMMA BeginChunksIInv == IInv /\ BeginChunks => IInv'
<1> SUFFICES ASSUME IInv, BeginChunks PROVE IInv'
  OBVIOUS
<1> USE DEF IInv
<1>1. /\ step = "split" /\ UNCHANGED <<file, size, overlap, parser, pages, current, start, chunks>>
      /\ step' = "raised" \/ (step' = "page" /\ ~(overlap >= size))
  BY DEF BeginChunks, inputs, Refuses
<1>2. overlap \in Nat /\ size \in Nat
  BY WindowAssumption
<1>3. ParseInv' /\ CutInv' /\ ChunkInv'
  BY <1>1, <1>2 DEF ParseInv, CutInv, ChunkInv, Neighbours, Before
<1>4. CoverInv'
  BY <1>1 DEF CoverInv
<1> QED BY <1>1, <1>3, <1>4

\* The loop over the pages.
LEMMA NextPageIInv == IInv /\ NextPage => IInv'
<1> SUFFICES ASSUME IInv, NextPage PROVE IInv'
  OBVIOUS
<1> USE DEF IInv
<1>1. /\ step = "page" /\ start' = 0
      /\ UNCHANGED <<file, size, overlap, parser, pages, current, chunks>>
      /\ DOMAIN pages = 1..Len(pages) /\ Len(pages) \in Nat
      /\ \/ current <= Len(pages) /\ step' = "window"
         \/ current = Len(pages) + 1 /\ step' = "chunked"
  BY DEF NextPage, inputs, ParseInv, PagesSound, CutInv
<1>2. ParseInv' /\ CutInv' /\ ChunkInv'
  BY <1>1, ZenonT(30) DEF ParseInv, CutInv, ChunkInv, Neighbours, Before
<1>3. CoverInv'
  BY <1>1 DEF CoverInv
<1> QED BY <1>1, <1>2, <1>3

\* The loop over the windows: each starts overlap words before the last one ended.
LEMMA WindowIInv == IInv /\ Window => IInv'
<1> SUFFICES ASSUME IInv, Window PROVE IInv'
  OBVIOUS
<1> DEFINE page == pages[current]
           end == NoMoreThan(start + size, page.words)
           index == Cardinality({i \in DOMAIN chunks : chunks[i].number = page.number})
           c == [number |-> page.number, index |-> index, of |-> page.of,
                 words |-> start..(end - 1)]
<1> USE DEF IInv
<1>1. /\ step = "window" /\ UNCHANGED <<file, size, overlap, parser, pages>>
      /\ overlap \in Nat /\ size \in Nat /\ overlap < size /\ start \in Nat
      /\ current \in 1..Len(pages) /\ Len(pages) \in Nat
  BY WindowAssumption DEF Window, inputs, CutInv, ParseInv, PagesSound
<1>2. page \in Page /\ page.words \in Nat /\ page.words > 0 /\ page.number = page.of
  <2>1. page \in Page /\ page.words > 0 /\ page.number = page.of
    BY <1>1 DEF ParseInv, PagesSound
  <2> QED BY <2>1 DEF Page
<1>3. start = 0 \/ (size <= start + overlap /\ start + overlap < page.words)
  BY <1>1 DEF CoverInv
<1>4. /\ end \in Nat /\ start < page.words /\ start < end /\ end <= page.words
      /\ end # page.words => end = start + size /\ end < page.words
      /\ start # 0 => start + overlap < end
  BY <1>1, <1>2, <1>3, WindowEnds
<1>5. /\ chunks' = Append(chunks, c)
      /\ \/ end = page.words /\ step' = "page" /\ current' = current + 1 /\ start' = start
         \/ /\ end # page.words /\ start' = start + (size - overlap)
            /\ step' = step /\ current' = current
  <2>1. ~(start >= page.words) /\ start < page.words
    BY <1>1, <1>2, <1>4
  <2>2. chunks' = Append(chunks, c)
    BY <2>1 DEF Window
  <2> HIDE DEF page, end, c
  <2>3. IF start >= page.words \/ end = page.words
        THEN step' = "page" /\ current' = current + 1 /\ UNCHANGED start
        ELSE start' = start + (size - overlap) /\ UNCHANGED <<step, current>>
    BY DEF Window, Ends, Advance, page, end
  <2> QED BY <2>1, <2>2, <2>3
<1>6. chunks \in Seq(Chunk) /\ Len(chunks) \in Nat
  BY DEF ChunkInv
<1>7. index \in Nat
  <2>1. {i \in DOMAIN chunks : chunks[i].number = page.number} \in SUBSET (1..Len(chunks))
    BY <1>6
  <2> QED BY <1>6, <2>1, UptoFinite, FS_Subset, FS_CardinalityType
<1>8. c \in Chunk /\ c.words # {}
  <2> HIDE DEF end, index, page
  <2>1. page.number \in Nat /\ page.of \in Nat
    BY <1>2 DEF Page
  <2>2. start..(end - 1) \in SUBSET Nat /\ start \in start..(end - 1)
    BY <1>1, <1>4
  <2>3. c.words = start..(end - 1) /\ c \in Chunk
    BY <1>7, <2>1, <2>2 DEF Chunk
  <2> QED BY <2>2, <2>3
<1>9. c.of = page.of /\ c.number = page.number /\ c.words = start..(end - 1) /\ c.index = index
  OBVIOUS
<1>10. index = Cardinality({j \in DOMAIN chunks : chunks[j].number = c.number})
  OBVIOUS
<1> HIDE DEF page, end, index, c
<1>11. ParseInv' /\ CutInv'
  BY <1>1, <1>5 DEF ParseInv, CutInv
<1>12. ChunkInv'
  <2> DEFINE n == Len(chunks)
  <2>1. /\ chunks' \in Seq(Chunk) /\ Len(chunks') = n + 1 /\ chunks'[n + 1] = c
        /\ \A i \in 1..n : chunks'[i] = chunks[i]
    BY <1>5, <1>6, <1>8
  <2>2. \A i \in 1..n : Before(chunks', i) = Before(chunks, i)
    BY <1>5, <1>6, <1>8, BeforeAppend
  <2>3. Before(chunks', n + 1) = {j \in DOMAIN chunks : chunks[j].number = c.number}
    BY <1>5, <1>6, <1>8, BeforeAppend
  <2>4. \A i \in 1..n : /\ CitesItsPage(chunks[i]) /\ chunks[i].words # {}
                        /\ chunks[i].index = Cardinality(Before(chunks, i))
    BY DEF ChunkInv
  <2>5. CitesItsPage(c)
    BY <1>2, <1>9 DEF CitesItsPage
  <2>6. ASSUME NEW i \in 1..(n + 1)
        PROVE  /\ CitesItsPage(chunks'[i]) /\ chunks'[i].words # {}
               /\ chunks'[i].index = Cardinality(Before(chunks', i))
    <3>1. CASE i \in 1..n
      BY <2>1, <2>2, <2>4, <3>1
    <3>2. CASE i = n + 1
      BY <1>8, <1>9, <1>10, <2>1, <2>3, <2>5, <3>2
    <3> QED BY <1>6, <3>1, <3>2
  <2>7. ASSUME NEW i \in 1..n PROVE Neighbours(chunks'[i], chunks'[i + 1], overlap)
    <3>1. CASE i < n
      <4>1. Neighbours(chunks[i], chunks[i + 1], overlap)
        BY <1>6, <3>1 DEF ChunkInv
      <4>2. i + 1 \in 1..n
        BY <1>6, <3>1
      <4> QED BY <1>1, <2>1, <4>1, <4>2 DEF Neighbours
    <3>2. CASE i = n
      <4>1. chunks'[i] = chunks[n] /\ chunks'[i + 1] = c /\ chunks[n] \in Held(chunks, chunks[n])
        BY <1>6, <2>1, <3>2 DEF Held
      <4>2. SUFFICES ASSUME chunks[n].of = page.of
                     PROVE  /\ Cardinality(chunks[n].words \cap c.words) = overlap
                            /\ ~(c.words \subseteq chunks[n].words)
        BY <1>1, <1>9, <4>1 DEF Neighbours
      <4>3. start # 0
        <5>1. n \in DOMAIN chunks
          BY <1>6, <3>2
        <5>2. chunks[n] \in Held(chunks, page)
          BY <4>2, <5>1 DEF Held
        <5> QED BY <1>1, <5>2 DEF CoverInv, page
      <4>4. chunks[n].words = (start + overlap - size)..(start + overlap - 1)
            /\ size <= start + overlap /\ start + overlap < end
        BY <1>1, <1>4, <4>3 DEF CoverInv
      <4>5. PICK b \in Nat : b = start + overlap - size
        BY <1>1, <4>4
      <4>6. b <= start
        BY <1>1, <4>5
      <4>7. /\ Cardinality((b..(start + overlap - 1)) \cap (start..(end - 1))) = overlap
            /\ ~((start..(end - 1)) \subseteq (b..(start + overlap - 1)))
        BY <1>1, <1>4, <4>4, <4>6, WindowsMeet
      <4>8. chunks[n].words = b..(start + overlap - 1) /\ c.words = start..(end - 1)
        BY <1>9, <4>4, <4>5
      <4> QED BY <4>7, <4>8
    <3> QED BY <1>6, <3>1, <3>2
  <2>8. /\ DOMAIN chunks' = 1..(n + 1) /\ 1..Len(chunks') = 1..(n + 1)
        /\ 1..(Len(chunks') - 1) = 1..n /\ overlap' = overlap
    BY <1>1, <1>6, <2>1
  <2> HIDE DEF n
  <2> QED BY <2>1, <2>6, <2>7, <2>8 DEF ChunkInv
<1>13. CoverInv'
  <2>1. ASSUME NEW i \in 1..Len(pages), i # current PROVE pages[i].of # c.of
    <3>1. i < current \/ current < i
      BY <1>1, <2>1
    <3>2. pages[i].of \in Nat /\ pages[current].of \in Nat
      <4>1. pages[i] \in Page /\ pages[current] \in Page
        BY <1>1 DEF ParseInv, PagesSound
      <4> QED BY <4>1 DEF Page
    <3> QED BY <1>1, <1>9, <3>1, <3>2 DEF ParseInv, PagesSound, page
  <2>2. ASSUME NEW i \in 1..Len(pages), i # current
        PROVE  /\ Held(chunks', pages[i]) = Held(chunks, pages[i])
               /\ Covered(chunks', pages[i]) = Covered(chunks, pages[i])
    BY <1>5, <1>6, <1>8, <2>1, <2>2, HeldAppend
  <2>3. Covered(chunks', page) = Covered(chunks, page) \cup c.words
    <3>1. c.of = page.of
      BY <1>9
    <3> QED BY <1>5, <1>6, <1>8, <3>1, HeldAppend
  <2>4. Covered(chunks', page) = 0..(end - 1)
    <3>1. CASE start = 0
      <4>1. Covered(chunks, page) = {}
        BY <1>1, <3>1 DEF CoverInv, Covered, page
      <4> QED BY <1>9, <2>3, <3>1, <4>1
    <3>2. CASE start # 0
      <4>1. Covered(chunks, page) = 0..(start + overlap - 1) /\ start + overlap < end
        BY <1>1, <1>4, <3>2 DEF CoverInv, page
      <4> QED BY <1>1, <1>4, <1>9, <2>3, <4>1
    <3> QED BY <3>1, <3>2
  <2>5. CASE end = page.words
    <3>1. step' = "page" /\ current' = current + 1 /\ pages' = pages
      BY <1>1, <1>5, <2>5
    <3>2. ASSUME NEW i \in 1..Len(pages), i < current + 1
          PROVE  Covered(chunks', pages[i]) = 0..(pages[i].words - 1)
      <4>1. CASE i = current
        BY <2>4, <2>5, <4>1 DEF page
      <4>2. CASE i < current
        BY <1>1, <2>2, <4>2 DEF CoverInv
      <4> QED BY <1>1, <3>2, <4>1, <4>2
    <3>3. ASSUME NEW i \in 1..Len(pages), i > current PROVE Held(chunks', pages[i]) = {}
      <4>1. Held(chunks, pages[i]) = {} /\ i # current
        BY <1>1, <3>3 DEF CoverInv
      <4> QED BY <2>2, <4>1
    <3>4. \A i \in 1..Len(pages) : i > current + 1 \/ i = current + 1 => i > current
      BY <1>1
    <3> QED BY <1>1, <3>1, <3>2, <3>3, <3>4 DEF CoverInv
  <2>6. CASE end # page.words
    <3>1. /\ step' = "window" /\ current' = current /\ pages' = pages /\ start' # 0
          /\ start' = start + (size - overlap) /\ start' \in Nat
          /\ size' = size /\ overlap' = overlap
      BY <1>1, <1>5, <2>6
    <3>2. /\ end = start + size /\ end < page.words
          /\ start' + overlap = end /\ start' + overlap - size = start
      BY <1>1, <1>4, <2>6, <3>1
    <3>3. chunks' # <<>> /\ chunks'[Len(chunks')] = c
      BY <1>5, <1>6, <1>8
    <3>4. /\ c.words = start..(end - 1) /\ c.of = page.of /\ size <= end
          /\ Covered(chunks', page) = 0..(end - 1)
      BY <1>1, <1>9, <2>4, <3>2
    <3>5. \A i \in 1..Len(pages) : i < current =>
            Covered(chunks', pages[i]) = 0..(pages[i].words - 1)
      BY <1>1, <2>2 DEF CoverInv
    <3>6. \A i \in 1..Len(pages) : i > current => Held(chunks', pages[i]) = {}
      BY <1>1, <2>2 DEF CoverInv
    <3>7. \A i \in 1..Len(pages) :
            i > current' \/ (i = current' /\ (step' # "window" \/ start' = 0))
              => Held(chunks', pages[i]) = {}
      BY <3>1, <3>6
    <3>8. LET last == chunks'[Len(chunks')] IN
          /\ chunks' # <<>> /\ last.of = pages'[current'].of
          /\ size' <= start' + overlap'
          /\ last.words = (start' + overlap' - size')..(start' + overlap' - 1)
          /\ start' + overlap' < pages'[current'].words
          /\ Covered(chunks', pages'[current']) = 0..(start' + overlap' - 1)
      <4>1. /\ start' + overlap' = end /\ start' + overlap' - size' = start
            /\ size' = size /\ pages'[current'] = page
        BY <3>1, <3>2 DEF page
      <4>6. start' + overlap' - 1 = end - 1
        BY <1>1, <1>4, <3>1, <4>1
      <4>2. chunks' # <<>> /\ chunks'[Len(chunks')].of = pages'[current'].of
        BY <3>3, <3>4, <4>1
      <4>3. size' <= start' + overlap' /\ start' + overlap' < pages'[current'].words
        BY <3>2, <3>4, <4>1
      <4>4. chunks'[Len(chunks')].words
              = (start' + overlap' - size')..(start' + overlap' - 1)
        BY <3>3, <3>4, <4>1, <4>6
      <4>5. Covered(chunks', pages'[current']) = 0..(start' + overlap' - 1)
        BY <3>4, <4>1, <4>6
      <4> QED BY <4>2, <4>3, <4>4, <4>5
    <3> QED BY <3>1, <3>5, <3>7, <3>8 DEF CoverInv
  <2> QED BY <2>5, <2>6
<1>14. /\ current' \in Nat \ {0} /\ start' \in Nat
       /\ step' \in {"page", "window"}
  BY <1>1, <1>5
<1> QED BY <1>1, <1>11, <1>12, <1>13, <1>14

\* A step of nothing.
LEMMA StutterIInv == IInv /\ UNCHANGED vars => IInv'
BY DEF IInv, vars, ParseInv, CutInv, CoverInv, ChunkInv, Neighbours

\* The inductive invariant holds in every state.
LEMMA Invariant == Spec => []IInv
<1>1. IInv /\ [Next]_vars => IInv'
  BY ParsePdfIInv, ParseOtherIInv, BeginChunksIInv, NextPageIInv, WindowIInv, StutterIInv
     DEF Next
<1> QED BY InitIInv, <1>1, PTL DEF Spec

(***************************************************************************)
(* A file is called unreadable only if no library at hand finds a word in  *)
(* it, and every word of every page is in a chunk, for every number of     *)
(* pages and words, every chunk_size and every chunk_overlap: the windows  *)
(* chunk_pages cuts leave no gap, and it stops only at the end of a page.  *)
(***************************************************************************)
THEOREM NoWordIsLost == Spec => []NoWordLost
<1>1. ASSUME IInv PROVE NoWordLost
  <2>1. step = "unreadable" => \A l \in file.installed : WithText(file.read[l]) = <<>>
    BY <1>1 DEF IInv, ParseInv
  <2>2. ASSUME step = "chunked", NEW i \in DOMAIN pages
        PROVE  UNION {c.words : c \in ChunksOf(pages[i])} = 0..(pages[i].words - 1)
    <3>1. i \in 1..Len(pages) /\ i < current
      BY <1>1, <2>2 DEF IInv, ParseInv, PagesSound, CutInv
    <3>2. Covered(chunks, pages[i]) = 0..(pages[i].words - 1)
      BY <1>1, <3>1 DEF IInv, CoverInv
    <3> QED BY <3>2 DEF Covered, Held, ChunksOf
  <2> QED BY <2>1, <2>2 DEF NoWordLost
<1> QED BY Invariant, <1>1, PTL

(***************************************************************************)
(* A chunk holds words of the page whose number it carries, no two share   *)
(* page and index, and neighbours share overlap words and no more, so that *)
(* none repeats the one before it, however chunk_pages is configured.      *)
(***************************************************************************)
THEOREM ChunksSound == Spec => []ChunksAreSound
<1>1. ASSUME IInv PROVE ChunksAreSound
  <2> USE <1>1 DEF IInv
  <2>0. /\ chunks \in Seq(Chunk) /\ Len(chunks) \in Nat /\ DOMAIN chunks = 1..Len(chunks)
        /\ pages \in Seq(Page) /\ DOMAIN pages = 1..Len(pages)
    BY DEF ChunkInv, ParseInv, PagesSound
  <2>1. TypeOK
    <3>1. \A i \in DOMAIN pages : pages[i].words > 0 /\ pages[i].number \in Nat
      <4>1. \A i \in DOMAIN pages : pages[i] \in Page /\ pages[i].words > 0
        BY <2>0 DEF ParseInv, PagesSound
      <4> QED BY <4>1 DEF Page
    <3>2. \A i \in DOMAIN chunks : chunks[i].words # {} /\ chunks[i].index \in Nat
      <4>1. \A i \in DOMAIN chunks : chunks[i] \in Chunk /\ chunks[i].words # {}
        BY <2>0 DEF ChunkInv
      <4> QED BY <4>1 DEF Chunk
    <3> QED BY <3>1, <3>2 DEF TypeOK
  <2>2. \A i \in DOMAIN chunks : CitesItsPage(chunks[i])
    BY <2>0 DEF ChunkInv
  <2>3. ASSUME NEW i \in DOMAIN chunks, NEW j \in DOMAIN chunks, i < j,
               chunks[i].number = chunks[j].number
        PROVE  chunks[i].index # chunks[j].index
    <3>1. i \in Nat /\ j \in Nat /\ i \in 1..(j - 1)
      BY <2>0, <2>3
    <3>2. Before(chunks, i) \subseteq Before(chunks, j)
      BY <2>3, <3>1 DEF Before
    <3>3. i \in Before(chunks, j) /\ i \notin Before(chunks, i)
      BY <2>3, <3>1 DEF Before
    <3>4. IsFiniteSet(Before(chunks, j)) /\ IsFiniteSet(Before(chunks, i))
      BY <2>0, BeforeFinite
    <3>5. Cardinality(Before(chunks, i)) # Cardinality(Before(chunks, j))
      BY <3>2, <3>3, <3>4, FS_Subset
    <3> QED BY <2>0, <3>5 DEF ChunkInv
  <2>4. \A i, j \in DOMAIN chunks :
          chunks[i].number = chunks[j].number /\ chunks[i].index = chunks[j].index => i = j
    <3>1. \A i, j \in DOMAIN chunks : i = j \/ i < j \/ j < i
      BY <2>0
    <3> QED BY <2>3, <3>1
  <2>5. \A i \in 1..(Len(chunks) - 1) : chunks[i].of = chunks[i + 1].of =>
          /\ Cardinality(chunks[i].words \cap chunks[i + 1].words) = overlap
          /\ ~(chunks[i + 1].words \subseteq chunks[i].words)
    BY DEF ChunkInv, Neighbours
  <2> QED BY <2>1, <2>2, <2>4, <2>5 DEF ChunksAreSound
<1> QED BY Invariant, <1>1, PTL
=============================================================================
