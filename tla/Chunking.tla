------------------------------ MODULE Chunking ------------------------------
(***************************************************************************)
(* BuildChunks of internal/rag/ingest/chunk.go: the sections of a document *)
(* become numbered chunks, no two with the same text.  Markdown, which     *)
(* parses the sections out of a file, starts and drives it.                *)
(*                                                                         *)
(* A text is the sequence of its lines and a line the sequence of its      *)
(* words, so that "a b" and "a\nb" have the same tokens but are different  *)
(* texts (and hash differently), as in the code.  A blank line is <<>>; a  *)
(* line of nothing but spaces, at which strings.Split(s, "\n\n") would not  *)
(* split, is left out.                                                     *)
(***************************************************************************)
EXTENDS WindowArith, SequencesExt

CONSTANTS Pieces,      \* what words are made of
          Documents,   \* sequences of sections
          Configs      \* chunking settings

Word == Seq(Pieces)
Line == Seq(Word)
Text == Seq(Line)
Section == [heading : Line, text : Text]
Settings == [embedTOC : BOOLEAN, embedHeadings : BOOLEAN, byParagraph : BOOLEAN,
             maxTokens : Int, additional : Seq(Int), overlap : Int]

ASSUME ChunkingAssumption == Documents \subseteq Seq(Section) /\ Configs \subseteq Settings

VARIABLES secs, cfg,   \* the arguments
          chunks,      \* the chunks built so far
          seen,        \* their texts (the code keeps the hashes)
          nextID,
          sec,         \* index of the section being split
          parts,       \* parts of it that remain, the current one first
          sizes,       \* window sizes that remain for the current part
          start,       \* where the next window begins
          pc           \* "toc" | "section" | "part" | "size" | "done"

args == <<secs, cfg>>
output == <<chunks, seen, nextID>>
vars == <<args, output, sec, parts, sizes, start, pc>>

(* A finite set of integers in ascending order.  (SelectSeq and SortSeq,   *)
(* which would do here and below, are opaque to the provers.)              *)
InOrder(S) ==
    [k \in 1 .. Cardinality(S) |->
        CHOOSE i \in S : Cardinality({j \in S : j <= i}) = k]

(* sort.Ints: every value as often as it occurs. *)
Sorted(s) ==
    LET values == InOrder(ToSet(s))
        Times(v) == [n \in 1 .. Cardinality({i \in DOMAIN s : s[i] = v}) |-> v]
    IN  FlattenSeq([k \in DOMAIN values |-> Times(values[k])])

tokenize(text) == FlattenSeq(text)

NonBlank(text) == {i \in DOMAIN text : text[i] # <<>>}

(* strings.TrimSpace: blank lines at either end go. *)
TrimSpace(text) ==
    IF NonBlank(text) = {} THEN <<>> ELSE SubSeq(text, Min(NonBlank(text)), Max(NonBlank(text)))

(* The paragraphs are the maximal runs of lines that are not blank. *)
splitParagraphs(text) ==
    LET Lasts(i) == {j \in i .. Len(text) : j + 1 \notin NonBlank(text)}
        starts == InOrder({i \in NonBlank(text) : i - 1 \notin NonBlank(text)})
    IN  [k \in DOMAIN starts |-> SubSeq(text, starts[k], Min(Lasts(starts[k])))]

(* The table of contents: the headings that are not empty, a line each. *)
TOC(ss) ==
    LET at == InOrder({i \in DOMAIN ss : ss[i].heading # <<>>})
    IN  [k \in DOMAIN at |-> ss[at[k]].heading]

PartsOf(section) ==
    IF cfg.byParagraph THEN splitParagraphs(section.text) ELSE <<section.text>>

(* A bug: the sizes are tried in the order of the configuration. *)
SizesOf_Unsorted(c) == <<c.maxTokens>> \o c.additional
SizesOf(c) == Sorted(<<c.maxTokens>> \o c.additional)

(* A bug: repeated texts are numbered and stored again. *)
Emit_Again(text, n, size) ==
    /\ chunks' = Append(chunks, [id |-> nextID, text |-> text, tokens |-> n, size |-> size])
    /\ seen' = seen \cup {text}
    /\ nextID' = nextID + 1
(* Append a chunk unless its text was seen; size 0 marks a toc or heading. *)
Emit(text, n, size) ==
    IF text \in seen THEN UNCHANGED output
    ELSE /\ chunks' = Append(chunks, [id |-> nextID, text |-> text, tokens |-> n, size |-> size])
         /\ seen' = seen \cup {text}
         /\ nextID' = nextID + 1

EmbedTOC ==
    /\ pc = "toc"
    /\ IF cfg.embedTOC /\ TOC(secs) # <<>>
       THEN Emit(TOC(secs), Len(tokenize(TOC(secs))), 0)
       ELSE UNCHANGED output
    /\ pc' = "section"
    /\ UNCHANGED <<args, sec, parts, sizes, start>>

EnterSection ==
    /\ pc = "section"
    /\ sec <= Len(secs)
    /\ LET head == secs[sec].heading IN
       IF cfg.embedHeadings /\ head # <<>>
       THEN Emit(<<head>>, Len(head), 0)
       ELSE UNCHANGED output
    /\ parts' = PartsOf(secs[sec])
    /\ pc' = "part"
    /\ UNCHANGED <<args, sec, sizes, start>>

SkipEmptyPart ==
    /\ pc = "part"
    /\ parts # <<>>
    /\ tokenize(Head(parts)) = <<>>
    /\ parts' = Tail(parts)
    /\ UNCHANGED <<args, output, sec, sizes, start, pc>>

EnterPart ==
    /\ pc = "part"
    /\ parts # <<>>
    /\ tokenize(Head(parts)) # <<>>
    /\ sizes' = SizesOf(cfg)
    /\ start' = 0
    /\ pc' = "size"
    /\ UNCHANGED <<args, output, sec, parts>>

(* The part fits in the window: it is kept with its line structure. *)
WholePart ==
    /\ pc = "size"
    /\ sizes # <<>>
    /\ LET tokens == tokenize(Head(parts))
           step == StepOf(Head(sizes))
       IN  /\ Len(tokens) <= step
           /\ Emit(TrimSpace(Head(parts)), Len(tokens), step)
    /\ sizes' = Tail(sizes)
    /\ UNCHANGED <<args, sec, parts, start, pc>>

(* One turn of the window loop; the words are joined by single spaces. *)
CutWindow ==
    /\ pc = "size"
    /\ sizes # <<>>
    /\ LET tokens == tokenize(Head(parts))
           step == StepOf(Head(sizes))
           end == WindowEnd(start, step, Len(tokens))
       IN  /\ Len(tokens) > step
           /\ start < Len(tokens)
           /\ Emit(<<SubSeq(tokens, start + 1, end)>>, end - start, step)
           /\ IF LastWindow(end, Len(tokens))
              THEN sizes' = Tail(sizes) /\ start' = 0
              ELSE sizes' = sizes /\ start' = NextStart(end, OverlapOf(cfg.overlap))
    /\ UNCHANGED <<args, sec, parts, pc>>

LeavePart ==
    /\ pc = "size"
    /\ sizes = <<>>
    /\ parts' = Tail(parts)
    /\ pc' = "part"
    /\ UNCHANGED <<args, output, sec, sizes, start>>

LeaveSection ==
    /\ pc = "part"
    /\ parts = <<>>
    /\ sec' = sec + 1
    /\ pc' = "section"
    /\ UNCHANGED <<args, output, parts, sizes, start>>

Return ==
    /\ pc = "section"
    /\ sec > Len(secs)
    /\ pc' = "done"
    /\ UNCHANGED <<args, output, sec, parts, sizes, start>>

Step ==
    \/ EmbedTOC \/ EnterSection \/ SkipEmptyPart \/ EnterPart \/ WholePart
    \/ CutWindow \/ LeavePart \/ LeaveSection \/ Return

-----------------------------------------------------------------------------
(* What the chunks should be, without a loop: the texts of the document in *)
(* order, then each kept at its first occurrence.                          *)

(* The k-th window starts k*(step-overlap) tokens in; there are as many as *)
(* it takes to reach the end.                                              *)
WindowTexts(part, step, overlap) ==
    LET tokens == tokenize(part)
        stride == step - overlap
        extra == (Len(tokens) - step + stride - 1) \div stride
    IN  IF Len(tokens) <= step THEN <<TrimSpace(part)>>
        ELSE [k \in 1 .. extra + 1 |->
                 LET first == (k - 1) * stride
                 IN  <<SubSeq(tokens, first + 1, Min({first + step, Len(tokens)}))>>]

PartTexts(part) ==
    IF tokenize(part) = <<>> THEN <<>>
    ELSE LET s == Sorted(<<cfg.maxTokens>> \o cfg.additional) IN
         FlattenSeq([i \in DOMAIN s |->
             WindowTexts(part, StepOf(s[i]), Max({0, cfg.overlap}))])

SectionTexts(section) ==
    LET ps == IF cfg.byParagraph THEN splitParagraphs(section.text) ELSE <<section.text>>
        head == IF cfg.embedHeadings /\ section.heading # <<>>
                THEN <<<<section.heading>>>> ELSE <<>>
    IN  head \o FlattenSeq([i \in DOMAIN ps |-> PartTexts(ps[i])])

FirstOccurrences(s) ==
    LET firsts == InOrder({i \in DOMAIN s : \A j \in 1 .. i - 1 : s[j] # s[i]})
    IN  [k \in DOMAIN firsts |-> s[firsts[k]]]

Reference(ss) ==
    LET toc == IF cfg.embedTOC /\ TOC(ss) # <<>> THEN <<TOC(ss)>> ELSE <<>>
    IN  FirstOccurrences(toc \o FlattenSeq([i \in DOMAIN ss |-> SectionTexts(ss[i])]))

Texts == [i \in DOMAIN chunks |-> chunks[i].text]

-----------------------------------------------------------------------------
(* The cursor stays inside the section and the part it points into.        *)
TypeOK ==
    /\ sec \in 1 .. Len(secs) + 1
    /\ nextID = Len(chunks) /\ seen = ToSet(Texts)
    /\ pc = "size" => parts # <<>> /\ start \in 0 .. Len(tokenize(Head(parts))) - 1

(* A chunk is counted as many tokens as its text has, blank lines that were *)
(* trimmed off or not; none is empty, and none exceeds the window size it   *)
(* was cut for, which is what the embedding service has to take.            *)
Counted ==
    \A i \in DOMAIN chunks :
        /\ chunks[i].tokens = Len(tokenize(chunks[i].text)) /\ chunks[i].tokens > 0
        /\ chunks[i].size > 0 => chunks[i].tokens <= chunks[i].size

(* Whatever is dropped as seen, each token of each part is, for each of the *)
(* sizes, inside a run of the part's tokens that is kept as a chunk and is  *)
(* no longer than that size.                                                *)
NothingDropped ==
    pc = "done" =>
        \A i \in DOMAIN secs : \A part \in ToSet(PartsOf(secs[i])) :
            LET tokens == tokenize(part) IN
            \A size \in {cfg.maxTokens} \cup ToSet(cfg.additional), k \in DOMAIN tokens :
                \E first \in 1 .. k, last \in k .. Len(tokens) :
                    /\ last - first < StepOf(size)
                    /\ \E text \in ToSet(Texts) : tokenize(text) = SubSeq(tokens, first, last)

=============================================================================
