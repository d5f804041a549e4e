------------------------------ MODULE Markdown ------------------------------
(***************************************************************************)
(* ParseMarkdown of internal/rag/ingest/markdown.go in front of            *)
(* BuildChunks: goldmark's walk over the blocks of a file writes their     *)
(* texts to one buffer and cuts the buffer at the headings.  A section's   *)
(* text is what was written since its heading was entered, the heading's   *)
(* own words included; there is no separator between two blocks, so the    *)
(* last word of one and the first word of the next become one word.        *)
(*                                                                         *)
(* A word is the sequence of its pieces, so that words can be joined.      *)
(***************************************************************************)
EXTENDS Chunking

CONSTANTS Files,    \* documents, as the blocks goldmark finds in them
          NoFile    \* BuildChunks is called with sections, as its tests do

(* Only a block that is silent has no text at all, and a heading is one     *)
(* line: one underlined under several lines is left out.                   *)
Block == {b \in [kind : {"heading", "prose", "code", "silent"}, text : Text] :
              /\ b.kind # "silent" => b.text # <<>>
              /\ b.kind = "heading" => Len(b.text) = 1}

ASSUME MarkdownAssumption ==
    "fence" \in Pieces /\ Files \subseteq Seq(Block) /\ NoFile \notin Files

VARIABLES file, at,  \* the document and the next block of the walk
          cur,       \* <<>>, or the open section's heading in a tuple
          buf        \* what was written, as lines; the last one is open

walk == <<file, at, cur, buf>>
mdvars == <<walk, vars>>

Fence == <<<<"fence">>>>
Empty == <<<<>>>>

(* The first word of m continues the last word of l.                       *)
JoinWords(l, m) ==
    IF l = <<>> \/ m = <<>> THEN l \o m
    ELSE Front(l) \o <<Last(l) \o Head(m)>> \o Tail(m)

(* The first line of t continues the open line of b.                       *)
JoinLines(b, t) == Front(b) \o <<JoinWords(Last(b), Head(t))>> \o Tail(t)

(* What the walk writes for a block: only indented code is an ast.CodeBlock *)
(* and is fenced; a fenced block or HTML has no ast.Text and is silent.    *)
Written(block) ==
    CASE block.kind = "silent" -> Empty
      [] block.kind = "code"   -> <<Fence>> \o block.text \o <<<<>>, Fence, <<>>>>
      [] OTHER                 -> block.text

-----------------------------------------------------------------------------
MDInit ==
    /\ cur = <<>> /\ buf = Empty /\ at = 1
    /\ chunks = <<>> /\ seen = {} /\ nextID = 0
    /\ sec = 1 /\ parts = <<>> /\ sizes = <<>> /\ start = 0
    /\ cfg \in Configs
    /\ \/ file = NoFile /\ secs \in Documents /\ pc = "toc"
       \/ file \in Files /\ secs = <<>> /\ pc = "parse"

ReadFails ==
    /\ pc = "parse" /\ at = 1
    /\ pc' = "failed"
    /\ UNCHANGED <<walk, args, output, sec, parts, sizes, start>>

Closed == Append(secs, [heading |-> Head(cur), text |-> TrimSpace(buf)])

(* A bug: the buffer is not reset when a section is closed. *)
EnterHeading_KeepsBuffer ==
    /\ pc = "parse" /\ at <= Len(file) /\ file[at].kind = "heading"
    /\ secs' = IF cur = <<>> THEN secs ELSE Closed
    /\ cur' = <<Head(file[at].text)>>
    /\ buf' = JoinLines(buf, file[at].text)
    /\ at' = at + 1
    /\ UNCHANGED <<file, cfg, output, sec, parts, sizes, start, pc>>
(* The open section is closed; before the first heading there is none, and *)
(* what was written so far is left to the section that starts here.        *)
EnterHeading ==
    /\ pc = "parse" /\ at <= Len(file) /\ file[at].kind = "heading"
    /\ secs' = IF cur = <<>> THEN secs ELSE Closed
    /\ cur' = <<Head(file[at].text)>>
    /\ buf' = JoinLines(IF cur = <<>> THEN buf ELSE Empty, file[at].text)
    /\ at' = at + 1
    /\ UNCHANGED <<file, cfg, output, sec, parts, sizes, start, pc>>

EnterBlock ==
    /\ pc = "parse" /\ at <= Len(file) /\ file[at].kind # "heading"
    /\ buf' = JoinLines(buf, Written(file[at]))
    /\ at' = at + 1
    /\ UNCHANGED <<file, cur, args, output, sec, parts, sizes, start, pc>>

(* A file without a heading has no section, whatever was written.          *)
LeaveDocument ==
    /\ pc = "parse" /\ at > Len(file)
    /\ secs' = IF cur = <<>> THEN secs ELSE Closed
    /\ pc' = "toc"
    /\ UNCHANGED <<walk, cfg, output, sec, parts, sizes, start>>

Parse == ReadFails \/ EnterHeading \/ EnterBlock \/ LeaveDocument

Build == Step /\ UNCHANGED walk

Ended == pc \in {"done", "failed"} /\ UNCHANGED mdvars

MDNext == Parse \/ Build \/ Ended

(* Parsing and chunking a file is sequential: a worker keeps going.        *)
MDSpec == MDInit /\ [][MDNext]_mdvars /\ WF_mdvars(Parse \/ Build)

-----------------------------------------------------------------------------
(* What blocks m to n of a file write, one after the other.                *)
WrittenBy(f, m, n) ==
    LET lines[i \in m - 1 .. n] ==
            IF i = m - 1 THEN Empty ELSE JoinLines(lines[i - 1], Written(f[i]))
    IN  lines[n]

(* The sections of a file's first n blocks, without a walk: one for each   *)
(* heading, with what is written from there to the next one, the first     *)
(* also with what precedes it.                                             *)
SectionsTo(f, n) ==
    LET heads == InOrder({i \in 1 .. n : f[i].kind = "heading"})
        From(k) == IF k = 1 THEN 1 ELSE heads[k]
        To(k) == IF k = Len(heads) THEN n ELSE heads[k + 1] - 1
    IN  [k \in DOMAIN heads |->
            [heading |-> Head(f[heads[k]].text),
             text    |-> TrimSpace(WrittenBy(f, From(k), To(k)))]]

Sections == IF file = NoFile THEN secs ELSE SectionsTo(file, Len(file))

(* A file becomes exactly the windows of every part of its sections under  *)
(* every size, in document order, each text once: no block is lost that    *)
(* follows or precedes a heading, and nothing is stored twice.             *)
MatchesReference == pc = "done" => Texts = Reference(Sections)

(* Without a table of contents, sections already split keep their chunk    *)
(* ids whatever follows: appending sections to a file leaves the keys of   *)
(* its stored rows valid.                                                  *)
AppendKeepsKeys ==
    pc = "section" /\ ~cfg.embedTOC =>
        /\ Texts = Reference(SubSeq(Sections, 1, sec - 1))
        /\ \A i \in DOMAIN chunks : chunks[i].id = i - 1

(* What is left of a run, the outermost loop first. *)
Stage ==
    CASE pc = "parse" -> 3
      [] pc = "toc" -> 2
      [] pc \in {"section", "part", "size"} -> 1
      [] OTHER -> 0
Remaining ==
    <<Stage,
      IF pc = "parse" THEN Len(file) + 1 - at ELSE 0,
      Len(secs) + 1 - sec,
      IF pc = "section" THEN 1 ELSE 0,
      IF pc \in {"part", "size"} THEN Len(parts) ELSE 0,
      IF pc = "part" THEN 1 ELSE 0,
      IF pc = "size" THEN Len(sizes) ELSE 0,
      IF pc = "size" THEN Len(tokenize(Head(parts))) - start ELSE 0>>
Smaller(x, y) == \E k \in 1 .. 8 : x[k] < y[k] /\ \A j \in 1 .. k - 1 : x[j] = y[j]

(* A part longer than a window that is not above the overlap: the code     *)
(* cuts the same window again and again.                                   *)
Endless ==
    /\ pc = "size" /\ sizes # <<>>
    /\ Len(tokenize(Head(parts))) > StepOf(Head(sizes))
    /\ OverlapOf(cfg.overlap) >= StepOf(Head(sizes))

(* Each turn of each loop takes from what is left, unless the settings make *)
(* the innermost loop endless: why the code ends whenever they do not.      *)
GetsOn ==
    [][/\ Remaining \in [1 .. 8 -> Nat]
       /\ Endless \/ Smaller(Remaining', Remaining)]_mdvars

(* Every file is parsed and chunked in the end, or was not readable.       *)
Terminates == <>(pc \in {"done", "failed"})
=============================================================================
