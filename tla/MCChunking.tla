----------------------------- MODULE MCChunking -----------------------------
(* An instance of Markdown, and with it Chunking, for TLC. *)
EXTENDS Markdown

SomePieces == {"h", "a", "b", "c", "d", "e", "f", "x", "y", "fence"}

(* Texts with repeated windows, repeated paragraphs, a text equal to a     *)
(* heading, blank lines at the ends, one line and two lines with the same  *)
(* words, and texts without a word.                                        *)
SomeTexts ==
    {<<>>, <<<<>>>>, <<<<<<"h">>>>>>,
     <<<<<<"a">>, <<"b">>>>>>,
     <<<<<<"a">>>>, <<<<"b">>>>>>,
     <<<<>>, <<<<"a">>, <<"b">>>>, <<>>, <<>>, <<<<"a">>, <<"b">>>>, <<>>>>,
     <<<<<<"a">>, <<"b">>, <<"a">>, <<"b">>, <<"a">>, <<"b">>, <<"a">>>>>>,
     <<<<<<"a">>, <<"b">>, <<"c">>>>, <<<<"d">>, <<"e">>>>, <<>>, <<<<"f">>>>>>}

SomeSections == [heading : {<<>>, <<<<"h">>>>}, text : SomeTexts]

SomeDocuments ==
    {<<s>> : s \in SomeSections} \cup {<<s, t>> : s, t \in SomeSections}
        \cup {<<>>}

(* The first overlap is below every size of its group; -1 and 0 as a size  *)
(* stand for 800, -1 as an overlap for 0.                                  *)
Structure == [embedTOC : BOOLEAN, embedHeadings : BOOLEAN, byParagraph : BOOLEAN]
Sizing ==
    {[maxTokens |-> 3, additional |-> <<>>, overlap |-> 1],
     [maxTokens |-> 4, additional |-> <<2, 0>>, overlap |-> 1],
     [maxTokens |-> 2, additional |-> <<2>>, overlap |-> -1],
     [maxTokens |-> -1, additional |-> <<3>>, overlap |-> 2]}

SomeConfigs == {[embedTOC |-> s.embedTOC, embedHeadings |-> s.embedHeadings,
                 byParagraph |-> s.byParagraph, maxTokens |-> z.maxTokens,
                 additional |-> z.additional, overlap |-> z.overlap]
                    : s \in Structure, z \in Sizing}

(* A heading, one without text, one line of prose, two lines whose second  *)
(* is the heading's text, indented code, and a block that writes nothing.  *)
SomeBlocks ==
    {[kind |-> "heading", text |-> <<<<<<"h">>>>>>],
     [kind |-> "heading", text |-> <<<<>>>>],
     [kind |-> "prose",   text |-> <<<<<<"a">>, <<"b">>>>>>],
     [kind |-> "prose",   text |-> <<<<<<"c">>>>, <<<<"h">>>>>>],
     [kind |-> "code",    text |-> <<<<<<"x">>>>, <<<<"y">>>>>>],
     [kind |-> "silent",  text |-> <<>>]}

(* Every file of at most three of these, and of four headings and proses.  *)
SomeFiles ==
    UNION {[1 .. n -> SomeBlocks] : n \in 0 .. 3}
        \cup [1 .. 4 -> {b \in SomeBlocks : b.kind \in {"heading", "prose"}}]
=============================================================================
