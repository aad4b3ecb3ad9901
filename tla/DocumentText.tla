----------------------------- MODULE DocumentText -----------------------------
(***************************************************************************)
(* What the ingestion of Bird Eye makes of a file                          *)
(* (backend/bird_eye/ingestion.py): the paragraphs of a .docx become lines *)
(* of text, and lines become headings and the sections under them.  A text *)
(* file is one whose paragraphs are all plain.                             *)
(***************************************************************************)
EXTENDS FiniteSetsExt, Integers, Listings, SequencesExt

CONSTANTS
  Paragraphs,     \* paragraphs files are made of: [style, looks]
  MaxParagraphs,  \* bound: paragraphs of a file
  LengthOf,       \* LengthOf[p]: length of paragraph p
  TargetLength    \* target_chars

Styles == {"heading", "bullet", "number", "quote", "plain"}
\* "caps" is one of KNOWN_SECTION_HEADINGS in capitals, "column" one of
\* TABLE_HEADER_TERMS; a "phrase" begins with a capital and has no full stop.
Looks == {"blank", "markdown", "numbered", "caps", "column", "phrase", "sentence"}

ASSUME ParagraphsAssumption ==
  /\ Paragraphs \subseteq [style : Styles, looks : Looks]
  /\ LengthOf \in [Paragraphs -> Nat] /\ TargetLength \in Nat

VARIABLE file  \* its paragraphs

TextInit == file = <<>>
WriteParagraph(p) == Len(file) < MaxParagraphs /\ file' = Append(file, p)

TextNext == \E p \in Paragraphs : WriteParagraph(p)
TextSpec == TextInit /\ [][TextNext]_file
-----------------------------------------------------------------------------
(* _extract_text_docx *)

\* What a line looks like once the hint of its style is in front of it.  A
\* phrase with a number in front looks like a numbered heading.
LooksLike(p) ==
  IF p.looks = "blank" THEN "blank"
  ELSE CASE p.style = "heading" -> "markdown"
         [] p.style \in {"bullet", "quote"} -> "sentence"
         [] p.style = "number" /\ p.looks # "numbered" ->
              IF p.looks \in {"phrase", "caps", "column"} THEN "numbered" ELSE "sentence"
         [] OTHER -> p.looks

Blank(k) == file[k].looks = "blank"

\* Of a stretch of blank lines the first is kept, of the last one none.
Stays(k) ==
  Blank(k) => /\ k > 1 => ~Blank(k - 1)
              /\ \E j \in DOMAIN file : j > k /\ ~Blank(j)

KeepLine(lines, k) == IF Stays(k) THEN Append(lines, k) ELSE lines

Lines == FoldLeftDomain(KeepLine, <<>>, file)
-----------------------------------------------------------------------------
(* _detect_heading *)

Follows(n) ==
  LET rest == SelectSeq(SubSeq(Lines, n + 1, Len(Lines)), LAMBDA k : ~Blank(k))
  IN IF rest = <<>> THEN "blank" ELSE LooksLike(file[rest[1]])

IsHeading(n) ==
  LET looks == LooksLike(file[Lines[n]])
  IN \/ looks \in {"markdown", "numbered"}
     \/ /\ looks = "caps"
        /\ n = 1 \/ Blank(Lines[n - 1])
        /\ Follows(n) # "column"
-----------------------------------------------------------------------------
(* split_sections; of a section matter its heading, 0 if it has none, and  *)
(* the lines of its content that are not blank.                            *)

Close(read) ==
  IF read.heading = 0 THEN read.sections
  ELSE Append(read.sections, [heading |-> read.heading, content |-> read.content])

ReadLineDroppingSection(read, n) ==
  IF IsHeading(n)
  THEN [sections |-> IF read.content = <<>> THEN Close(read) ELSE read.sections,
        heading |-> Lines[n], content |-> <<>>]
  ELSE IF read.heading = 0 \/ Blank(Lines[n]) THEN read
  ELSE [read EXCEPT !.content = Append(@, Lines[n])]

ReadLine(read, n) ==
  IF IsHeading(n)
  THEN [sections |-> Close(read), heading |-> Lines[n], content |-> <<>>]
  ELSE IF read.heading = 0 \/ Blank(Lines[n]) THEN read
  ELSE [read EXCEPT !.content = Append(@, Lines[n])]

NoLineRead == [sections |-> <<>>, heading |-> 0, content |-> <<>>]
SectionsRead == Close(FoldLeftDomain(ReadLine, NoLineRead, Lines))

\* A section without content is dropped.
KeepSection(kept, section) ==
  IF section.content = <<>> THEN kept ELSE Append(kept, section)

Headed == FoldLeft(KeepSection, <<>>, SectionsRead)
-----------------------------------------------------------------------------
(* _chunk_unsectioned_text *)

\* Paragraphs of text, between blank lines.
AddToStretches(stretches, n) ==
  IF Blank(Lines[n]) THEN stretches
  ELSE IF n = 1 \/ Blank(Lines[n - 1]) THEN Append(stretches, <<Lines[n]>>)
  ELSE [stretches EXCEPT ![Len(stretches)] = Append(@, Lines[n])]

Stretches == FoldLeftDomain(AddToStretches, <<>>, Lines)

LengthOfLines(lines) == FoldLeft(LAMBDA sum, k : sum + LengthOf[file[k]], 0, lines)

\* As many of them as fit, or one that does not, make a part.
Pack(parts, stretch) ==
  IF parts # <<>> /\ LengthOfLines(Last(parts) \o stretch) <= TargetLength
  THEN [parts EXCEPT ![Len(parts)] = @ \o stretch]
  ELSE Append(parts, stretch)

Packed == FoldLeft(Pack, <<>>, Stretches)

SectionsOfText ==
  IF Headed # <<>> THEN Headed
  ELSE [n \in DOMAIN Packed |-> [heading |-> 0, content |-> Packed[n]]]
-----------------------------------------------------------------------------
(***************************************************************************)
(* What is reviewed and cited is what the file says: every line after the  *)
(* first heading that is not a heading itself is in one section, that of   *)
(* the last heading before it, and no line is in two; a file in which      *)
(* nothing follows a heading is kept as a whole (ingestion.py:326-358).    *)
(***************************************************************************)
Prose == {k \in DOMAIN file : ~Blank(k)}
HeadingLines == {Lines[n] : n \in {n \in DOMAIN Lines : IsHeading(n)}}
Headings(k) == {h \in HeadingLines : h < k}

Body == {k \in Prose \ HeadingLines : Headings(k) # {}}

TextIsKept ==
  LET sections == SectionsOfText
  IN /\ ListsInOrder([n \in DOMAIN sections |-> sections[n].content],
                     IF Body # {} THEN Body ELSE Prose)
     /\ \A n \in DOMAIN sections : \A k \in ToSet(sections[n].content) :
          sections[n].heading = IF Body = {} THEN 0 ELSE Max(Headings(k))

=============================================================================
