---------------------------- MODULE TemplateMapping ----------------------------
(***************************************************************************)
(* The template of a migration (backend/api/routes.py): an uploaded file   *)
(* is read for the sections, header fields and tables it has, and their    *)
(* order is what the model is asked for.  Other code than that of the      *)
(* source reads it, so both are looked at for one and the same file.       *)
(***************************************************************************)
EXTENDS SourceMapping

SectionOf(line) ==
  IF line[2] = 0 THEN source[line[1]].section ELSE source[line[1]].rows[line[2]].section

\* _canonical_template_section_key: nothing but the name of a section.
IsCanonical(line) == SectionOf(line) # Unmapped /\ ~(line[2] = 0 /\ source[line[1]].inline)

NoTemplate == [fields |-> <<>>, sections |-> <<>>, tables |-> <<>>]

\* _append_template_header_field
AddField(map, line) ==
  IF HeaderOf(line) = Unmapped THEN map ELSE [map EXCEPT !.fields = Append(@, line)]

\* _append_template_heading: a label that is no section is a section of its own,
\* known by its line.
AddHeading(map, line) ==
  [map EXCEPT !.sections =
     Append(@, [line |-> line,
                output |-> IF IsCanonical(line) THEN <<SectionOf(line)>> ELSE line])]

AddRow(map, line) == IF IsCanonical(line) THEN AddHeading(map, line) ELSE map
AddRows(map, lines) == FoldLeft(AddRow, map, lines)
AddFields(map, lines) == FoldLeft(AddField, map, lines)
AddTable(map, n) == [map EXCEPT !.tables = Append(@, n)]
-----------------------------------------------------------------------------
(* _extract_docx_template_section_map *)

Styled(line) == source[line[1]].styled

ReadParagraphStyled(map, line) ==
  CASE HeaderOf(line) # Unmapped -> AddField(map, line)
    [] HeaderOf(line) = Unmapped /\ Styled(line) -> AddHeading(map, line)
    [] OTHER -> map

ReadParagraph(map, line) ==
  CASE HeaderOf(line) # Unmapped -> AddField(map, line)
    [] HeaderOf(line) = Unmapped /\ (Styled(line) \/ IsCanonical(line)) -> AddHeading(map, line)
    [] OTHER -> map

\* A table that gives a header field gives nothing else.
ReadTable(map, n) ==
  IF \E line \in ToSet(Rows(n)) : HeaderOf(line) # Unmapped
  THEN AddFields(map, Rows(n))
  ELSE AddTable(AddRows(map, Rows(n)), n)

ReadTemplateBlock(map, n) ==
  IF source[n].kind = "table" THEN ReadTable(map, n) ELSE ReadParagraph(map, <<n, 0>>)

ReadDocx == FoldLeftDomain(ReadTemplateBlock, NoTemplate, source)

\* _extract_markdown_text_section_map: headings have their marks, or begin with
\* the name of a section.  In a text there are no tables.
ReadLineOfText(map, n) ==
  LET line == <<n, 0>> IN
  CASE source[n].kind = "table" -> map
    [] source[n].kind # "table" /\ HeaderOf(line) # Unmapped -> AddField(map, line)
    [] source[n].kind # "table" /\ HeaderOf(line) = Unmapped ->
         IF Styled(line) \/ SectionOf(line) # Unmapped THEN AddHeading(map, line) ELSE map

ReadText == FoldLeftDomain(ReadLineOfText, NoTemplate, source)

\* _extract_csv_template_section_map, and that of a spreadsheet: the first row
\* has the titles of the columns.
ReadSheet(n) ==
  AddTable(AddRows(NoTemplate, Tail(Rows(n))), n)

\* _extract_template_section_map
TemplateMaps ==
  {ReadDocx, ReadText}
    \cup {ReadSheet(n) : n \in {n \in DOMAIN source : source[n].kind = "table"}}

\* _finalize_template_section_map
KeepFirst(order, s) ==
  IF Contains(order, s.output) THEN order ELSE Append(order, s.output)

SectionOrder(map) == FoldLeft(KeepFirst, <<>>, map.sections)
-----------------------------------------------------------------------------
(***************************************************************************)
(* A document that is a template asks for the sections it would give as a  *)
(* source, but for those named on the line of their text only; they are    *)
(* asked for in the order in which they begin; and no line is both a       *)
(* section and a field (routes.py:1025-1188 against 859-926).              *)
(***************************************************************************)
FirstOf(map, output) == SelectInSeq(map.sections, LAMBDA s : s.output = output)
Taken(map) == [k \in DOMAIN map.sections |-> map.sections[k].line] \o map.fields

AsksInOrder(map) ==
  LET order == SectionOrder(map) IN
  \A j \in DOMAIN order : \A i \in 1..(j - 1) :
    Before(map.sections[FirstOf(map, order[i])].line, map.sections[FirstOf(map, order[j])].line)

Named(s) ==
  \E n \in DOMAIN source : Opens(n) /\ ~source[n].inline /\ source[n].section = s

GivesAll(order) ==
  \A s \in SectionKeys :
    (MapSource.sections[s] # <<>> /\ Named(s)) => Contains(order, <<s>>)

TemplateAsksForSource ==
  /\ \A map \in TemplateMaps : AsksInOrder(map) /\ IsInjective(Taken(map))
  /\ GivesAll(SectionOrder(ReadDocx))

\* What becomes of a file that is migrated, or that others are migrated to.
MigrationIsMapped == SourceIsMapped /\ TemplateAsksForSource
=============================================================================
