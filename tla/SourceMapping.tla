----------------------------- MODULE SourceMapping -----------------------------
(***************************************************************************)
(* The migration of a document (backend/api/routes.py): its paragraphs and *)
(* tables are mapped to header fields and sections without a model, a      *)
(* language model reconstructs the policy as JSON, what was mapped is put  *)
(* over that, and a .docx is rendered.  What the user changes in between   *)
(* are the same fields, and left out.  How documents are counted and       *)
(* stored is DocumentPipeline's.                                           *)
(***************************************************************************)
EXTENDS FiniteSetsExt, Integers, SequencesExt

CONSTANTS
  Blocks,       \* paragraphs and tables sources are made of, see BlocksAssumption
  MaxBlocks,    \* bound: blocks of a source
  HeaderKeys,   \* keys of MIGRATE_HEADER_ALIASES
  BodySections, \* keys of MIGRATE_SECTION_ALIASES but for revision_history
  Replies,      \* what the model may answer, see RepliesAssumption
  Unmapped      \* no header field, no section

History == "revision_history"
SectionKeys == BodySections \cup {History}

\* A paragraph is blank, names a header field and its value, is the heading of
\* a section, with or without text on the same line, or any other text.  A row
\* of a table may name a header field and its value, or be a row of column
\* titles, or begin with the name of a section; a row without any text is not
\* in it, and a table without rows is none.  Any paragraph but a blank one may
\* look like a heading.  No alias of a header field is one of a section, so a
\* heading names no field.
RowsOfTables ==
  [header : HeaderKeys \cup {Unmapped}, section : SectionKeys \cup {Unmapped}, titles : BOOLEAN]

ASSUME BlocksAssumption ==
  /\ Unmapped \notin HeaderKeys \cup SectionKeys /\ History \notin BodySections
  /\ \A b \in Blocks :
       /\ b.kind \in {"blank", "text", "header", "heading", "table"}
       /\ b.header \in HeaderKeys \cup {Unmapped}
       /\ b.section \in SectionKeys \cup {Unmapped}
       /\ b.inline \in BOOLEAN /\ b.styled \in BOOLEAN
       /\ b.rows \in Seq(RowsOfTables)
       /\ b.kind = "blank" => b.header = Unmapped /\ b.section = Unmapped /\ ~b.styled
       /\ b.kind = "heading" => b.header = Unmapped /\ b.section # Unmapped
       /\ b.kind = "table" => b.rows # <<>>

\* A reply that is not well-formed is not JSON, or has no title, no organization,
\* or sections that are not sections; sections are "none" when it has only the
\* fields at its top level.
ASSUME RepliesAssumption ==
  \A r \in Replies :
    /\ r.wellFormed \in BOOLEAN
    /\ r.fields \subseteq SectionKeys
    /\ r.sections = "none" \/ (r.sections = "listed" /\ r.listed \subseteq SectionKeys)

VARIABLES
  source,   \* the blocks of the document
  stage,    \* "source", "preview", "done" or "refused"
  policyData,   \* policy_data: fields and sections, and where their text is from
  rendered  \* the text of each section of the .docx, Unmapped for none

migrationVars == <<source, stage, policyData, rendered>>

NoPolicy == [fields |-> [s \in SectionKeys |-> <<>>],
             sections |-> [s \in SectionKeys |-> <<>>],
             headers |-> [h \in HeaderKeys |-> <<>>]]

MigrationInit ==
  /\ source = <<>> /\ stage = "source"
  /\ policyData = NoPolicy
  /\ rendered = [s \in SectionKeys |-> <<>>]

\* _extract_source_blocks
AddBlock(b) ==
  /\ stage = "source" /\ Len(source) < MaxBlocks
  /\ source' = Append(source, b)
  /\ UNCHANGED <<stage, policyData, rendered>>
-----------------------------------------------------------------------------
(* _map_migrate_source; a line is <<n, 0>> for the paragraph n and <<n, k>>  *)
(* for row k of the table n.                                                *)

HeaderOf(line) ==
  IF line[2] = 0 THEN source[line[1]].header ELSE source[line[1]].rows[line[2]].header

\* The first line that names a field gives its value.
CaptureLastHeader(read, line) ==
  IF HeaderOf(line) = Unmapped THEN read
  ELSE [read EXCEPT !.headers[HeaderOf(line)] = line]

CaptureHeader(read, line) ==
  LET key == HeaderOf(line)
  IN IF key = Unmapped \/ read.headers[key] # <<>> THEN read
     ELSE [read EXCEPT !.headers[key] = line]

CaptureHeaders(read, lines) == FoldLeft(CaptureHeader, read, lines)

Rows(n) == [k \in DOMAIN source[n].rows |-> <<n, k>>]

AddLines(read, section, lines) == [read EXCEPT !.parts[section] = @ \o lines]

MapParagraph(read, n) ==
  LET block == source[n]
      captured == CaptureHeader(read, <<n, 0>>)
      opened == [read EXCEPT !.current = block.section]
  IN CASE block.kind = "blank" ->
            IF read.current \notin {Unmapped, History} /\ read.parts[read.current] # <<>>
            THEN AddLines(read, read.current, <<<<n, 0>>>>) ELSE read
       [] block.kind # "blank" /\ captured # read -> captured
       [] block.kind = "heading" ->
            IF block.inline THEN AddLines(opened, block.section, <<<<n, 0>>>>) ELSE opened
       [] OTHER ->
            IF read.current = Unmapped THEN read
            ELSE AddLines(read, read.current, <<<<n, 0>>>>)

\* The rows of a table that gives header fields are part of the section too,
\* when there is one.
MapTable(read, n) ==
  LET captured == CaptureHeaders(read, Rows(n))
  IN IF read.current = Unmapped THEN captured
     ELSE AddLines(captured, read.current, Rows(n))

MapBlock(read, n) ==
  IF source[n].kind = "table" THEN MapTable(read, n) ELSE MapParagraph(read, n)

IsBlank(line) == source[line[1]].kind = "blank"

\* _join_verbatim_content: blank lines at the ends are stripped.
Joined(lines) ==
  LET full == {k \in DOMAIN lines : ~IsBlank(lines[k])}
  IN IF full = {} THEN <<>> ELSE SubSeq(lines, Min(full), Max(full))

\* _build_revision_history: a first row of column titles is left out.
ColumnTitles(line) == line[2] # 0 /\ source[line[1]].rows[line[2]].titles
Revisions(lines) ==
  IF lines # <<>> /\ ColumnTitles(lines[1]) THEN Tail(lines) ELSE lines

NothingMapped ==
  [headers |-> [h \in HeaderKeys |-> <<>>],
   parts |-> [s \in SectionKeys |-> <<>>], current |-> Unmapped]

SourceRead == FoldLeftDomain(MapBlock, NothingMapped, source)

MapSource ==
  [headers |-> SourceRead.headers,
   sections |-> [s \in SectionKeys |->
                   IF s = History THEN Revisions(SourceRead.parts[s])
                   ELSE Joined(SourceRead.parts[s])]]
-----------------------------------------------------------------------------
(* _extract_policy_data *)

TheModels == <<<<0, 0>>>>  \* a line of no source

\* normalize_policy_payload: a policy without sections gets those its fields
\* make; it must have some.
SectionsOf(reply) == IF reply.sections = "none" THEN reply.fields ELSE reply.listed
Reconstructed(reply) ==
  [fields |-> [s \in SectionKeys |-> IF s \in reply.fields THEN TheModels ELSE <<>>],
   sections |-> [s \in SectionKeys |-> IF s \in SectionsOf(reply) THEN TheModels ELSE <<>>],
   headers |-> NoPolicy.headers]

\* _apply_migrate_source_mapping: what was mapped is put over the fields.
Overlaid(data) ==
  [data EXCEPT !.fields = [s \in SectionKeys |->
                             IF MapSource.sections[s] # <<>> THEN MapSource.sections[s] ELSE @[s]],
               !.headers = MapSource.headers]

Preview(reply) ==
  /\ stage = "source"
  /\ IF reply.wellFormed /\ SectionsOf(reply) # {}
     THEN policyData' = Overlaid(Reconstructed(reply)) /\ stage' = "preview"
     ELSE stage' = "refused" /\ UNCHANGED policyData
  /\ UNCHANGED <<source, rendered>>

\* migrate_generate and _build_docx: the sections there are, and the revision
\* history field in a table of its own.
Generate ==
  /\ stage = "preview"
  /\ rendered' = [policyData.sections EXCEPT ![History] = policyData.fields[History]]
  /\ stage' = "done"
  /\ UNCHANGED <<source, policyData>>

MigrationNext ==
  (\E b \in Blocks : AddBlock(b)) \/ (\E r \in Replies : Preview(r)) \/ Generate

MigrationSpec == MigrationInit /\ [][MigrationNext]_migrationVars
-----------------------------------------------------------------------------
(***************************************************************************)
(* What is mapped is what the source says: a header field has the value of *)
(* the first line that names it; a section has, in their order, the lines  *)
(* whose last heading before them is one of its own, but for the headings  *)
(* and the paragraphs that gave a header field (routes.py:859-926).        *)
(***************************************************************************)
LinesOf(n) == IF source[n].kind = "table" THEN ToSet(Rows(n)) ELSE {<<n, 0>>}
SourceLines == UNION {LinesOf(n) : n \in DOMAIN source}

Before(l, m) == l[1] < m[1] \/ (l[1] = m[1] /\ l[2] < m[2])
InOrder(lines) == \A i, j \in DOMAIN lines : i < j => Before(lines[i], lines[j])
IsFirst(line, lines) == line \in lines /\ \A l \in lines \ {line} : Before(line, l)

Naming(key) == {l \in SourceLines : HeaderOf(l) = key}

Opens(n) == source[n].kind = "heading"
LastOpened(n) ==
  LET opened == {m \in 1..n : Opens(m)}
  IN IF opened = {} THEN Unmapped ELSE source[Max(opened)].section

GivesHeader(line) ==
  line[2] = 0 /\ HeaderOf(line) # Unmapped /\ IsFirst(line, Naming(HeaderOf(line)))

\* The lines under the headings of s, and those of them that say something.
LinesUnder(s) ==
  {l \in SourceLines : /\ LastOpened(l[1]) = s /\ ~GivesHeader(l)
                       /\ Opens(l[1]) => source[l[1]].inline}
TextUnder(s) == {l \in LinesUnder(s) : ~IsBlank(l)}

\* Blank lines are kept between others.
BodyOf(s) ==
  {l \in LinesUnder(s) : /\ l \in TextUnder(s) \/ \E m \in TextUnder(s) : Before(m, l)
                         /\ l \in TextUnder(s) \/ \E m \in TextUnder(s) : Before(l, m)}
RevisionsUnder ==
  {l \in TextUnder(History) : ColumnTitles(l) => ~IsFirst(l, TextUnder(History))}

SourceIsMapped ==
  LET mapped == MapSource IN
  /\ \A key \in HeaderKeys :
       IF Naming(key) = {} THEN mapped.headers[key] = <<>>
       ELSE IsFirst(mapped.headers[key], Naming(key))
  /\ \A s \in SectionKeys :
       /\ InOrder(mapped.sections[s])
       /\ ToSet(mapped.sections[s]) = IF s = History THEN RevisionsUnder ELSE BodyOf(s)

(***************************************************************************)
(* "For mapped source sections and header fields, copy content verbatim.   *)
(* Never paraphrase or summarize mapped source sections" (routes.py:       *)
(* 1848-1849): what was mapped is what the .docx says.                     *)
(***************************************************************************)
MappedIsRendered ==
  stage = "done" =>
    \A s \in SectionKeys :
      MapSource.sections[s] # <<>> => rendered[s] = MapSource.sections[s]
=============================================================================
