--------------------------- MODULE MC_SourceMapping ---------------------------
(* Sources for TLC: one of each kind of paragraph, and tables of one or two  *)
(* rows.                                                                     *)
EXTENDS TemplateMapping, TLC

CONSTANTS version, purpose

Block(kind) == [kind |-> kind, header |-> Unmapped, section |-> Unmapped,
                inline |-> FALSE, styled |-> FALSE, rows |-> <<>>]
Heading(section, inline) ==
  [Block("heading") EXCEPT !.section = section, !.inline = inline]
Row(header, section, titles) == [header |-> header, section |-> section, titles |-> titles]

SourceBlocks ==
  { Block("blank"), Block("text"), [Block("text") EXCEPT !.styled = TRUE],
    [Block("header") EXCEPT !.header = version],
    Heading(purpose, FALSE), Heading(purpose, TRUE), Heading(History, FALSE),
    [Block("table") EXCEPT !.rows = <<Row(version, Unmapped, FALSE)>>],
    [Block("table") EXCEPT !.rows = <<Row(Unmapped, Unmapped, TRUE),
                                      Row(Unmapped, purpose, FALSE)>>] }

Reply(wellFormed, fields, sections) ==
  [wellFormed |-> wellFormed, fields |-> fields, sections |-> "none", listed |-> sections]

ModelReplies ==
  { Reply(FALSE, {purpose}, {}), Reply(TRUE, {}, {}), Reply(TRUE, {purpose, History}, {}),
    [Reply(TRUE, {}, {purpose}) EXCEPT !.sections = "listed"] }
=============================================================================
