------------------------------ MODULE LogReport ------------------------------
(* How the output of a run is shown (nevermore-cli/src/utils/testing/      *)
(* parsers): the log of a batch, wrapped in one group per package, and the *)
(* annotations that are read from the failures and stacks in it.           *)
EXTENDS BatchLog
LOCAL INSTANCE Folds
LOCAL INSTANCE SequencesExt

\* A line of the rendering: it opens or closes a group, gives a verdict, or shows
\* the line of the log with that number.
Shown(is, slug, line) == [is |-> is, slug |-> slug, line |-> line]

\* openGroup: the title carries the verdict of the package it names.
OpenGroup(slug) == <<Shown("open", slug, 0)>>

CloseGroup(page) ==
    IF page.open = 0 THEN page
    ELSE [page EXCEPT !.out = Append(@, Shown("close", page.open, 0)),
                      !.open = 0, !.orphanStart = Len(page.out) + 1]

\* Mutant: a BEGIN opens its group inside the one that is still open.
BegunInside(page, slug) ==
    [page EXCEPT !.open = slug, !.rendered = @ \cup {slug},
                 !.out = @ \o OpenGroup(slug)]

\* A BEGIN closes whatever is still open and opens its own group.
Begun(page, slug) ==
    LET closed == CloseGroup(page)
    IN [closed EXCEPT !.open = slug, !.rendered = @ \cup {slug},
                      !.out = @ \o OpenGroup(slug)]

\* An END with no open group is one whose BEGIN was cut off: its header is put in
\* above the lines that came before it.
Ended(page, slug) ==
    LET opened == IF page.open # 0 THEN page
                  ELSE [page EXCEPT
                          !.out = SubSeq(@, 1, page.orphanStart) \o OpenGroup(slug)
                                    \o SubSeq(@, page.orphanStart + 1, Len(@)),
                          !.open = slug]
    IN CloseGroup([opened EXCEPT !.rendered = @ \cup {slug},
                                 !.out = Append(@, Shown("verdict", slug, 0))])

RenderToken(page, token) ==
    CASE token.kind = "begin" -> Begun(page, token.slug)
      [] token.kind = "end" -> Ended(page, token.slug)
      [] token.kind \in {"summary", "payload"} -> page
      [] OTHER -> [page EXCEPT !.out = Append(@, Shown("line", 0, token.line))]

\* Packages that never appeared in the log get a group that says so.
SectionlessGroups(rendered) ==
    FoldLeft(LAMBDA out, slug :
               IF slug \in rendered THEN out
               ELSE out \o OpenGroup(slug) \o <<Shown("verdict", slug, 0),
                                                Shown("close", slug, 0)>>,
             <<>>, [i \in 1 .. Slugs |-> i])

\* Lines are numbered as they arrived; the renderer and the parser tokenize the same
\* lines, so a token's number is its line's.
Numbered(tokens) ==
    [i \in DOMAIN tokens |-> [kind |-> tokens[i].kind, slug |-> tokens[i].slug,
                              line |-> i]]

RenderBatchLog(lines) ==
    LET page == CloseGroup(
                  FoldLeft(RenderToken,
                           [out |-> <<>>, open |-> 0, orphanStart |-> 0,
                            rendered |-> {}],
                           Numbered(TokenizeBatchLog(lines))))
    IN page.out \o SectionlessGroups(page.rendered)

-----------------------------------------------------------------------------
(* Annotations from jest's verbose output.                                 *)

\* What a line of it is: the header of a failure, a frame of its stack, the first
\* and the last line of a runtime error's stack, a frame in one, text, or nothing.
JestLines == {"header", "frame", "begin", "end", "script", "text", "blank"}

\* _emitFailure and _emitStack: one diagnostic, at the best of the frames read.
Emit(scan) == [scan EXCEPT !.found = Append(@, [is |-> scan.state,
                                                frames |-> scan.frames]),
                           !.state = "idle", !.frames = 0]

FromIdle(scan, line) ==
    CASE line = "header" -> [scan EXCEPT !.state = "failure", !.frames = 0]
      [] line = "begin" -> [scan EXCEPT !.state = "stack", !.frames = 0]
      [] OTHER -> scan

\* A failure ends at the next header, at a stack, or at text after its frames; the
\* line that ends it is read again from outside.
JestLine(scan, line) ==
    CASE scan.state = "idle" -> FromIdle(scan, line)
      [] scan.state = "failure" ->
           IF line = "frame" THEN [scan EXCEPT !.frames = @ + 1]
           ELSE IF \/ line \in {"header", "begin"}
                   \/ scan.frames > 0 /\ line # "blank"
             THEN FromIdle(Emit(scan), line)
             ELSE scan
      [] scan.state = "stack" ->
           CASE line = "script" -> [scan EXCEPT !.frames = @ + 1]
             [] line = "end" -> Emit(scan)
             [] OTHER -> scan

\* parseJestLuaOutput: what is still open at the end is reported too.
ParseJestLuaOutput(lines) ==
    LET last == FoldLeft(JestLine, [state |-> "idle", frames |-> 0, found |-> <<>>],
                         lines)
    IN (IF last.state = "idle" THEN last ELSE Emit(last)).found
=============================================================================
