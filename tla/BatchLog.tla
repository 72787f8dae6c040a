------------------------------ MODULE BatchLog ------------------------------
(* What an aggregated test run says about each of its packages             *)
(* (nevermore-cli/src/utils/testing). One task runs the packages 1, 2, ... *)
(* in turn, prints their output between markers and a summary at the end,  *)
(* and returns the same summary. Open Cloud keeps the tail of the log and  *)
(* may deliver a message out of order. Verdicts and the rendered log are   *)
(* computed here as functions of what arrived; a line is what it says, the *)
(* package that wrote it and where it stood.                               *)
EXTENDS Naturals, Sequences, FiniteSets

CONSTANTS Slugs,      \* how many packages the run has: 1 .. Slugs
          WithSpecs   \* those with a jest.config on disk

ASSUME LogAssumption == Slugs \in Nat /\ WithSpecs \subseteq 1 .. Slugs

Packages == 1 .. Slugs

\* How a package's script really goes. An "interrupted" one returns results that say
\* it failed, with counts in which nothing did; "mute..." scripts return nothing that
\* is recognised as results, as those written before the convention do.
ScriptKinds == {"passes", "fails", "interrupted", "trips", "throws", "smoke",
                "mutePasses", "muteFails", "muteDies"}

\* What a script prints: a jest report, one that counts a failure, a traceback.
Prints == [passes |-> <<"report">>, fails |-> <<"failed">>,
           interrupted |-> <<"report">>, trips |-> <<"report", "trace">>, throws |-> <<"text">>,
           smoke |-> <<"text">>, mutePasses |-> <<"report">>,
           muteFails |-> <<"failed">>, muteDies |-> <<"text">>]

\* The counts in the results it returns, if it returns results.
ReturnedCounts == [passes |-> "clean", fails |-> "failed", interrupted |-> "clean",
                   trips |-> "clean", throws |-> "none", smoke |-> "clean", mutePasses |-> "none",
                   muteFails |-> "none", muteDies |-> "none"]

\* The results it returns, if it returns results, say that the run failed.
SaysItFailed(kind) == kind \in {"fails", "interrupted"}

\* An entry of the summary: createTestResult. A results table that says it failed
\* fails the package, a script that returns none only fails by throwing.
SummaryEntry(kind) ==
    [success |-> kind # "throws" /\ ~SaysItFailed(kind),
     counts |-> ReturnedCounts[kind], ranJest |-> kind # "smoke"]

Token(kind, slug, says) == [kind |-> kind, slug |-> slug, says |-> says]

RunPackage(slug, kind) ==
    <<Token("begin", slug, "")>>
      \o [i \in DOMAIN Prints[kind] |-> Token("content", slug, Prints[kind][i])]
      \o <<Token("end", slug, "")>>

\* Everything the run prints, in order; truth gives each package's kind.
RunLog(truth) ==
    LET log[n \in 0 .. Slugs] ==
          IF n = 0 THEN <<>> ELSE log[n - 1] \o RunPackage(n, truth[n])
    IN log[Slugs] \o <<Token("summary", 0, ""), Token("json", 0, "")>>

-----------------------------------------------------------------------------
(* Splitting the log into sections.                                        *)

\* A summary's marker has been read, and its payload has not.
AwaitsPayload(lines, n) ==
    \E s \in 1 .. n - 1 :
      /\ lines[s].kind = "summary"
      /\ \A k \in s + 1 .. n - 1 : lines[k].kind # "json"

\* The summary's payload is taken out only after its marker; anything else that is
\* not a marker is content.
TokenizeBatchLog(lines) ==
    [n \in DOMAIN lines |->
       IF lines[n].kind # "json" THEN lines[n]
       ELSE [lines[n] EXCEPT !.kind = IF AwaitsPayload(lines, n) THEN "payload"
                                                                ELSE "content"]]

NoSection == [known |-> FALSE, partial |-> FALSE, lines |-> <<>>]

\* Mutant: every END closes the section that is being read, in its own name.
CloseAnySection(fold, slug) ==
    [fold EXCEPT !.sections[slug] = [known |-> TRUE, partial |-> fold.headClaimable,
                                     lines |-> fold.lines],
                 !.open = 0, !.lines = <<>>, !.headClaimable = FALSE]

\* An END closes the section its own BEGIN opened, or claims what precedes it when
\* it is the first marker of all, whose BEGIN the window may have cut off. Any other
\* END is out of order and closes nothing.
CloseSection(fold, slug) ==
    IF slug = fold.open \/ fold.headClaimable
      THEN [fold EXCEPT
              !.sections[slug] = [known |-> TRUE, partial |-> fold.headClaimable,
                                  lines |-> fold.lines],
              !.open = 0, !.lines = <<>>, !.headClaimable = FALSE]
      ELSE [fold EXCEPT !.strays = Append(@, slug)]

FoldToken(fold, token) ==
    CASE token.kind = "begin" ->
           [fold EXCEPT !.open = token.slug, !.lines = <<>>,
                        !.headClaimable = FALSE,
                        !.orphans = IF fold.open # 0 THEN Append(@, fold.open) ELSE @]
      [] token.kind = "end" -> CloseSection(fold, token.slug)
      [] token.kind = "content" -> [fold EXCEPT !.lines = Append(@, token)]
      [] OTHER -> fold

\* Before any token.
Unread == [sections |-> [slug \in Packages |-> NoSection], open |-> 0,
           lines |-> <<>>, headClaimable |-> TRUE, strays |-> <<>>,
           orphans |-> <<>>]

FoldTokensIntoSections(tokens) ==
    LET fold[n \in 0 .. Len(tokens)] ==
          IF n = 0 THEN Unread ELSE FoldToken(fold[n - 1], tokens[n])
    IN fold[Len(tokens)]

-----------------------------------------------------------------------------
(* The verdicts.                                                           *)

Says(lines, what) == \E i \in DOMAIN lines : lines[i].says = what

HasTestReport(lines) == Says(lines, "report") \/ Says(lines, "failed")

\* Mutant: nothing has to prove that any test ran.
OutcomeOfFailures(lines, requireTestReport) ==
    /\ ~Says(lines, "failed")
    /\ ~Says(lines, "trace")

\* evaluateTestOutcome: a report of failures or any traceback fails, and a report is
\* required unless something better proves that tests ran.
OutcomePasses(lines, requireTestReport) ==
    /\ ~Says(lines, "failed")
    /\ ~Says(lines, "trace")
    /\ requireTestReport => HasTestReport(lines)

\* The printed summary is looked for after the first summary marker only.
PrintedSummary(lines) ==
    \E i, j \in DOMAIN lines :
      /\ i < j
      /\ lines[i].kind = "summary" /\ lines[j].kind = "json"
      /\ \A k \in 1 .. i - 1 : lines[k].kind # "summary"

\* The returned summary is preferred; without either no package is in it.
SummaryOf(lines, returned, truth) ==
    [slug \in Packages |->
       IF returned \/ PrintedSummary(lines)
         THEN SummaryEntry(truth[slug])
         ELSE [success |-> FALSE, counts |-> "none", ranJest |-> FALSE]]

\* Mutant: the first package without a section gets all the text, whoever else has one.
UnattributedToFirst(sections, slug) ==
    /\ ~sections[slug].known
    /\ \A p \in Packages : p < slug => sections[p].known

\* Text that no section claimed is attached to one package: the first without a
\* section, and only if no section at all was found.
UnattributedTo(sections, slug) ==
    /\ \A p \in Packages : ~sections[p].known
    /\ \A p \in Packages : slug <= p

\* parseBatchTestLogs: the summary's verdict is a floor. Counts that say a test
\* failed and a section that says so overrule it; a section must hold a report unless
\* counts came back, and a package with neither counts nor section fails.
ParseBatchTestLogs(lines, returned, truth) ==
    LET sections == FoldTokensIntoSections(TokenizeBatchLog(lines)).sections
        summary == SummaryOf(lines, returned, truth)
    IN [slug \in Packages |->
          LET entry == summary[slug]
              section == sections[slug]
          IN [success |->
                /\ entry.success
                /\ entry.counts # "failed"
                /\ IF section.known
                     THEN OutcomePasses(section.lines, entry.counts = "none")
                     ELSE entry.counts # "none",
              counts |-> entry.counts,
              failed |-> ~entry.success,
              ranJest |-> entry.ranJest,
              logs |-> IF section.known THEN section.lines
                       ELSE IF UnattributedTo(sections, slug) THEN lines ELSE <<>>,
              logsLost |-> ~section.known /\ entry.counts # "none"]]

\* executePreparedTestAsync: the run's own verdict, the package's text read once more,
\* what the results that came back say, whatever their counts, and that a package with
\* specs did run them.
Verdict(result, hasJestConfig) ==
    /\ result.success
    /\ OutcomePasses(result.logs, result.counts = "none")
    /\ ~(result.counts # "none" /\ result.failed)
    /\ ~(result.counts # "none" /\ ~result.ranJest /\ hasJestConfig)

\* A run of one package alone: what its script returned is decoded, or missing, and
\* its text is the tail from the given line on.
SingleVerdict(kind, from, returned, hasJestConfig) ==
    LET counts == IF returned THEN ReturnedCounts[kind] ELSE "none"
    IN Verdict([success |-> kind # "throws", counts |-> counts,
                failed |-> SaysItFailed(kind), ranJest |-> kind # "smoke",
                logs |-> [i \in 1 .. Len(Prints[kind]) - from |->
                            Token("content", 1, Prints[kind][i + from])]],
               hasJestConfig)
=============================================================================
