------------------------------ MODULE MCVerdicts ------------------------------
(* Properties of the verdicts that BatchLog computes.                      *)
EXTENDS BatchRun, BatchLog

\* What a log or a set of packages leads to depends on no run: it is stated of one
\* first state.
First == BatchInit /\ mode = "aggregated" /\ ~local /\ combined = "none"

-----------------------------------------------------------------------------
(* Part of a log, and a message out of order.                              *)
Truths == [Packages -> ScriptKinds]

Window(log, from) == SubSeq(log, from + 1, Len(log))

\* The log with its i-th message delivered at place j.
Displaced(log, i, j) ==
    LET rest == SubSeq(log, 1, i - 1) \o SubSeq(log, i + 1, Len(log))
    IN SubSeq(rest, 1, j - 1) \o <<log[i]>> \o SubSeq(rest, j, Len(rest))

\* The kind of a package that deserves to pass.
Sound(slug, kind) ==
    \/ kind \in {"passes", "mutePasses"}
    \/ kind = "smoke" /\ slug \notin WithSpecs

Passes(lines, returned, truth, slug) ==
    Verdict(ParseBatchTestLogs(lines, returned, truth)[slug], slug \in WithSpecs)

Survives(log, slug, says) ==
    \E i \in DOMAIN log : log[i].slug = slug /\ log[i].says = says

\* No package passes that failed, or whose tests never ran, whatever part of the log
\* is missing and whichever way the summary came; a traceback shows in the log only.
NoFalsePass ==
    First =>
      /\ \A truth \in Truths, returned \in BOOLEAN : \A from \in 0 .. Len(RunLog(truth)) :
           LET log == Window(RunLog(truth), from) IN
           \A slug \in Packages :
             Passes(log, returned, truth, slug) =>
               \/ Sound(slug, truth[slug])
               \/ truth[slug] = "trips" /\ ~Survives(log, slug, "trace")
      /\ \A kind \in ScriptKinds, from \in 0 .. 2, returned, specs \in BOOLEAN :
           SingleVerdict(kind, from, returned, specs) =>
             \/ kind \in {"passes", "mutePasses", "trips"}
             \/ kind = "interrupted" /\ ~returned
             \/ kind = "smoke" /\ returned /\ ~specs

\* A package that passed and returned its counts passes, whatever the window dropped;
\* without any loss exactly the sound ones pass.
CountsSurvive ==
    First =>
      \A truth \in Truths : \A from \in 0 .. Len(RunLog(truth)), slug \in Packages :
        LET log == Window(RunLog(truth), from) IN
        /\ Sound(slug, truth[slug]) /\ ReturnedCounts[truth[slug]] # "none" =>
             Passes(log, TRUE, truth, slug)
        /\ from = 0 => (Passes(log, FALSE, truth, slug) <=> Sound(slug, truth[slug]))

\* From a log without its head a verdict is what the run of the tests deserved.
WindowTells == NoFalsePass /\ CountsSurvive

-----------------------------------------------------------------------------
(* A message out of order.                                                 *)
Marker(lines, n, kind, slug) ==
    n \in DOMAIN lines /\ lines[n].kind = kind /\ lines[n].slug = slug

\* A line stands between the BEGIN and the END of a package.
Between(lines, n, slug) ==
    \E b \in 1 .. n - 1, e \in n + 1 .. Len(lines) :
      Marker(lines, b, "begin", slug) /\ Marker(lines, e, "end", slug)

\* Another package has begun between them, which ends the section.
Interrupted(lines, slug) ==
    \E n \in DOMAIN lines : lines[n].kind = "begin" /\ Between(lines, n, slug)

HasOwn(lines, slug, says) ==
    \E n \in DOMAIN lines :
      lines[n].slug = slug /\ lines[n].says = says /\ Between(lines, n, slug)

HasForeign(lines, slug, says) ==
    \E n \in DOMAIN lines :
      lines[n].slug # slug /\ lines[n].says \in says /\ Between(lines, n, slug)

\* One message out of order turns no verdict but those of the packages whose own text
\* it tears apart: the one that wrote it, and the one in whose section it lands. A
\* failure is missed only when its traceback left its section, or when a script that
\* returns no results and died has another package's report in its section; a sound
\* package fails only when another's failure got into its section, or when it returned
\* no counts and lost its own report. In particular an END out of place gives no
\* package another's text (foldTokensIntoSections ignores it).
DisplacedTells ==
    First =>
      \A truth \in Truths, returned \in BOOLEAN : \A i, j \in DOMAIN RunLog(truth) :
        LET log == Displaced(RunLog(truth), i, j) IN
        \A slug \in Packages :
          LET kind == truth[slug] IN
          IF Passes(log, returned, truth, slug)
            THEN \/ Sound(slug, kind)
                 \/ /\ kind = "trips"
                    /\ ~HasOwn(log, slug, "trace") \/ Interrupted(log, slug)
                 \/ kind = "muteDies" /\ HasForeign(log, slug, {"report"})
            ELSE \/ ~Sound(slug, kind)
                 \/ HasForeign(log, slug, {"failed", "trace"})
                 \/ /\ ReturnedCounts[kind] = "none"
                    /\ ~HasOwn(log, slug, "report") \/ Interrupted(log, slug)
                 \/ ~returned /\ RunLog(truth)[i].kind \in {"summary", "json"}

\* A verdict is what the run of the tests deserved, from a log without its head, and
\* from a whole one with a message out of order.
VerdictsTell == WindowTells /\ DisplacedTells
=============================================================================
