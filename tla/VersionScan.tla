----------------------------- MODULE VersionScan -----------------------------
(***************************************************************************)
(* resolveLatestPlaceVersionAsync: the newest version of a place, from a    *)
(* history that the service pages newest-first.  A version is a record of   *)
(* its number and of whether it is published.                               *)
(***************************************************************************)
EXTENDS Integers, Sequences, FiniteSetsExt

CONSTANTS
    PageSize,       \* VERSION_SCAN_PAGE_SIZE
    ScanPages,      \* VERSION_SCAN_MAX_PAGES
    Histories       \* what the service may list

\* An entry that the service lists; a path without a number counts as 0.
Version == [number : Int, published : BOOLEAN]

ASSUME ScanAssumption ==
    /\ PageSize \in Nat \ {0} /\ ScanPages \in Nat \ {0}
    /\ Histories \subseteq Seq(Version)

Failed == 0

\* An entry answers a lookup of the newest saved version whatever it is.
Matches(entry, type) == type = "saved" \/ entry.published

\* The entries the scan reads: whole pages, up to the one with the first match.
ReadLength(history, type) ==
    LET matches == {i \in DOMAIN history : Matches(history[i], type)}
        pages == IF matches = {} THEN ScanPages ELSE (Min(matches) + PageSize - 1) \div PageSize
    IN Min({Len(history), PageSize * Min({pages, ScanPages})})

\* An unparseable number stops the scan, and so does a page that is out of order.
IsSound(read) ==
    /\ \A i \in DOMAIN read : read[i].number >= 1
    /\ \A i \in 1 .. Len(read) - 1 : read[i + 1].number < read[i].number

\* Mutant: the page is checked as far as the match only.
ResolveLatestEarly(history, type) ==
    LET read == SubSeq(history, 1, ReadLength(history, type))
        matches == {i \in DOMAIN read : Matches(read[i], type)}
    IN IF matches # {} /\ IsSound(SubSeq(read, 1, Min(matches))) THEN read[Min(matches)].number ELSE Failed

ResolveLatest(history, type) ==
    LET read == SubSeq(history, 1, ReadLength(history, type))
        matches == {i \in DOMAIN read : Matches(read[i], type)}
    IN IF matches # {} /\ IsSound(read) THEN read[Min(matches)].number ELSE Failed
=============================================================================
