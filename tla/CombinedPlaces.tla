---------------------------- MODULE CombinedPlaces ----------------------------
(* Packing the packages of an aggregated run into as few places as the     *)
(* upload limit allows (nevermore-cli/src/utils/testing/runner/            *)
(* combined-project-generator.ts): everything is merged into one place,    *)
(* that is measured, and while a place is too big the packages are split   *)
(* into more groups, in their order. A group is a sequence of packages; a  *)
(* package has a size as built, and a group the size of its place.         *)
EXTENDS Naturals, Sequences

\* The sizes of the packages of a group, added up.
SumOver(size, group) ==
    LET sum[i \in 0 .. Len(group)] == IF i = 0 THEN 0 ELSE sum[i - 1] + size[group[i]]
    IN sum[Len(group)]

\* One package more: into the last group, or into a new one if it would take the last
\* one over the budget, which is bytes / parts.
Put(groups, p, size, bytes, parts) ==
    LET last == groups[Len(groups)] IN
    IF groups # <<>> /\ (SumOver(size, last) + size[p]) * parts <= bytes
      THEN [groups EXCEPT ![Len(groups)] = Append(last, p)]
      ELSE Append(groups, <<p>>)

\* partitionBySize: the packages in turn; one over the budget stands alone.
PartitionBySize(packages, size, bytes, parts) ==
    LET f[m \in 0 .. Len(packages)] ==
          IF m = 0 THEN <<>> ELSE Put(f[m - 1], packages[m], size, bytes, parts)
    IN f[Len(packages)]

\* The size of the largest place: sizes do not add up when packages are merged, and
\* merged gives what a group comes to.
Largest(groups, merged) ==
    LET sizes == {merged[groups[i]] : i \in DOMAIN groups}
    IN CHOOSE most \in sizes : \A bytes \in sizes : bytes <= most

CeilDiv(a, b) == (a + b - 1) \div b

\* How many parts are tried next: one more than now, or as many as the largest place
\* suggests.
NextCount(groups, merged, limit) ==
    LET guess == CeilDiv(Len(groups) * Largest(groups, merged), limit)
    IN IF guess > Len(groups) + 1 THEN guess ELSE Len(groups) + 1

\* Mutant: one split is taken to be enough.
SplitsOnce(packages, groups, merged, limit) ==
    Largest(groups, merged) > limit /\ Len(groups) = 1

\* A place is too big, and there is still something to split.
Splits(packages, groups, merged, limit) ==
    Largest(groups, merged) > limit /\ Len(groups) # Len(packages)

SplitAgain(packages, groups, size, merged, limit) ==
    PartitionBySize(packages, size, SumOver(size, packages),
                    NextCount(groups, merged, limit))

\* generateCombinedProjectAsync: the groups after each round of merging and measuring,
\* up to the given number of rounds.
Rounds(packages, size, merged, limit, rounds) ==
    LET f[n \in 0 .. rounds] ==
          IF n = 0 THEN <<packages>>
          ELSE IF Splits(packages, f[n - 1], merged, limit)
                 THEN SplitAgain(packages, f[n - 1], size, merged, limit)
                 ELSE f[n - 1]
    IN f[rounds]

-----------------------------------------------------------------------------
(* Slugs. Each package is known in the place by the first child of its     *)
(* project's ServerScriptService.                                          *)

\* Keys of the tree come in the order of the file; those that start with $ and the
\* script are not the package.
FindTestProjectSlug(keys) ==
    LET own == SelectSeq(keys, LAMBDA key : key \notin {"$property", "Script"})
    IN IF own = <<>> THEN "none" ELSE Head(own)

\* The packages are refused when one has no slug or two have the same.
SlugsAreDistinct(slugs) ==
    /\ \A p \in DOMAIN slugs : slugs[p] # "none"
    /\ \A p, q \in DOMAIN slugs : slugs[p] = slugs[q] => p = q

-----------------------------------------------------------------------------
(* The bundle file of prebuilt places (prebuilt-batch-bundle.ts).          *)

\* writePrebuiltBatchBundleAsync: one file per place, and what each holds.
Manifest(groups, slugs, specs) ==
    [i \in DOMAIN groups |->
       [file |-> i,
        packages |-> [j \in DOMAIN groups[i] |->
                        [name |-> groups[i][j], slug |-> slugs[groups[i][j]],
                         hasJestConfig |-> groups[i][j] \in specs]]]]

Listed(manifest) ==
    UNION {{i} \X DOMAIN manifest[i].packages : i \in DOMAIN manifest}

\* _parseManifest accepts a manifest of the files in the archive, each listed once,
\* none empty, and no name or slug twice.
AcceptsManifest(manifest, files) ==
    /\ Len(manifest) = Len(files)
    /\ \A i \in DOMAIN manifest :
         /\ \E n \in DOMAIN files : files[n] = manifest[i].file
         /\ manifest[i].packages # <<>>
    /\ \A i, k \in DOMAIN manifest : manifest[i].file = manifest[k].file => i = k
    /\ \A p, q \in Listed(manifest) :
         LET a == manifest[p[1]].packages[p[2]]
             b == manifest[q[1]].packages[q[2]]
         IN a.name = b.name \/ a.slug = b.slug => p = q
=============================================================================
