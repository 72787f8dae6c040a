------------------------------- MODULE MCPlaces -------------------------------
(* Properties of the places that CombinedPlaces packs packages into.       *)
EXTENDS MCVerdicts, CombinedPlaces

\* The packages from a to b, in their order, and every such group of n packages.
From(a, b) == [j \in 1 .. b - a + 1 |-> a + j - 1]
InOrder(n) == From(1, n)
Runs(n) == {From(r[1], r[2]) : r \in {r \in (1 .. n) \X (1 .. n) : r[1] <= r[2]}}

\* Each of n packages is in a group, and none stands before one of a lower number.
AllInTurn(groups, n) ==
    /\ \A p \in 1 .. n : \E i \in DOMAIN groups : \E j \in DOMAIN groups[i] : groups[i][j] = p
    /\ \A i, k \in DOMAIN groups : \A j \in DOMAIN groups[i], l \in DOMAIN groups[k] :
         /\ groups[i][j] \in 1 .. n
         /\ i < k \/ (i = k /\ j < l) => groups[i][j] < groups[k][l]

\* After as many rounds as there are packages the places all fit, hold each package
\* once and in order, and are what a bundle of them gives back.
PlacesFit(n, size, merged, limit) ==
    LET groups == Rounds(InOrder(n), size, merged, limit, n)
        files == [i \in DOMAIN groups |-> i]
    IN /\ \A i \in DOMAIN groups : merged[groups[i]] <= limit
       /\ AllInTurn(groups, n)
       /\ AcceptsManifest(Manifest(groups, InOrder(n), {}), files)

\* If each package fits into a place alone, the splitting ends with places that do:
\* when packages merge into places as large as they are together, and, whatever they
\* merge into, when they are equally large.
SplitsFit ==
    First =>
      \A n \in 1 .. 4 : \A limit \in 2 .. 4 :
        /\ \A size \in [1 .. n -> 1 .. limit] :
             PlacesFit(n, size, [group \in Runs(n) |-> SumOver(size, group)], limit)
        /\ \A merged \in [Runs(n) -> {limit, limit + 1, 3 * limit}] :
             (\A p \in 1 .. n : merged[<<p>>] <= limit) =>
               PlacesFit(n, [p \in 1 .. n |-> 1], merged, limit)
=============================================================================
