------------------------------ MODULE MCResolver ------------------------------
(***************************************************************************)
(* Small histories of an upstream, and requests to go with them.           *)
(***************************************************************************)
EXTENDS Resolver, TLC

Tarball(id, v, deps) == [id |-> id, version |-> v, deps |-> deps]
Published(v, t) == [version |-> v, digest |-> t, url |-> TRUE]
Ask(op, arg) == [op |-> op, arg |-> arg]

One    == Tarball("t1", "v1", FALSE)
Again  == Tarball("t1b", "v1", FALSE)
Two    == Tarball("t2", "v2", TRUE)
Three  == Tarball("t3", "v3", FALSE)
Broken == Tarball("t4", Nothing, FALSE)

\* The artifact of a tarball without provenance.
Plain(t) == Build(t, Nothing)

NoFiles == [v1 |-> Nothing, v2 |-> Nothing, v3 |-> Nothing]
NoProvs == NoFiles

\* Callers are interchangeable.
Symmetry == Permutations(Callers)

\* Nothing changes: v3 mismatches its digest, v2 has a provenance file, v1
\* comes without a digest.
Unchanging ==
    << [index |-> << Published("v3", Three), Published("v2", Two),
                     Published("v1", Nothing) >>,
        files |-> [v1 |-> One, v2 |-> Two, v3 |-> Again],
        provs |-> [NoProvs EXCEPT !.v2 = "p2"]] >>

UnchangingRequests ==
    {Ask("tag", "v2"),
     Ask("blob", Build(Two, "p2").prov),
     Ask("signature", Build(Two, "p2").manifest),
     Ask("blob", <<"payload", Build(One, Nothing).manifest>>)}

\* Of three versions one cannot be read and one has no URL; then v3 is
\* deleted, v2, which has dependencies, gets its URL, and the tarball of v1 is
\* replaced, which the index does not tell before the next state; in the end
\* the repository is gone.
Changing ==
    << [index |-> << Published("v1", One), Published("v3", Broken),
                     [Published("v2", Two) EXCEPT !.url = FALSE] >>,
        files |-> [v1 |-> One, v2 |-> Two, v3 |-> Broken],
        provs |-> NoProvs],
       [index |-> << Published("v2", Two), Published("v1", One) >>,
        files |-> [NoFiles EXCEPT !.v1 = Again, !.v2 = Two],
        provs |-> NoProvs],
       [index |-> << Published("v2", Two), Published("v1", Again) >>,
        files |-> [NoFiles EXCEPT !.v1 = Again, !.v2 = Two],
        provs |-> NoProvs],
       [index |-> Nothing, files |-> NoFiles, provs |-> NoProvs] >>

ChangingRequests ==
    {Ask("tag", "v1"), Ask("manifest", Plain(One).manifest),
     Ask("blob", Plain(Two).chart), Ask("blob", <<"chart", Two>>),
     Ask("signature", Plain(One).manifest)}

\* v1 is published again.
Republication ==
    << [index |-> << Published("v1", One) >>,
        files |-> [NoFiles EXCEPT !.v1 = One],
        provs |-> NoProvs],
       [index |-> << Published("v1", Again) >>,
        files |-> [NoFiles EXCEPT !.v1 = Again],
        provs |-> NoProvs] >>
RepublicationRequests == {Ask("tag", "v1"), Ask("blob", Plain(Again).chart)}

\* The newest version cannot be read.
Poisoned ==
    << [index |-> << Published("v2", Broken), Published("v1", One) >>,
        files |-> [NoFiles EXCEPT !.v1 = One, !.v2 = Broken],
        provs |-> NoProvs] >>
PoisonedRequests == {Ask("manifest", Plain(One).manifest)}
=============================================================================
