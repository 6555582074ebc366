------------------------------- MODULE MCX402 -------------------------------
(* The calls and the symmetry of the run of X402. *)
EXTENDS X402, TLC

\* Paths of routes with the middleware: sharing, reading a share, archiving an
\* object k, and archiving one named "store".  POST /objects/:key/archive does
\* not begin with the entry of the price table that was written for it, so k is
\* archived for nothing; the last begins with the entry of the store route.
MCCalls == {<<"POST", "share">>, <<"GET", "shared", "id">>,
            <<"POST", "k", "archive">>, <<"POST", "store", "archive">>}

Symmetry == Permutations(Requests)
=============================================================================
