----------------------------- MODULE MCReleases -----------------------------
(* Instances of Releases for TLC.                                           *)
EXTENDS Releases

\* An issue in "todo" fails the structured criteria.  "done" is also the status
\* that the TTQL condition selects.
MCVerdict == [todo |-> "failed", done |-> "passed"]
MCIEdge == {<<"todo", "done">>, <<"done", "todo">>}

MCREdge == {<<"planning", "released">>, <<"planning", "cancelled">>, <<"cancelled", "planning">>}
\* All rows are of one checkpoint type.
MCTypeOf == [c \in Checkpoint |-> CHOOSE t \in CType : TRUE]

MCGuarded == {<<"planning", "released">>}
=============================================================================
