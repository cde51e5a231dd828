---------------------------- MODULE MCRevisions ----------------------------
(* Small instances of Revisions for TLC. *)
EXTENDS RevisionsInvariant, TLC

CONSTANTS pa, pb, c1, c2, b1, b2, s1, r1, e1, user

\* Path pa is a template file, path pb is not.
OneTemplateFile == (pa :> c1) @@ (pb :> Absent)
NoTemplateFile == [x \in Path |-> Absent]

\* Turns that race a restore.
OneTurn == b1 :> {(pa :> c1) @@ (pb :> c2), (pa :> c2) @@ (pb :> Absent)}

\* Turns of two builders that share path pb.
SharedPath == (b1 :> {(pa :> c1) @@ (pb :> c2)}) @@ (b2 :> {pb :> Absent})

\* A person's own turns, and another's that only touch pb, so that pa is
\* uncontended.
UserTurns ==
    (user :> {(pa :> c2) @@ (pb :> c1), pa :> Absent}) @@ (b2 :> {pb :> c1, pb :> Absent})

\* Turns of one or two builders that rewrite the same template file.
SameFile == [b \in Builders |-> {pa :> (IF b = b1 THEN c2 ELSE c1)}]
=============================================================================
