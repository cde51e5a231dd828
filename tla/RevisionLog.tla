---------------------------- MODULE RevisionLog ----------------------------
(***************************************************************************)
(* What publishing promises: a project's files change only by whole change *)
(* sets, each landing at once, on top of the one before it, as a revision  *)
(* with a larger id.  Publishes that fail, conflict or are cut short are   *)
(* not seen here at all.                                                   *)
(***************************************************************************)
EXTENDS Naturals, Sequences

CONSTANTS
    Path, Content, Absent, NoHash,
    MaxRevision

VARIABLES
    pointer,  \* the revision the project stands at
    tree,     \* what the project holds
    log       \* the trees it has held, with the revision each landed as

Object == Content \cup {Absent}

\* Some paths get new content or are removed; the others keep what they had.
Overlay(t, new) == [x \in Path |-> IF x \in DOMAIN new THEN new[x] ELSE t[x]]

Init ==
    /\ pointer = 0
    /\ tree \in [Path -> {Absent, NoHash}]
    /\ log = <<[rev |-> 0, tree |-> tree]>>

Land ==
    \E r \in 1..MaxRevision : \E S \in SUBSET Path : \E new \in [S -> Object] :
        /\ pointer < r
        /\ pointer' = r
        /\ tree' = Overlay(tree, new)
        /\ log' = Append(log, [rev |-> r, tree |-> tree'])

Spec == Init /\ [][Land]_<<pointer, tree, log>>
=============================================================================
