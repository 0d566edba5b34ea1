-------------------------- MODULE VersionedRegister --------------------------
(***************************************************************************)
(* What the live queue promises of a document: what it contains changes    *)
(* only together with its revision, one step up at a time, until it is     *)
(* removed and starts over.                                                *)
(***************************************************************************)
EXTENDS Naturals

CONSTANTS Content, Nothing

VARIABLES revision, content

Init == revision = 0 /\ content = Nothing

Put == revision' = revision + 1 /\ content' \in Content

Remove == revision' = 0 /\ content' = Nothing

Spec == Init /\ [][Put \/ Remove]_<<revision, content>>
=============================================================================
