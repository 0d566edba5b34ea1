------------------------------ MODULE MCQaRound ------------------------------
(* Instances of the QA round for TLC. *)
EXTENDS QaRound, TLC

CONSTANTS ann, bob, cid,      \* sessions
          alpha, beta,        \* devices, in the order of a directory listing
          linux,              \* their platform
          smoke               \* a bundle

\* Two sessions share the first device, the third has the other.
MCDeviceOf    == (ann :> alpha) @@ (bob :> alpha) @@ (cid :> beta)
MCRank        == (alpha :> 1) @@ (beta :> 2)
MCPlatformOf  == [d \in Device |-> linux]
MCPlatformsOf == [b \in Bundle |-> {linux}]

\* Two sessions of one device that are both named, or both not, are alike.
Twins == Permutations({ann, bob})
=============================================================================
