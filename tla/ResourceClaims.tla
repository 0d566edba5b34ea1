--------------------------- MODULE ResourceClaims ---------------------------
(***************************************************************************)
(* The claims of scripts/lib/adk_resources.py: which resource names a      *)
(* lease names, in which mode, and when two sets of claims exclude each    *)
(* other.  Names are slash-separated paths; all that matters of a path is  *)
(* which names lie below which, given by the relation Under.               *)
(***************************************************************************)
EXTENDS FiniteSets

CONSTANTS Resource,   \* the names that can be claimed (aliases resolved)
          Under,      \* <<a, b>>: path a lies strictly below path b
          Host        \* the name 'host/<host identity>' of this host

ASSUME ResourceAssumption == /\ Host \in Resource
                             /\ Under \subseteq Resource \X Resource

Mode  == {"read", "write", "intent"}
Claim == [name: Resource, mode: Mode]

Below(a, b) == <<a, b>> \in Under

Overlaps(a, b) == a = b \/ Below(a, b) \/ Below(b, a)

\* An intent says only that the host must stay available: it excludes a
\* write to the host itself or to a name above it, never one below it.
IntentConflict(i, c) ==
    c.mode = "write" /\ (i.name = c.name \/ Below(i.name, c.name))

ClaimConflict(c, d) ==
    IF c.mode = "intent" THEN IntentConflict(c, d)
    ELSE IF d.mode = "intent" THEN IntentConflict(d, c)
    ELSE Overlaps(c.name, d.name) /\ "write" \in {c.mode, d.mode}

\* One claim per name: a write wins over a read of the same name, and every
\* lease carries at least an intent on its host.
ClaimsOf(reads, writes) ==
    {[name |-> n, mode |-> "write"] : n \in writes}
      \cup {[name |-> n, mode |-> "read"] : n \in reads \ writes}
      \cup {[name |-> n, mode |-> "intent"] : n \in {Host} \ (reads \cup writes)}

Conflict(C, D) == \E c \in C, d \in D : ClaimConflict(c, d)
=============================================================================
