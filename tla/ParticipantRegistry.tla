------------------------- MODULE ParticipantRegistry -------------------------
(***************************************************************************)
(* participant-registry.mjs: the rows that say which workspace and roles   *)
(* an authenticated sender has in a project.  A row is a record with       *)
(* `wellFormed' for the shape of its fields; `window' is its mutation      *)
(* window, a sequence of at most one.                                      *)
(***************************************************************************)
EXTENDS WorkWindows

RowIsValid(row) ==
    /\ row.wellFormed
    /\ row.roles # {}
    /\ \A i \in DOMAIN row.window : NormalizeMutationWindow(row.window[i])

\* Enabled rows repeat neither an alias nor a sender within a project.
NoRowTwice(rows) ==
    \A i, j \in DOMAIN rows :
        /\ i # j
        /\ rows[i].enabled /\ rows[j].enabled
        /\ rows[i].project = rows[j].project
        => rows[i].alias # rows[j].alias /\ rows[i].sender # rows[j].sender

\* Faulty variant: senders are not compared.
AliasesDiffer(rows) ==
    \A i, j \in DOMAIN rows :
        /\ i # j
        /\ rows[i].enabled /\ rows[j].enabled
        /\ rows[i].project = rows[j].project
        => rows[i].alias # rows[j].alias

UniqueAliasAndSender(rows) == NoRowTwice(rows)

ValidateParticipantRegistry(rows) ==
    /\ \A i \in DOMAIN rows : RowIsValid(rows[i])
    /\ UniqueAliasAndSender(rows)

ActiveParticipantsForProject(rows, project) ==
    {row \in ToSet(rows) : row.enabled /\ row.project = project}
=============================================================================
