---------------------------- MODULE MCInventory ----------------------------
EXTENDS Inventory

Host(team, hop) == [alias |-> "team-" \o team \o ".platform", team |-> team,
                    slug |-> "platform", hop |-> hop]

\* Nothing to import, a host of one team or the other, and one host twice: by the same
\* way, and by a proxy that may be new.
MCHostFiles == {<<>>, <<Host("x", "direct")>>, <<Host("platform", "direct")>>,
                <<Host("x", "direct"), Host("x", "direct")>>,
                <<Host("x", "direct"), Host("x", "h")>>}
=============================================================================
