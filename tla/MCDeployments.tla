--------------------------- MODULE MCDeployments ---------------------------
(***************************************************************************)
(* Small instances of Deployments for TLC.                                 *)
(***************************************************************************)
EXTENDS Deployments

Symmetry == Permutations(Requests) \cup Permutations(Stamps)

MCCharts == KnownServices \cup {"other"}

\* An unknown chart has a name too long for Helm: 36 characters.
MCNameLength == [c \in MCCharts |-> IF c = "other" THEN 36 ELSE 7]

\* Per service: a user of one's own, the administrator by name, a parameter that
\* is no string, and parameters old charts knew by another name.
MCAsked ==
    [c \in MCCharts |->
        {NoParams} \cup
        CASE c = "mysql" -> {[mysqlUser |-> Str("app"), mysqlDatabase |-> Str("db")],
                             [mysqlUser |-> Other]}
          [] c = "mariadb" -> {[db |-> Obj([user |-> Str("app"), name |-> Str("db")])],
                               [db |-> Str("app")]}
          [] c = "mongodb" -> {[mongodbUsername |-> Str("app")], [mongodbUsername |-> Str("root")]}
          [] c = "postgresql" -> {[postgresUsername |-> Str("app"), postgresqlPostgresPassword |-> Other],
                                  [postgresqlUsername |-> Str("app"), postgresDatabase |-> Str("db")]}
          [] c = "rabbitmq" -> {[rabbitmq |-> Obj([username |-> Str("app")])]}
          [] OTHER -> {}]

\* An override for every service, one of them with no parameters at all.
Overriding == [s \in KnownServices |->
    [overrideParams |->
        CASE s = "mysql" -> [mysqlUser |-> Str("ops")]
          [] s = "mariadb" -> [db |-> Obj([user |-> Str("ops")])]
          [] s = "mongodb" -> [mongodbUsername |-> Str("ops")]
          [] s = "postgresql" -> [postgresqlUsername |-> Str("ops")]
          [] s = "rabbitmq" -> [rabbitmq |-> Obj([username |-> Str("ops")])]
          [] s = "redis" -> NoParams]]

\* The defaults of the chart, overrides, and the documented example.
MCFiles == {[s \in KnownServices |-> [overrideParams |-> None]], Overriding, DocumentedSettings}

MCValues ==
    UNION {MCAsked[c] : c \in MCCharts} \cup {Overriding[s].overrideParams : s \in KnownServices}
=============================================================================
