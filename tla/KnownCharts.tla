---------------------------- MODULE KnownCharts ----------------------------
(***************************************************************************)
(* The charts with a provider, as the providers rely on them: the secrets  *)
(* and services they make, and the accounts those secrets open.  None of   *)
(* it is code under src/.                                                  *)
(***************************************************************************)
EXTENDS Providers

Value(params, path, default) ==
    IF Dig(params, path) = ErrDigNotFound THEN Str(default) ELSE Dig(params, path)

\* The first of two paths that is there: charts renamed parameters.
Renamed(params, path, old, default) ==
    IF Dig(params, path) = ErrDigNotFound THEN Value(params, old, default) ELSE Dig(params, path)

\* The keys of the secrets of a release; charts differ by version, and may use a
\* key that a provider uses too.
SecretKeys(service) ==
    CASE service = "mariadb" -> {{"mariadb-root-password", "mariadb-password"}}
      [] service = "mongodb" -> {{"mongodb-root-password", "mongodb-password"}}
      [] service = "mysql" -> {{"mysql-root-password", "mysql-password"}}
      [] service = "postgresql" ->
            {{"postgres-password"}, {"postgresql-password", "postgresql-postgres-password"}}
      [] service = "rabbitmq" -> {{"rabbitmq-password", "rabbitmq-erlang-cookie"}}
      [] service = "redis" -> {{"redis-password", "password"}}
      [] OTHER -> {{"token"}}

AllSecretKeys == UNION UNION {SecretKeys(s) : s \in KnownServices \cup {"other"}}

\* The name of a service says which release it is of; they share a namespace.
Service(owner, role, ports) ==
    [name |-> [of |-> owner, role |-> role], namespace |-> "default",
     role |-> role, ports |-> ports]

\* The services of a release, in the orders a list may have.
ServiceLists(service, owner) ==
    CASE service = "rabbitmq" -> {<<Service(owner, "master", <<"epmd", "amqp">>)>>}
      [] service = "redis" ->
            LET master == Service(owner, "master", <<"redis">>)
                slave == Service(owner, "slave", <<"redis">>)
            IN  {<<master, slave>>, <<slave, master>>}
      [] OTHER -> {<<Service(owner, "master", <<"main">>)>>}

\* A release answers to root, and to the user it was installed with.
UserAndRoot(params, user, database, rootKey, userKey) ==
    LET login(name) == [username |-> name, database |-> Value(params, database, "")]
    IN  {[login |-> login(Str("root")), key |-> rootKey]}
        \cup {[login |-> login(Dig(params, p)), key |-> userKey] :
                 p \in {q \in {user} : Dig(params, q) \notin {ErrDigNotFound, Str("root")}}}

\* The accounts of a release: what it takes to log in, and the key of the secret
\* with the password.
Accounts(service, params) ==
    CASE service = "mariadb" ->
            UserAndRoot(params, <<"db", "user">>, <<"db", "name">>,
                        "mariadb-root-password", "mariadb-password")
      [] service = "mongodb" ->
            UserAndRoot(params, <<"mongodbUsername">>, <<"mongodbDatabase">>,
                        "mongodb-root-password", "mongodb-password")
      [] service = "mysql" ->
            UserAndRoot(params, <<"mysqlUser">>, <<"mysqlDatabase">>,
                        "mysql-root-password", "mysql-password")
      [] service = "postgresql" ->
            LET user == Renamed(params, <<"postgresqlUsername">>, <<"postgresUsername">>, "postgres")
                database == Renamed(params, <<"postgresqlDatabase">>, <<"postgresDatabase">>, "")
                own == Dig(params, <<"postgresqlPostgresPassword">>) # ErrDigNotFound
            IN  {[login |-> [username |-> user, database |-> database], key |-> k] :
                    k \in IF own /\ user # Str("postgres") THEN {"postgresql-postgres-password"}
                          ELSE {"postgresql-password", "postgres-password"}}
      [] service = "rabbitmq" ->
            {[login |-> [username |-> Value(params, <<"rabbitmq", "username">>, "user")],
              key |-> "rabbitmq-password"]}
      [] service = "redis" -> {[login |-> [k \in {} |-> k], key |-> "redis-password"]}

Password(owner, key) == [string |-> [of |-> owner, key |-> key]]

\* The credentials open an account of the release, on its master.
Opens(creds, service, release) ==
    /\ creds["host"] = hostFromService(Service(release.owner, "master", <<>>))
    /\ \E a \in Accounts(service, release.values) :
          /\ a.key \in release.keys
          /\ creds["password"] = Password(release.owner, a.key)
          /\ \A k \in DOMAIN a.login : k \in DOMAIN creds /\ creds[k] = a.login[k]

\* The example of charts/minibroker/values.yaml, over its defaults.
DocumentedSettings ==
    [s \in {"rabbitmq"} |->
        [replicas |-> Other, ingress |-> Obj([enabled |-> Other])]]
=============================================================================
