----------------------------- MODULE Providers -----------------------------
(***************************************************************************)
(* How the parameters of a provision and the secrets of a chart become     *)
(* credentials: Object and its Dig functions, and the Bind of the provider *)
(* of each known chart.                                                    *)
(*                                                                         *)
(* Parameters and secrets are functions from keys to values.  A value is a *)
(* string, an object or something else (a number, a list, a boolean, null),*)
(* told apart by the name of its field; the JSON in the ConfigMap keeps    *)
(* that apart too.  No parameters at all dig like empty ones.              *)
(***************************************************************************)
EXTENDS SequencesExt

\* A string that is spelled out; passwords and hosts are strings of another make.
Str(s) == [string |-> [text |-> s]]
Obj(o) == [object |-> o]
Other == [other |-> TRUE]

IsString(v) == DOMAIN v = {"string"}
IsObject(v) == DOMAIN v = {"object"}

\* The two errors of Dig.
ErrDigNotFound == [error |-> "key not found"]
ErrDigNotString == [error |-> "key is not a string"]

-----------------------------------------------------------------------------
(* Object *)

Field(part, key) ==
    IF IsObject(part) /\ key \in DOMAIN part.object THEN part.object[key] ELSE ErrDigNotFound

\* A path is the key split at its dots; the empty key has no segment.
Dig(o, path) ==
    LET part[n \in 0..Len(path)] == IF n = 0 THEN Obj(o) ELSE Field(part[n - 1], path[n])
    IN  IF path = <<>> THEN ErrDigNotFound ELSE part[Len(path)]

DigString(o, path) ==
    LET v == Dig(o, path) IN
    IF v = ErrDigNotFound \/ IsString(v) THEN v ELSE ErrDigNotString

\* The first path that is found, even if what it finds is no string.
DigStringAlt(o, paths) ==
    LET found == {n \in DOMAIN paths : Dig(o, paths[n]) # ErrDigNotFound}
    IN  IF found = {} THEN ErrDigNotFound
        ELSE DigString(o, paths[CHOOSE n \in found : \A m \in found : n <= m])

DigStringOr(o, path, default) ==
    LET v == DigString(o, path) IN IF v = ErrDigNotFound THEN Str(default) ELSE v

DigStringAltOr(o, paths, default) ==
    LET v == DigStringAlt(o, paths) IN IF v = ErrDigNotFound THEN Str(default) ELSE v

-----------------------------------------------------------------------------
(* Providers.  A service has a name, a namespace, a role and the names of   *)
(* its ports, in order; the URI says what the other credentials say.        *)

hostFromService(service) ==
    [string |-> [name |-> service.name, namespace |-> service.namespace]]

BindFailed == [error |-> "unable to bind"]

\* What the four databases share: the first service and its first port.
DatabaseBind(protocol, services, database, user, password) ==
    IF services[1].ports # <<>> /\ \A v \in {database, user, password} : IsString(v)
    THEN [protocol |-> Str(protocol), port |-> Str(services[1].ports[1]),
          host |-> hostFromService(services[1]),
          username |-> user, password |-> password, database |-> database]
    ELSE BindFailed

\* Faulty variant: the password of the other account.
SwappedPasswordKey(user, root, other) == IF user = Str("root") THEN other ELSE root

\* The secret with the password of the account: root has one of its own.
PasswordKey(user, root, other) == IF user = Str("root") THEN root ELSE other

MySQLBind(services, params, secrets) ==
    LET user == DigStringOr(params, <<"mysqlUser">>, "root")
        key == PasswordKey(user, "mysql-root-password", "mysql-password")
    IN  DatabaseBind("mysql", services, DigStringOr(params, <<"mysqlDatabase">>, ""), user,
                     DigString(secrets, <<key>>))

MariadbBind(services, params, secrets) ==
    LET user == DigStringOr(params, <<"db", "user">>, "root")
        key == PasswordKey(user, "mariadb-root-password", "mariadb-password")
    IN  DatabaseBind("mysql", services, DigStringOr(params, <<"db", "name">>, ""), user,
                     DigString(secrets, <<key>>))

MongodbBind(services, params, secrets) ==
    LET user == DigStringOr(params, <<"mongodbUsername">>, "root")
        key == PasswordKey(user, "mongodb-root-password", "mongodb-password")
    IN  DatabaseBind("mongodb", services, DigStringOr(params, <<"mongodbDatabase">>, ""), user,
                     DigString(secrets, <<key>>))

\* Older charts have other names for the parameters and for the password.
PostgresBind(services, params, secrets) ==
    LET database == DigStringAltOr(params, <<<<"postgresqlDatabase">>, <<"postgresDatabase">>>>, "")
        user == DigStringAltOr(params, <<<<"postgresqlUsername">>, <<"postgresUsername">>>>, "postgres")
        keys == IF /\ Dig(params, <<"postgresqlPostgresPassword">>) # ErrDigNotFound
                   /\ user # Str("postgres")
                THEN <<<<"postgresql-postgres-password">>, <<>>>>
                ELSE <<<<"postgresql-password">>, <<"postgres-password">>>>
    IN  DatabaseBind("postgresql", services, database, user, DigStringAlt(secrets, keys))

\* The service whose pods are the master, wherever it is in the list.
RedisBind(services, params, secrets) ==
    LET masters == {n \in DOMAIN services : services[n].role = "master"}
        master == services[CHOOSE n \in masters : \A m \in masters : n <= m]
        password == DigString(secrets, <<"redis-password">>)
    IN  IF masters # {} /\ master.ports # <<>> /\ IsString(password)
        THEN [protocol |-> Str("redis"), port |-> Str(master.ports[1]),
              host |-> hostFromService(master), password |-> password]
        ELSE BindFailed

\* The port named amqp, which need not be the first one.
RabbitmqBind(services, params, secrets) ==
    LET user == DigStringOr(params, <<"rabbitmq", "username">>, "user")
        password == DigString(secrets, <<"rabbitmq-password">>)
    IN  IF /\ services # <<>> /\ \E n \in DOMAIN services[1].ports : services[1].ports[n] = "amqp"
           /\ IsString(user) /\ IsString(password)
        THEN [protocol |-> Str("amqp"), port |-> Str("amqp"), host |-> hostFromService(services[1]),
              username |-> user, password |-> password]
        ELSE BindFailed

KnownServices == {"mariadb", "mongodb", "mysql", "postgresql", "rabbitmq", "redis"}

ProviderBind(service, services, params, secrets) ==
    CASE service = "mariadb"    -> MariadbBind(services, params, secrets)
      [] service = "mongodb"    -> MongodbBind(services, params, secrets)
      [] service = "mysql"      -> MySQLBind(services, params, secrets)
      [] service = "postgresql" -> PostgresBind(services, params, secrets)
      [] service = "rabbitmq"   -> RabbitmqBind(services, params, secrets)
      [] service = "redis"      -> RedisBind(services, params, secrets)

\* Faulty variant: a secret hides the provider's value under the same key.
SecretsFirst(service, services, params, secrets) ==
    IF service \notin KnownServices THEN secrets
    ELSE LET creds == ProviderBind(service, services, params, secrets) IN
         IF creds = BindFailed THEN BindFailed ELSE secrets @@ creds

\* The credentials of a binding: every secret as it is, and what the provider
\* makes of them, which wins.
CredentialsOf(service, services, params, secrets) ==
    IF service \notin KnownServices THEN secrets
    ELSE LET creds == ProviderBind(service, services, params, secrets) IN
         IF creds = BindFailed THEN BindFailed
         ELSE [k \in DOMAIN creds \cup DOMAIN secrets |->
                  IF k \in DOMAIN creds THEN creds[k] ELSE secrets[k]]
=============================================================================
