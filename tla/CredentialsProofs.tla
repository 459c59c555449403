------------------------- MODULE CredentialsProofs -------------------------
(***************************************************************************)
(* Proofs about the credentials of Deployments, for any charts, parameters *)
(* and settings and any number of instances: a binding opens an account of *)
(* the release its own instance installed, and binding again gives the     *)
(* same account.                                                           *)
(***************************************************************************)
EXTENDS DeploymentsProofs

-----------------------------------------------------------------------------
(* Providers *)

\* A path of one key takes one step.
LEMMA DigOne ==
  ASSUME NEW o, NEW key
  PROVE  Dig(o, <<key>>) = IF key \in DOMAIN o THEN o[key] ELSE ErrDigNotFound
<1> DEFINE path == <<key>>
           parts == CHOOSE part : part = [n \in 0..Len(path) |->
                        IF n = 0 THEN Obj(o) ELSE Field(part[n - 1], path[n])]
           witness == [n \in 0..1 |-> IF n = 0 THEN Obj(o) ELSE Field(Obj(o), key)]
<1>1. path # <<>> /\ Len(path) = 1 /\ path[1] = key OBVIOUS
<1>2. Dig(o, path) = parts[Len(path)] BY <1>1 DEF Dig
<1> HIDE DEF path
<1>3. witness = [n \in 0..Len(path) |->
                    IF n = 0 THEN Obj(o) ELSE Field(witness[n - 1], path[n])]
  BY <1>1
<1> HIDE DEF witness
<1>4. parts = [n \in 0..Len(path) |->
                    IF n = 0 THEN Obj(o) ELSE Field(parts[n - 1], path[n])]
  BY <1>3
<1> HIDE DEF parts
<1>5. parts[0] = Obj(o) /\ parts[1] = Field(parts[0], key)
  BY <1>1, <1>4
<1>6. Field(Obj(o), key) = IF key \in DOMAIN o THEN o[key] ELSE ErrDigNotFound
  BY DEF Field, Obj, IsObject
<1> QED BY <1>1, <1>2, <1>5, <1>6 DEF path

\* The secrets of a release of owner's.
SecretsFor(owner, keys) == [k \in keys |-> Password(owner, k)]

Secret(owner, keys, key) == DigString(SecretsFor(owner, keys), <<key>>)

\* The services of a release that makes only one.
OnlyMaster(owner) == <<Service(owner, "master", <<"main">>)>>

\* A password found is the secret of that key.
LEMMA SecretFound ==
  ASSUME NEW owner, NEW keys, NEW key
  PROVE  Secret(owner, keys, key) =
             IF key \in keys THEN Password(owner, key) ELSE ErrDigNotFound
<1>1. Dig(SecretsFor(owner, keys), <<key>>) =
          IF key \in keys THEN Password(owner, key) ELSE ErrDigNotFound
  BY DigOne DEF SecretsFor
<1>2. IsString(Password(owner, key)) /\ Password(owner, key) # ErrDigNotFound
  BY DEF IsString, Password, ErrDigNotFound
<1> QED BY <1>1, <1>2 DEF DigString, Secret

\* What is a string and what is an error.
LEMMA Kinds ==
  /\ ~IsString(ErrDigNotFound) /\ ~IsString(ErrDigNotString)
  /\ ErrDigNotFound # ErrDigNotString
  /\ \A s : IsString(Str(s)) /\ Str(s) # ErrDigNotFound
  /\ \A owner, key : IsString(Password(owner, key)) /\ Password(owner, key) # ErrDigNotFound
BY DEF IsString, ErrDigNotFound, ErrDigNotString, Str, Password

\* A string with a default is the value of the parameter.
LEMMA StringOrValue ==
  ASSUME NEW o, NEW path, NEW default, IsString(DigStringOr(o, path, default))
  PROVE  DigStringOr(o, path, default) = Value(o, path, default)
BY Kinds DEF DigStringOr, DigString, Value

\* Of two paths the first that is found counts.
LEMMA AltOfTwo ==
  ASSUME NEW o, NEW p, NEW q
  PROVE  DigStringAlt(o, <<p, q>>) =
             IF Dig(o, p) # ErrDigNotFound THEN DigString(o, p) ELSE DigString(o, q)
<1> DEFINE paths == <<p, q>>
           found == {n \in DOMAIN paths : Dig(o, paths[n]) # ErrDigNotFound}
           first(n) == \A m \in found : n <= m
<1>1. DOMAIN paths = {1, 2} /\ paths[1] = p /\ paths[2] = q OBVIOUS
<1> HIDE DEF paths
<1>2. /\ \A n \in found : n = 1 \/ n = 2
      /\ 1 \in found <=> Dig(o, p) # ErrDigNotFound
      /\ 2 \in found <=> Dig(o, q) # ErrDigNotFound
  BY <1>1
<1>3. DigStringAlt(o, paths) = IF found = {} THEN ErrDigNotFound
                               ELSE DigString(o, paths[CHOOSE n \in found : first(n)])
  BY DEF DigStringAlt
<1> HIDE DEF found
<1>4. CASE 1 \in found
  <2>1. \A n \in found : first(n) <=> n = 1 BY <1>2, <1>4
  <2> HIDE DEF first
  <2>2. (CHOOSE n \in found : first(n)) = 1 BY <1>4, <2>1
  <2> QED BY <1>1, <1>2, <1>3, <1>4, <2>2 DEF paths
<1>5. CASE 1 \notin found /\ 2 \in found
  <2>1. \A n \in found : first(n) <=> n = 2 BY <1>2, <1>5
  <2> HIDE DEF first
  <2>2. (CHOOSE n \in found : first(n)) = 2 BY <1>5, <2>1
  <2> QED BY <1>1, <1>2, <1>3, <1>5, <2>2 DEF paths
<1>6. CASE 1 \notin found /\ 2 \notin found
  <2>1. found = {} BY <1>2, <1>6
  <2>2. DigString(o, q) = ErrDigNotFound BY <1>2, <1>6 DEF DigString
  <2> QED BY <1>2, <1>3, <1>6, <2>1, <2>2 DEF paths
<1> QED BY <1>4, <1>5, <1>6

\* What it takes to log in to a database.
Login(user, database) == [username |-> user, database |-> database]

\* The database a binding is for; none when the parameters name none.
Database(params, path) == DigStringOr(params, path, "")

\* What the three databases with a root account bind to is an account of theirs.
LEMMA RootOrUser ==
  ASSUME NEW params, NEW user, NEW database, NEW rootKey, NEW userKey, NEW owner, NEW keys,
         NEW u, u = DigStringOr(params, user, "root"), IsString(u),
         NEW d, d = Database(params, database), IsString(d),
         NEW p, p = Secret(owner, keys, PasswordKey(u, rootKey, userKey)),
         IsString(p)
  PROVE  \E a \in UserAndRoot(params, user, database, rootKey, userKey) :
            /\ a.key \in keys /\ p = Password(owner, a.key)
            /\ a.login = Login(u, d)
<1>1. d = Value(params, database, "") /\ u = Value(params, user, "root")
  BY StringOrValue DEF Database
<1>2. /\ PasswordKey(u, rootKey, userKey) \in keys
      /\ p = Password(owner, PasswordKey(u, rootKey, userKey))
  BY SecretFound, Kinds
<1>3. CASE u = Str("root")
  <2> DEFINE a == [login |-> [username |-> u, database |-> d], key |-> rootKey]
  <2>1. a \in UserAndRoot(params, user, database, rootKey, userKey)
    BY <1>1, <1>3 DEF UserAndRoot
  <2>2. a.key \in keys /\ p = Password(owner, a.key) BY <1>2, <1>3 DEF PasswordKey
  <2>3. a.login = Login(u, d) BY DEF Login
  <2> QED BY <2>1, <2>2, <2>3
<1>4. CASE u # Str("root")
  <2> DEFINE a == [login |-> [username |-> u, database |-> d], key |-> userKey]
  <2>1. Dig(params, user) \notin {ErrDigNotFound, Str("root")} /\ u = Dig(params, user)
    BY <1>1, <1>4, Kinds DEF Value
  <2>2. a \in UserAndRoot(params, user, database, rootKey, userKey)
    BY <1>1, <2>1 DEF UserAndRoot
  <2>3. a.key \in keys /\ p = Password(owner, a.key) BY <1>2, <1>4 DEF PasswordKey
  <2>4. a.login = Login(u, d) BY DEF Login
  <2> QED BY <2>2, <2>3, <2>4
<1> QED BY <1>3, <1>4

\* A bind of a database that does not fail has what it needs.
LEMMA DatabaseMade ==
  ASSUME NEW protocol, NEW owner, NEW d, NEW u, NEW p, NEW made,
         made = DatabaseBind(protocol, OnlyMaster(owner), d, u, p),
         made # BindFailed
  PROVE  /\ IsString(d) /\ IsString(u) /\ IsString(p)
         /\ DOMAIN made = {"protocol", "port", "host", "username", "password", "database"}
         /\ made["host"] = hostFromService(Service(owner, "master", <<>>))
         /\ made["username"] = u /\ made["password"] = p /\ made["database"] = d
<1> DEFINE services == OnlyMaster(owner)
<1>1. hostFromService(services[1]) = hostFromService(Service(owner, "master", <<>>))
  BY DEF hostFromService, Service, OnlyMaster
<1> HIDE DEF services
<1>2. /\ IsString(d) /\ IsString(u) /\ IsString(p)
      /\ made = [protocol |-> Str(protocol), port |-> Str(services[1].ports[1]),
                 host |-> hostFromService(services[1]),
                 username |-> u, password |-> p, database |-> d]
  BY DEF DatabaseBind, services
<1> QED BY <1>1, <1>2

\* What a provider makes opens an account, whatever else is in the credentials.
OpensAlone(made, service, release) ==
    Opens(made, service, release) /\ {"host", "password"} \subseteq DOMAIN made

\* What such a bind makes opens an account with that login and password.
LEMMA DatabaseOpens ==
  ASSUME NEW protocol, NEW service, NEW release, NEW d, NEW u, NEW p, NEW made,
         made = DatabaseBind(protocol, OnlyMaster(release.owner), d, u, p),
         made # BindFailed,
         \E a \in Accounts(service, release.values) :
            /\ a.key \in release.keys /\ p = Password(release.owner, a.key)
            /\ a.login = Login(u, d)
  PROVE  OpensAlone(made, service, release)
<1>1. PICK a \in Accounts(service, release.values) :
         /\ a.key \in release.keys /\ p = Password(release.owner, a.key)
         /\ a.login = Login(u, d)
  OBVIOUS
<1>2. \A k \in DOMAIN a.login : k \in DOMAIN made /\ made[k] = a.login[k]
  <2>1. DOMAIN a.login = {"username", "database"} /\ a.login["username"] = u /\ a.login["database"] = d
    BY <1>1 DEF Login
  <2> QED BY <2>1, DatabaseMade
<1>3. /\ made["password"] = p
      /\ made["host"] = hostFromService(Service(release.owner, "master", <<>>))
      /\ {"host", "password"} \subseteq DOMAIN made
  BY DatabaseMade
<1> QED BY <1>1, <1>2, <1>3 DEF Opens, OpensAlone

\* The root account has a password of its own, whatever the keys are called.
LEMMA RootDatabaseOpens ==
  ASSUME NEW protocol, NEW service, NEW release, NEW user, NEW database, NEW rootKey, NEW userKey,
         NEW u, u = DigStringOr(release.values, user, "root"),
         NEW d, d = Database(release.values, database),
         NEW p, p = Secret(release.owner, release.keys, PasswordKey(u, rootKey, userKey)),
         NEW made,
         made = DatabaseBind(protocol, OnlyMaster(release.owner), d, u, p),
         made # BindFailed,
         Accounts(service, release.values) =
             UserAndRoot(release.values, user, database, rootKey, userKey)
  PROVE  OpensAlone(made, service, release)
<1>1. made = DatabaseBind(protocol, OnlyMaster(release.owner), d, u, p) /\ made # BindFailed
  OBVIOUS
<1>2. IsString(d) BY ONLY <1>1, DatabaseMade
<1>3. IsString(u) BY ONLY <1>1, DatabaseMade
<1>4. IsString(p) BY ONLY <1>1, DatabaseMade
<1>5. \E a \in UserAndRoot(release.values, user, database, rootKey, userKey) :
          /\ a.key \in release.keys /\ p = Password(release.owner, a.key)
          /\ a.login = Login(u, d)
  <2>1. /\ u = DigStringOr(release.values, user, "root")
        /\ d = Database(release.values, database)
        /\ p = Secret(release.owner, release.keys, PasswordKey(u, rootKey, userKey))
    OBVIOUS
  <2> QED BY ONLY <1>2, <1>3, <1>4, <2>1, RootOrUser
<1>6. \E a \in Accounts(service, release.values) :
          /\ a.key \in release.keys /\ p = Password(release.owner, a.key)
          /\ a.login = Login(u, d)
  BY <1>5
<1> QED BY <1>6, DatabaseOpens

\* MySQL, MariaDB and MongoDB: the database, the user, and a password each.
LEMMA RootDatabasesOpen ==
  ASSUME NEW release, NEW service \in {"mysql", "mariadb", "mongodb"},
         NEW services \in ServiceLists(service, release.owner), NEW made,
         made = ProviderBind(service, services, release.values,
                             SecretsFor(release.owner, release.keys)),
         made # BindFailed
  PROVE  OpensAlone(made, service, release)
<1> DEFINE one == OnlyMaster(release.owner)
           u(path) == DigStringOr(release.values, path, "root")
           d(path) == Database(release.values, path)
           p(path, r, o) == Secret(release.owner, release.keys, PasswordKey(u(path), r, o))
<1>1. services = one BY DEF ServiceLists, OnlyMaster
<1>2. CASE service = "mysql"
  <2>1. made = DatabaseBind("mysql", one, d(<<"mysqlDatabase">>), u(<<"mysqlUser">>),
                   p(<<"mysqlUser">>, "mysql-root-password", "mysql-password"))
    BY <1>1, <1>2 DEF ProviderBind, Secret, Database, MySQLBind
  <2>2. Accounts(service, release.values) =
          UserAndRoot(release.values, <<"mysqlUser">>, <<"mysqlDatabase">>,
                      "mysql-root-password", "mysql-password")
    BY <1>2 DEF Accounts
  <2> QED BY <2>1, <2>2, RootDatabaseOpens
<1>3. CASE service = "mariadb"
  <2>1. made = DatabaseBind("mysql", one, d(<<"db", "name">>), u(<<"db", "user">>),
                   p(<<"db", "user">>, "mariadb-root-password", "mariadb-password"))
    BY <1>1, <1>3 DEF ProviderBind, Secret, Database, MariadbBind
  <2>2. Accounts(service, release.values) =
          UserAndRoot(release.values, <<"db", "user">>, <<"db", "name">>,
                      "mariadb-root-password", "mariadb-password")
    BY <1>3 DEF Accounts
  <2> QED BY <2>1, <2>2, RootDatabaseOpens
<1>4. CASE service = "mongodb"
  <2>1. made = DatabaseBind("mongodb", one, d(<<"mongodbDatabase">>), u(<<"mongodbUsername">>),
                   p(<<"mongodbUsername">>, "mongodb-root-password", "mongodb-password"))
    BY <1>1, <1>4 DEF ProviderBind, Secret, Database, MongodbBind
  <2>2. Accounts(service, release.values) =
          UserAndRoot(release.values, <<"mongodbUsername">>, <<"mongodbDatabase">>,
                      "mongodb-root-password", "mongodb-password")
    BY <1>4 DEF Accounts
  <2> QED BY <2>1, <2>2, RootDatabaseOpens
<1> QED BY <1>2, <1>3, <1>4

\* The first of two renamed parameters that is there, or the default.
LEMMA AltOrRenamed ==
  ASSUME NEW o, NEW p, NEW q, NEW default, IsString(DigStringAltOr(o, <<p, q>>, default))
  PROVE  DigStringAltOr(o, <<p, q>>, default) = Renamed(o, p, q, default)
<1>1. DigStringAlt(o, <<p, q>>) =
          IF Dig(o, p) # ErrDigNotFound THEN DigString(o, p) ELSE DigString(o, q)
  BY AltOfTwo
<1>2. Renamed(o, p, q, default) =
          IF Dig(o, p) = ErrDigNotFound THEN Value(o, q, default) ELSE Dig(o, p)
  BY DEF Renamed
<1>3. \A path : DigString(o, path) =
          IF Dig(o, path) = ErrDigNotFound \/ IsString(Dig(o, path)) THEN Dig(o, path)
          ELSE ErrDigNotString
  BY DEF DigString
<1> QED BY <1>1, <1>2, <1>3, Kinds DEF DigStringAltOr, Value

\* A password under one of two keys.
EitherSecret(owner, keys, k1, k2) == DigStringAlt(SecretsFor(owner, keys), <<<<k1>>, <<k2>>>>)

\* It is found under one of them.
LEMMA AltSecret ==
  ASSUME NEW owner, NEW keys, NEW k1, NEW k2, IsString(EitherSecret(owner, keys, k1, k2))
  PROVE  \/ k1 \in keys /\ EitherSecret(owner, keys, k1, k2) = Password(owner, k1)
         \/ k2 \in keys /\ EitherSecret(owner, keys, k1, k2) = Password(owner, k2)
<1> DEFINE s == EitherSecret(owner, keys, k1, k2)
<1>1. s = Secret(owner, keys, k1) \/ s = Secret(owner, keys, k2)
  BY AltOfTwo DEF Secret, EitherSecret
<1> HIDE DEF s
<1>2. IsString(s) BY DEF s
<1>3. (k1 \in keys /\ s = Password(owner, k1)) \/ (k2 \in keys /\ s = Password(owner, k2))
  BY <1>1, <1>2, SecretFound, Kinds
<1> QED BY <1>3 DEF s

\* A password under a key that has no other name: the empty path finds nothing.
LEMMA OnlySecret ==
  ASSUME NEW owner, NEW keys, NEW k,
         IsString(DigStringAlt(SecretsFor(owner, keys), <<<<k>>, <<>>>>))
  PROVE  /\ k \in keys
         /\ DigStringAlt(SecretsFor(owner, keys), <<<<k>>, <<>>>>) = Password(owner, k)
<1> DEFINE s == DigStringAlt(SecretsFor(owner, keys), <<<<k>>, <<>>>>)
<1>1. DigString(SecretsFor(owner, keys), <<>>) = ErrDigNotFound
  BY DEF DigString, Dig
<1>2. s = Secret(owner, keys, k) \/ s = ErrDigNotFound
  BY <1>1, AltOfTwo DEF Secret
<1> HIDE DEF s
<1>3. IsString(s) BY DEF s
<1>4. k \in keys /\ s = Password(owner, k)
  BY <1>2, <1>3, SecretFound, Kinds
<1> QED BY <1>4 DEF s

\* PostgreSQL, whose parameters and passwords had other names once.
LEMMA PostgresOpens ==
  ASSUME NEW release, NEW services \in ServiceLists("postgresql", release.owner), NEW made,
         made = ProviderBind("postgresql", services, release.values,
                             SecretsFor(release.owner, release.keys)),
         made # BindFailed
  PROVE  OpensAlone(made, "postgresql", release)
<1> DEFINE params == release.values
           secrets == SecretsFor(release.owner, release.keys)
           u == DigStringAltOr(params, <<<<"postgresqlUsername">>, <<"postgresUsername">>>>, "postgres")
           d == DigStringAltOr(params, <<<<"postgresqlDatabase">>, <<"postgresDatabase">>>>, "")
           own == Dig(params, <<"postgresqlPostgresPassword">>) # ErrDigNotFound /\ u # Str("postgres")
           p == DigStringAlt(secrets,
                    IF own THEN <<<<"postgresql-postgres-password">>, <<>>>>
                    ELSE <<<<"postgresql-password">>, <<"postgres-password">>>>)
<1>1. services = OnlyMaster(release.owner) BY DEF ServiceLists, OnlyMaster
<1>2. made = DatabaseBind("postgresql", OnlyMaster(release.owner), d, u, p)
  BY <1>1 DEF ProviderBind, PostgresBind
<1>3. Accounts("postgresql", params) =
          LET user == Renamed(params, <<"postgresqlUsername">>, <<"postgresUsername">>, "postgres")
              database == Renamed(params, <<"postgresqlDatabase">>, <<"postgresDatabase">>, "")
              owned == Dig(params, <<"postgresqlPostgresPassword">>) # ErrDigNotFound
          IN  {[login |-> [username |-> user, database |-> database], key |-> k] :
                  k \in IF owned /\ user # Str("postgres") THEN {"postgresql-postgres-password"}
                        ELSE {"postgresql-password", "postgres-password"}}
  BY DEF Accounts
<1>4. IsString(u) /\ IsString(d) /\ IsString(p)
  <2> HIDE DEF u, d, p
  <2> QED BY <1>2, DatabaseMade
<1>5. u = Renamed(params, <<"postgresqlUsername">>, <<"postgresUsername">>, "postgres")
  BY <1>4, AltOrRenamed
<1>6. d = Renamed(params, <<"postgresqlDatabase">>, <<"postgresDatabase">>, "")
  BY <1>4, AltOrRenamed
<1>7. \E k \in IF own THEN {"postgresql-postgres-password"}
               ELSE {"postgresql-password", "postgres-password"} :
          k \in release.keys /\ p = Password(release.owner, k)
  <2>1. CASE own
    <3>1. p = DigStringAlt(secrets, <<<<"postgresql-postgres-password">>, <<>>>>) BY <2>1
    <3>2. "postgresql-postgres-password" \in release.keys
          /\ p = Password(release.owner, "postgresql-postgres-password")
      <4> HIDE DEF u, d, p
      <4> QED BY <1>4, <3>1, OnlySecret
    <3> HIDE DEF own, p
    <3> QED BY <2>1, <3>2
  <2>2. CASE ~own
    <3>1. p = EitherSecret(release.owner, release.keys, "postgresql-password", "postgres-password")
      BY <2>2 DEF EitherSecret
    <3>2. \E k \in {"postgresql-password", "postgres-password"} :
             k \in release.keys /\ p = Password(release.owner, k)
      <4> HIDE DEF u, d, p
      <4> QED BY <1>4, <3>1, AltSecret
    <3> HIDE DEF own, p
    <3> QED BY <2>2, <3>2
  <2> HIDE DEF own, p
  <2> QED BY <2>1, <2>2
<1> HIDE DEF u, d, p
<1>8. \E a \in Accounts("postgresql", release.values) :
          /\ a.key \in release.keys /\ p = Password(release.owner, a.key)
          /\ a.login = Login(u, d)
  <2>1. PICK k \in IF own THEN {"postgresql-postgres-password"}
                   ELSE {"postgresql-password", "postgres-password"} :
          k \in release.keys /\ p = Password(release.owner, k)
    BY <1>7
  <2> DEFINE a == [login |-> [username |-> u, database |-> d], key |-> k]
  <2>2. a \in Accounts("postgresql", params) BY <1>3, <1>5, <1>6, <2>1
  <2>3. a.key = k /\ a.login = Login(u, d) BY DEF Login
  <2> QED BY <2>1, <2>2, <2>3
<1> QED BY <1>2, <1>8, DatabaseOpens

\* RabbitMQ, whose port is the one named amqp.
LEMMA RabbitmqOpens ==
  ASSUME NEW release, NEW services \in ServiceLists("rabbitmq", release.owner), NEW made,
         made = ProviderBind("rabbitmq", services, release.values,
                             SecretsFor(release.owner, release.keys)),
         made # BindFailed
  PROVE  OpensAlone(made, "rabbitmq", release)
<1> DEFINE params == release.values
           master == Service(release.owner, "master", <<"epmd", "amqp">>)
           u == DigStringOr(params, <<"rabbitmq", "username">>, "user")
           p == Secret(release.owner, release.keys, "rabbitmq-password")
           a == [login |-> [username |-> Value(params, <<"rabbitmq", "username">>, "user")],
                 key |-> "rabbitmq-password"]
<1>1. services = <<master>> BY DEF ServiceLists
<1>2. made = RabbitmqBind(services, params, SecretsFor(release.owner, release.keys))
  BY DEF ProviderBind
<1>3. services[1] = master BY <1>1
<1>4. /\ IsString(u) /\ IsString(p)
      /\ made = [protocol |-> Str("amqp"), port |-> Str("amqp"), host |-> hostFromService(master),
                 username |-> u, password |-> p]
  <2> HIDE DEF master
  <2> QED BY <1>2, <1>3 DEF RabbitmqBind, Secret
<1>5. u = Value(params, <<"rabbitmq", "username">>, "user")
  BY <1>4, StringOrValue
<1>6. "rabbitmq-password" \in release.keys /\ p = Password(release.owner, "rabbitmq-password")
  BY <1>4, SecretFound, Kinds
<1>7. a \in Accounts("rabbitmq", params) BY DEF Accounts
<1>8. hostFromService(master) = hostFromService(Service(release.owner, "master", <<>>))
  BY DEF hostFromService, Service
<1> HIDE DEF u, p, master
<1>9. /\ made["host"] = hostFromService(Service(release.owner, "master", <<>>))
      /\ made["password"] = p /\ made["username"] = u /\ "username" \in DOMAIN made
      /\ {"host", "password"} \subseteq DOMAIN made
  BY <1>4, <1>8
<1>10. /\ a.key \in release.keys /\ p = Password(release.owner, a.key)
       /\ DOMAIN a.login = {"username"} /\ a.login["username"] = u
  BY <1>5, <1>6
<1> HIDE DEF a
<1> QED BY <1>7, <1>9, <1>10 DEF Opens, OpensAlone

\* The one service of Redis whose pods are the master, in either order.
LEMMA RedisMade ==
  ASSUME NEW owner, NEW keys, NEW params, NEW services \in ServiceLists("redis", owner),
         NEW made, made = RedisBind(services, params, SecretsFor(owner, keys)), made # BindFailed
  PROVE  /\ IsString(Secret(owner, keys, "redis-password"))
         /\ made = [protocol |-> Str("redis"), port |-> Str("redis"),
                    host |-> hostFromService(Service(owner, "master", <<"redis">>)),
                    password |-> Secret(owner, keys, "redis-password")]
<1> DEFINE m == Service(owner, "master", <<"redis">>)
           s == Service(owner, "slave", <<"redis">>)
           masters == {n \in DOMAIN services : services[n].role = "master"}
           least(n) == \A j \in masters : n <= j
           password == Secret(owner, keys, "redis-password")
<1>1. services = <<m, s>> \/ services = <<s, m>> BY DEF ServiceLists
<1>2. m.role = "master" /\ s.role = "slave" /\ m.ports = <<"redis">> BY DEF Service
<1>3. made = IF masters # {} /\ services[CHOOSE n \in masters : least(n)].ports # <<>>
                /\ IsString(password)
             THEN [protocol |-> Str("redis"),
                   port |-> Str(services[CHOOSE n \in masters : least(n)].ports[1]),
                   host |-> hostFromService(services[CHOOSE n \in masters : least(n)]),
                   password |-> password]
             ELSE BindFailed
  BY DEF RedisBind, Secret
<1> HIDE DEF m, s, password
<1>4. services[CHOOSE n \in masters : least(n)] = m
  <2>1. CASE services = <<m, s>>
    <3>1. masters = {1} /\ services[1] = m BY <1>2, <2>1
    <3> HIDE DEF masters
    <3>2. \A n \in masters : least(n) <=> n = 1 BY <3>1
    <3>3. 1 \in masters BY <3>1
    <3> HIDE DEF least
    <3>4. (CHOOSE n \in masters : least(n)) = 1 BY <3>1, <3>2, <3>3
    <3> QED BY <3>1, <3>4
  <2>2. CASE services = <<s, m>>
    <3>1. masters = {2} /\ services[2] = m BY <1>2, <2>2
    <3> HIDE DEF masters
    <3>2. \A n \in masters : least(n) <=> n = 2 BY <3>1
    <3>3. 2 \in masters BY <3>1
    <3> HIDE DEF least
    <3>4. (CHOOSE n \in masters : least(n)) = 2 BY <3>1, <3>2, <3>3
    <3> QED BY <3>1, <3>4
  <2> QED BY <1>1, <2>1, <2>2
<1> HIDE DEF masters, least
<1>5. /\ IsString(password)
      /\ made = [protocol |-> Str("redis"), port |-> Str(m.ports[1]),
                 host |-> hostFromService(m), password |-> password]
  BY <1>3, <1>4
<1>6. m.ports[1] = "redis" BY <1>2
<1> QED BY <1>5, <1>6 DEF m, password

\* Redis, which has passwords but no users.
LEMMA RedisOpens ==
  ASSUME NEW release, NEW services \in ServiceLists("redis", release.owner), NEW made,
         made = ProviderBind("redis", services, release.values,
                             SecretsFor(release.owner, release.keys)),
         made # BindFailed
  PROVE  OpensAlone(made, "redis", release)
<1> DEFINE p == Secret(release.owner, release.keys, "redis-password")
           a == [login |-> [k \in {} |-> k], key |-> "redis-password"]
<1>1. made = RedisBind(services, release.values, SecretsFor(release.owner, release.keys))
  BY DEF ProviderBind
<1>2. /\ IsString(p)
      /\ made = [protocol |-> Str("redis"), port |-> Str("redis"),
                 host |-> hostFromService(Service(release.owner, "master", <<"redis">>)),
                 password |-> p]
  BY <1>1, RedisMade
<1>3. p = Password(release.owner, "redis-password") /\ "redis-password" \in release.keys
  BY <1>2, SecretFound, Kinds
<1>4. a \in Accounts("redis", release.values) BY DEF Accounts
<1>5. hostFromService(Service(release.owner, "master", <<"redis">>)) =
          hostFromService(Service(release.owner, "master", <<>>))
  BY DEF hostFromService, Service
<1>6. a.key = "redis-password" /\ DOMAIN a.login = {} OBVIOUS
<1> HIDE DEF p, a
<1>7. /\ made["host"] = hostFromService(Service(release.owner, "master", <<>>))
      /\ made["password"] = p /\ {"host", "password"} \subseteq DOMAIN made
  BY <1>2, <1>5
<1> QED BY <1>3, <1>4, <1>6, <1>7 DEF Opens, OpensAlone

-----------------------------------------------------------------------------
(* Credentials *)

\* A bind that does not fail adds the secrets to what the provider makes, which
\* wins.
LEMMA MadeWins ==
  ASSUME NEW service \in KnownServices, NEW services, NEW params, NEW secrets, NEW creds,
         creds = CredentialsOf(service, services, params, secrets), creds # BindFailed,
         NEW made, made = ProviderBind(service, services, params, secrets)
  PROVE  /\ made # BindFailed
         /\ \A k \in DOMAIN made : k \in DOMAIN creds /\ creds[k] = made[k]
BY DEF CredentialsOf

\* The credentials of a release open an account of it.
LEMMA CredentialsOpen ==
  ASSUME NEW release, NEW service \in KnownServices,
         NEW services \in ServiceLists(service, release.owner), NEW creds,
         creds = CredentialsOf(service, services, release.values,
                               SecretsFor(release.owner, release.keys)),
         creds # BindFailed
  PROVE  Opens(creds, service, release)
<1> DEFINE made == ProviderBind(service, services, release.values,
                                SecretsFor(release.owner, release.keys))
<1>1. made # BindFailed /\ \A k \in DOMAIN made : k \in DOMAIN creds /\ creds[k] = made[k]
  BY MadeWins
<1>2. OpensAlone(made, service, release)
  <2>1. CASE service \in {"mysql", "mariadb", "mongodb"} BY <1>1, <2>1, RootDatabasesOpen
  <2>2. CASE service = "postgresql" BY <1>1, <2>2, PostgresOpens
  <2>3. CASE service = "rabbitmq" BY <1>1, <2>3, RabbitmqOpens
  <2>4. CASE service = "redis" BY <1>1, <2>4, RedisOpens
  <2> QED BY <2>1, <2>2, <2>3, <2>4 DEF KnownServices
<1> HIDE DEF made
<1>3. PICK a \in Accounts(service, release.values) :
         /\ a.key \in release.keys
         /\ made["password"] = Password(release.owner, a.key)
         /\ \A k \in DOMAIN a.login : k \in DOMAIN made /\ made[k] = a.login[k]
  BY <1>2 DEF Opens, OpensAlone
<1>4. /\ made["host"] = hostFromService(Service(release.owner, "master", <<>>))
      /\ "host" \in DOMAIN made /\ "password" \in DOMAIN made
  BY <1>2 DEF Opens, OpensAlone
<1> QED BY <1>1, <1>3, <1>4 DEF Opens

\* They are of no other release: the host says whose they are.
LEMMA CredentialsAreOfOne ==
  ASSUME NEW creds, NEW service, NEW release, NEW another,
         Opens(creds, service, release), Opens(creds, service, another)
  PROVE  release.owner = another.owner
<1>1. hostFromService(Service(release.owner, "master", <<>>)) =
          hostFromService(Service(another.owner, "master", <<>>))
  BY DEF Opens
<1>2. \A owner : hostFromService(Service(owner, "master", <<>>))["string"].name.of = owner
  BY DEF hostFromService, Service
<1> QED BY <1>1, <1>2

\* In whatever order services are listed, the credentials are the same.
LEMMA AnyOrder ==
  ASSUME NEW service, NEW owner, NEW keys, NEW params,
         NEW s1 \in ServiceLists(service, owner), NEW s2 \in ServiceLists(service, owner),
         CredentialsOf(service, s1, params, SecretsFor(owner, keys)) # BindFailed,
         CredentialsOf(service, s2, params, SecretsFor(owner, keys)) # BindFailed
  PROVE  CredentialsOf(service, s1, params, SecretsFor(owner, keys)) =
             CredentialsOf(service, s2, params, SecretsFor(owner, keys))
<1>1. CASE service \notin KnownServices BY <1>1 DEF CredentialsOf
<1>2. CASE service = "redis"
  <2> DEFINE m1 == ProviderBind(service, s1, params, SecretsFor(owner, keys))
             m2 == ProviderBind(service, s2, params, SecretsFor(owner, keys))
  <2>1. service \in KnownServices BY <1>2 DEF KnownServices
  <2>2. m1 # BindFailed /\ m2 # BindFailed BY <2>1, MadeWins
  <2>3. /\ m1 = RedisBind(s1, params, SecretsFor(owner, keys))
        /\ m2 = RedisBind(s2, params, SecretsFor(owner, keys))
    BY <1>2 DEF ProviderBind
  <2>4. s1 \in ServiceLists("redis", owner) /\ s2 \in ServiceLists("redis", owner) BY <1>2
  <2> HIDE DEF m1, m2
  <2>5. m1 = m2 BY <2>2, <2>3, <2>4, RedisMade
  <2> QED BY <2>1, <2>5 DEF CredentialsOf, m1, m2
<1>3. CASE service # "redis"
  <2>1. s1 = s2 BY <1>3 DEF ServiceLists
  <2> QED BY <2>1
<1> QED BY <1>1, <1>2, <1>3

-----------------------------------------------------------------------------
(* The inductive invariant *)

\* Helm's run is behind the provision, or there will be none.
Done(q) == stage[q] \notin {"idle", "load", "name", "run"}

\* A name is drawn once, and a release has the name its own provision drew.
OwnersNamed ==
    /\ \A q \in Requests : stage[q] \in {"idle", "load", "name"} => name[q] = None
    /\ \A n \in Names : deployed[n] # None =>
          name[deployed[n].owner] = n /\ Done(deployed[n].owner)

\* So has a ConfigMap.
RecordsNamed ==
    \A q \in Requests : config[q] # None /\ config[q].release # None =>
        name[q] = config[q].release /\ Done(q)

\* From Helm's run to the record a provision finds its own release under its name,
\* or none and nobody to make one: the other provision that drew the name is done.
HoldsItsName ==
    \A q \in Requests : stage[q] \in {"wait", "label", "record"} =>
        \/ deployed[name[q]] # None /\ deployed[name[q]].owner = q
        \/ /\ deployed[name[q]] = None
           /\ \E s \in Requests : s # q /\ name[s] = name[q] /\ Done(s)

\* Only the provision that made a release labels it.
LabelsOwn ==
    \A n \in Names : deployed[n] # None => deployed[n].label \in {None, deployed[n].owner}

\* What is bound was made of the ConfigMap and the secrets of the release of the
\* instance, which may be gone.
BoundTo(q, keys) ==
    /\ binding[q] # BindFailed
    /\ \E services \in ServiceLists(config[q].service, q) :
          binding[q] = CredentialsOf(config[q].service, services, config[q].params,
                                     SecretsFor(q, keys))

Keyed(q, keys) ==
    \A n \in Names : deployed[n] # None /\ deployed[n].owner = q => deployed[n].keys = keys

BoundToOwn ==
    \A q \in Requests : binding[q] # None =>
        /\ config[q] # None /\ Done(q)
        /\ \E keys \in SUBSET Keys : BoundTo(q, keys) /\ Keyed(q, keys)

BindingsAreKept == binding = [q \in Requests |-> binding[q]]

CInv ==
    /\ OwnersNamed /\ RecordsNamed /\ BindingsAreKept
    /\ NoThreeAlike => HoldsItsName /\ LabelsOwn /\ BoundToOwn

\* The broker is first started with an empty cluster.
LEMMA CInit == Init => CInv
BY DEF Init, CInv, OwnersNamed, RecordsNamed, HoldsItsName, LabelsOwn, BoundToOwn, BindingsAreKept

\* A name once drawn stays: three that differ later differed before.
LEMMA NamesStay ==
  ASSUME \A q \in Requests : name[q] # None => name'[q] = name[q], NoThreeAlike'
  PROVE  NoThreeAlike
BY DEF NoThreeAlike

\* A release is of a request.
LEMMA OwnersAreRequests ==
  ASSUME DInv
  PROVE  \A n \in Names : deployed[n] # None =>
            deployed[n] \in Releases /\ deployed[n].owner \in Requests
BY DEF DInv, DeploymentsTypeOK, ChartTypeOK, Releases

\* A step that leaves names, releases and credentials alone, and leaves or makes
\* a ConfigMap that fits.
LEMMA QuietStep ==
  ASSUME DInv, CInv, UNCHANGED <<name, deployed, binding>>,
         \A q \in Requests : stage[q] \notin {"idle", "load", "name", "run"} =>
                                stage'[q] \notin {"idle", "load", "name", "run"},
         \A q \in Requests : stage'[q] \in {"wait", "label", "record"} =>
                                stage[q] \in {"wait", "label", "record"},
         \A q \in Requests : stage'[q] \in {"idle", "load", "name"} =>
                                stage[q] \in {"idle", "load", "name"},
         \A q \in Requests : config'[q] # config[q] =>
             /\ config'[q].release = None \/ (config'[q].release = name[q] /\ Done(q))
             /\ \/ ~NoThreeAlike \/ binding[q] = None
                \/ /\ config'[q] # None
                   /\ config'[q].service = config[q].service
                   /\ config'[q].params = config[q].params
  PROVE  CInv'
<1>1. OwnersNamed'
  <2>1. \A n \in Names : deployed[n] # None => deployed[n].owner \in Requests BY OwnersAreRequests
  <2> QED BY <2>1 DEF CInv, OwnersNamed, Done
<1>2. RecordsNamed' BY DEF CInv, RecordsNamed, Done
<1>3. BindingsAreKept' BY DEF CInv, BindingsAreKept
<1>4. ASSUME NoThreeAlike' PROVE HoldsItsName' /\ LabelsOwn' /\ BoundToOwn'
  <2>1. NoThreeAlike BY <1>4 DEF NoThreeAlike
  <2>2. HoldsItsName' BY <2>1 DEF CInv, HoldsItsName, Done
  <2>3. LabelsOwn' BY <2>1 DEF CInv, LabelsOwn
  <2>4. BoundToOwn'
    <3> SUFFICES ASSUME NEW q \in Requests, binding[q] # None
                 PROVE  /\ config'[q] # None /\ Done(q)'
                        /\ \E keys \in SUBSET Keys : BoundTo(q, keys)' /\ Keyed(q, keys)'
      BY DEF BoundToOwn
    <3>1. /\ config[q] # None /\ Done(q)
          /\ \E keys \in SUBSET Keys : BoundTo(q, keys) /\ Keyed(q, keys)
      BY <2>1 DEF CInv, BoundToOwn
    <3>2. /\ config'[q] # None /\ config'[q].service = config[q].service
          /\ config'[q].params = config[q].params
      BY <2>1, <3>1
    <3>3. Done(q)' BY <3>1 DEF Done
    <3>4. \E keys \in SUBSET Keys : BoundTo(q, keys)' /\ Keyed(q, keys)'
      BY <3>1, <3>2 DEF BoundTo, Keyed
    <3> QED BY <3>2, <3>3, <3>4
  <2> QED BY <2>2, <2>3, <2>4
<1> QED BY <1>1, <1>2, <1>3, <1>4 DEF CInv

\* A process that starts, and one that ends, which ends its provisions.
LEMMA StartCredentials == ASSUME DInv, CInv, Start \/ Exit PROVE CInv'
<1>1. UNCHANGED <<name, deployed, binding, config>> BY DEF Start, Exit, chartVars
<1>2. CASE Start
  <2>1. stage' = stage BY <1>2 DEF Start, chartVars
  <2> QED BY <1>1, <2>1, QuietStep
<1>3. CASE Exit
  <2>1. \A q \in Requests : stage'[q] = IF Installing(q) THEN "dead" ELSE stage[q]
    BY <1>3 DEF Exit
  <2>2. \A q \in Requests : stage'[q] = stage[q] \/ stage'[q] = "dead" BY <2>1
  <2> QED BY <1>1, <2>2, QuietStep
<1> QED BY <1>2, <1>3

\* A provision that moves on without Helm, or gives up.
LEMMA MoveOn ==
  ASSUME DInv, CInv, NEW r \in Requests, NEW s,
         UNCHANGED <<name, deployed, binding, config>>, stage' = [stage EXCEPT ![r] = s],
         \/ stage[r] = "load" /\ s = "name"
         \/ stage[r] = "wait" /\ s = "label"
         \/ s = "failed"
  PROVE  CInv'
<1>1. stage \in [Requests -> Stages] BY DEF DInv, DeploymentsTypeOK, ChartTypeOK
<1>2. stage'[r] = s /\ \A q \in Requests : q # r => stage'[q] = stage[q] BY <1>1
<1> QED BY <1>2, QuietStep

\* The arrival of a provision makes a ConfigMap for an instance without one.
LEMMA ProvisionCredentials ==
  ASSUME DInv, CInv, NEW r \in Requests, Provision(r)
  PROVE  CInv'
<1>1. /\ stage \in [Requests -> Stages] /\ config \in [Requests -> Configs \cup {None}]
  BY DEF DInv, DeploymentsTypeOK, ChartTypeOK
<1>2. \A q \in Requests : config'[q] # config[q] => q = r /\ config'[q].release = None
  <2>1. PICK service \in Charts : \E given \in Asked[service] :
           LET override == ForService(service)
               params == IF override # None THEN override ELSE given
           IN  config' = [config EXCEPT ![r] =
                   [service |-> service, params |-> params, release |-> None]]
    BY DEF Provision
  <2>2. PICK params : config' = [config EXCEPT ![r] =
                          [service |-> service, params |-> params, release |-> None]]
    BY <2>1
  <2> DEFINE new == [service |-> service, params |-> params, release |-> None]
  <2>3. new.release = None OBVIOUS
  <2>4. config' = [config EXCEPT ![r] = new] BY <2>2
  <2> HIDE DEF new
  <2> QED BY <1>1, <2>3, <2>4
<1>3. /\ stage[r] = "idle" /\ stage' = [stage EXCEPT ![r] = "load"]
      /\ UNCHANGED <<name, deployed, binding>>
  BY DEF Provision, CallInstall, Goto
<1>4. stage'[r] = "load" /\ \A q \in Requests : q # r => stage'[q] = stage[q] BY <1>1, <1>3
<1>5. NoThreeAlike => binding[r] = None BY <1>3 DEF CInv, BoundToOwn, Done
<1> QED BY <1>2, <1>3, <1>4, <1>5, QuietStep

\* The record names the release the provision made, or none.
LEMMA RecordCredentials == ASSUME DInv, CInv, NEW r \in Requests, Record(r) PROVE CInv'
<1>1. /\ stage \in [Requests -> Stages] /\ config \in [Requests -> Configs \cup {None}]
  BY DEF DInv, DeploymentsTypeOK, ChartTypeOK
<1>2. stage[r] = "record" /\ UNCHANGED <<name, deployed, binding>> BY DEF Record
<1>3. CASE UNCHANGED config /\ stage' = [stage EXCEPT ![r] = "failed"]
  BY <1>2, <1>3, MoveOn
<1>4. CASE config' = [config EXCEPT ![r].release = name[r]] /\ stage' = [stage EXCEPT ![r] = "ready"]
  <2>1. stage'[r] = "ready" /\ \A q \in Requests : q # r => stage'[q] = stage[q] BY <1>1, <1>4
  <2>2. config[r] \in Configs BY <1>2 DEF DInv, InstallingIsReserved, Installing
  <2> DEFINE new == [config[r] EXCEPT !.release = name[r]]
  <2>3. config' = [config EXCEPT ![r] = new] BY <1>4
  <2>4. name[r] \in Names BY <1>2, Carried DEF Installing
  <2>5. /\ new \in Configs /\ new.release = name[r]
        /\ new.service = config[r].service /\ new.params = config[r].params
    BY <2>2, <2>4 DEF Configs
  <2> HIDE DEF new
  <2>6. config'[r] = new /\ \A q \in Requests : q # r => config'[q] = config[q] BY <1>1, <2>3
  <2>7. Done(r) BY <1>2 DEF Done
  <2>8. new # None BY <2>5, ConfigsAreSome
  <2>9. \A q \in Requests : config'[q] # config[q] =>
           /\ config'[q].release = name[q] /\ Done(q) /\ config'[q] # None
           /\ config'[q].service = config[q].service /\ config'[q].params = config[q].params
    BY <2>5, <2>6, <2>7, <2>8
  <2>10. \A q \in Requests : stage'[q] = stage[q] \/ (q = r /\ stage'[q] = "ready") BY <2>1
  <2> QED BY <1>2, <2>9, <2>10, QuietStep
<1> QED BY <1>3, <1>4 DEF Record, Goto

\* A name is drawn for a provision that had none.
LEMMA NameCredentials ==
  ASSUME DInv, CInv, NEW r \in Requests, stage[r] = "name", NEW n \in Names,
         name' = [name EXCEPT ![r] = n], stage' = [stage EXCEPT ![r] = "run"],
         UNCHANGED <<deployed, binding, config>>
  PROVE  CInv'
<1>1. /\ stage \in [Requests -> Stages] /\ name \in [Requests -> Names \cup {None}]
  BY DEF DInv, DeploymentsTypeOK, ChartTypeOK
<1>2. /\ stage'[r] = "run" /\ \A q \in Requests : q # r => stage'[q] = stage[q]
      /\ name'[r] = n /\ \A q \in Requests : q # r => name'[q] = name[q]
  BY <1>1
<1>3. name[r] = None /\ ~Done(r) BY DEF CInv, OwnersNamed, Done
<1>4. \A q \in Requests : Done(q) => q # r /\ Done(q)' BY <1>2, <1>3 DEF Done
<1>5. OwnersNamed'
  <2>1. \A m \in Names : deployed[m] # None =>
           name'[deployed[m].owner] = m /\ Done(deployed[m].owner)'
    BY <1>2, <1>4, OwnersAreRequests DEF CInv, OwnersNamed
  <2>2. \A q \in Requests : stage'[q] \in {"idle", "load", "name"} => name'[q] = None
    BY <1>2 DEF CInv, OwnersNamed
  <2> QED BY <2>1, <2>2 DEF OwnersNamed, Done
<1>6. RecordsNamed' BY <1>2, <1>4 DEF CInv, RecordsNamed, Done
<1>7. BindingsAreKept' BY DEF CInv, BindingsAreKept
<1>8. ASSUME NoThreeAlike' PROVE HoldsItsName' /\ LabelsOwn' /\ BoundToOwn'
  <2>1. NoThreeAlike BY <1>2, <1>3, <1>8, NamesStay
  <2>2. HoldsItsName'
    <3> SUFFICES ASSUME NEW q \in Requests, stage'[q] \in {"wait", "label", "record"}
                 PROVE  \/ deployed[name'[q]] # None /\ deployed[name'[q]].owner = q
                        \/ /\ deployed[name'[q]] = None
                           /\ \E s \in Requests : s # q /\ name'[s] = name'[q] /\ Done(s)'
      BY DEF HoldsItsName, Done
    <3>1. q # r /\ stage[q] \in {"wait", "label", "record"} /\ name'[q] = name[q] BY <1>2
    <3> QED BY <2>1, <3>1, <1>2, <1>4 DEF CInv, HoldsItsName
  <2>3. LabelsOwn' BY <2>1 DEF CInv, LabelsOwn
  <2>4. BoundToOwn' BY <2>1, <1>4 DEF CInv, BoundToOwn, BoundTo, Keyed, Done
  <2> QED BY <2>2, <2>3, <2>4
<1> QED BY <1>5, <1>6, <1>7, <1>8 DEF CInv

\* Helm makes a release under a name that is free: nobody else who drew the name
\* is between Helm's run and the record, or there would be three.
LEMMA RunCredentials ==
  ASSUME DInv, CInv, NEW r \in Requests, NEW keys \in SUBSET Keys, stage[r] = "run",
         deployed[name[r]] = None, Deploy(r, keys), stage' = [stage EXCEPT ![r] = "wait"],
         UNCHANGED <<name, binding, config>>
  PROVE  CInv'
<1>1. /\ stage \in [Requests -> Stages] /\ deployed \in [Names -> Releases \cup {None}]
  BY DEF DInv, DeploymentsTypeOK, ChartTypeOK
<1>2. PICK n \in Names : name[r] = n BY Carried DEF Installing
<1> DEFINE new == [owner |-> r, values |-> values[r], keys |-> keys, label |-> None]
<1>3. new.owner = r /\ new.label = None OBVIOUS
<1>4. deployed' = [deployed EXCEPT ![n] = new] BY <1>2 DEF Deploy
<1> HIDE DEF new
<1>5. /\ stage'[r] = "wait" /\ \A q \in Requests : q # r => stage'[q] = stage[q]
      /\ deployed'[n] = new /\ \A m \in Names : m # n => deployed'[m] = deployed[m]
  BY <1>1, <1>4
<1>6. ~Done(r) /\ Done(r)' BY <1>5 DEF Done
<1>7. \A q \in Requests : Done(q) => q # r /\ Done(q)' BY <1>5, <1>6 DEF Done
<1>8. OwnersNamed'
  <2>1. \A m \in Names : deployed'[m] # None =>
           /\ name[deployed'[m].owner] = m
           /\ stage'[deployed'[m].owner] \notin {"idle", "load", "name", "run"}
    <3> SUFFICES ASSUME NEW m \in Names, deployed'[m] # None
                 PROVE  /\ name[deployed'[m].owner] = m
                        /\ stage'[deployed'[m].owner] \notin {"idle", "load", "name", "run"}
      OBVIOUS
    <3>1. CASE m = n BY <3>1, <1>2, <1>3, <1>5, <1>6 DEF Done
    <3>2. CASE m # n
      <4>1. deployed[m] # None /\ deployed'[m] = deployed[m] BY <3>2, <1>5
      <4>2. /\ deployed[m].owner \in Requests /\ name[deployed[m].owner] = m
            /\ Done(deployed[m].owner)
        BY <4>1, OwnersAreRequests DEF CInv, OwnersNamed
      <4> QED BY <4>1, <4>2, <1>7 DEF Done
    <3> QED BY <3>1, <3>2
  <2>2. \A q \in Requests : stage'[q] \in {"idle", "load", "name"} => name[q] = None
    BY <1>5 DEF CInv, OwnersNamed
  <2> QED BY <2>1, <2>2 DEF OwnersNamed, Done
<1>9. RecordsNamed' BY <1>7 DEF CInv, RecordsNamed, Done
<1>10. BindingsAreKept' BY DEF CInv, BindingsAreKept
<1>11. ASSUME NoThreeAlike' PROVE HoldsItsName' /\ LabelsOwn' /\ BoundToOwn'
  <2>1. NoThreeAlike BY <1>11 DEF NoThreeAlike
  <2>2. HoldsItsName'
    <3> SUFFICES ASSUME NEW q \in Requests, stage'[q] \in {"wait", "label", "record"}
                 PROVE  \/ deployed'[name[q]] # None /\ deployed'[name[q]].owner = q
                        \/ /\ deployed'[name[q]] = None
                           /\ \E s \in Requests : s # q /\ name[s] = name[q] /\ Done(s)'
      BY DEF HoldsItsName, Done
    <3>1. CASE q = r
      <4>1. new # None
        <5>1. values[r] \in Values BY DEF DInv, DeploymentsTypeOK, ChartTypeOK
        <5>2. new \in Releases BY <5>1 DEF Releases, new
        <5> QED BY <5>2, NoneIsNew
      <4> QED BY <3>1, <4>1, <1>2, <1>3, <1>5
    <3>2. CASE q # r
      <4>1. stage[q] \in {"wait", "label", "record"} BY <3>2, <1>5
      <4>2. \/ deployed[name[q]] # None /\ deployed[name[q]].owner = q
            \/ /\ deployed[name[q]] = None
               /\ \E s \in Requests : s # q /\ name[s] = name[q] /\ Done(s)
        BY <2>1, <4>1 DEF CInv, HoldsItsName
      <4>3. name[q] # n
        <5> SUFFICES ASSUME name[q] = n PROVE FALSE
          OBVIOUS
        <5>1. PICK s \in Requests : s # q /\ name[s] = n /\ Done(s) BY <4>2, <1>2
        <5>2. s # r /\ n # None BY <5>1, <1>7, NoneIsNew
        <5> QED BY <3>2, <5>1, <5>2, <1>2, <2>1 DEF NoThreeAlike
      <4>4. name[q] \in Names BY <4>1, Carried DEF Installing
      <4> QED BY <4>2, <4>3, <4>4, <1>5, <1>7
    <3> QED BY <3>1, <3>2
  <2>3. LabelsOwn'
    <3>1. \A m \in Names : deployed'[m] # None =>
             deployed'[m].label \in {None, deployed'[m].owner}
      BY <2>1, <1>3, <1>5 DEF CInv, LabelsOwn
    <3> QED BY <3>1 DEF LabelsOwn
  <2>4. BoundToOwn'
    <3> SUFFICES ASSUME NEW q \in Requests, binding[q] # None
                 PROVE  /\ config[q] # None /\ Done(q)'
                        /\ \E k \in SUBSET Keys : BoundTo(q, k) /\ Keyed(q, k)'
      BY DEF BoundToOwn, BoundTo
    <3>1. /\ config[q] # None /\ Done(q)
          /\ \E k \in SUBSET Keys : BoundTo(q, k) /\ Keyed(q, k)
      BY <2>1 DEF CInv, BoundToOwn
    <3>2. q # r /\ Done(q)' BY <3>1, <1>7
    <3>3. \A k \in SUBSET Keys : Keyed(q, k) => Keyed(q, k)'
      BY <3>2, <1>3, <1>5 DEF Keyed
    <3> QED BY <3>1, <3>2, <3>3
  <2> QED BY <2>2, <2>3, <2>4
<1> QED BY <1>8, <1>9, <1>10, <1>11 DEF CInv

\* A provision labels what has its release name: its own release, or nothing.
LEMMA LabelCredentials == ASSUME DInv, CInv, NEW r \in Requests, Label(r) PROVE CInv'
<1>1. /\ stage[r] = "label" /\ stage' = [stage EXCEPT ![r] = "record"]
      /\ UNCHANGED <<name, config, binding>>
  BY DEF Label, Goto
<1>2. /\ stage \in [Requests -> Stages] /\ deployed \in [Names -> Releases \cup {None}]
  BY DEF DInv, DeploymentsTypeOK, ChartTypeOK
<1>3. PICK n \in Names : name[r] = n BY <1>1, Carried DEF Installing
<1>4. stage'[r] = "record" /\ \A q \in Requests : q # r => stage'[q] = stage[q]
  BY <1>1, <1>2
<1>5. \A q \in Requests : Done(q)' <=> Done(q) BY <1>1, <1>4 DEF Done
<1>6. CASE deployed[n] = None
  <2>1. deployed' = deployed BY <1>3, <1>6 DEF Label, LabelObjects
  <2>2. \A q \in Requests : stage'[q] = stage[q] \/ (stage[q] = "label" /\ stage'[q] = "record")
    BY <1>1, <1>4
  <2> QED BY <1>1, <2>1, <2>2, QuietStep
<1>7. CASE deployed[n] # None
  <2> DEFINE new == [deployed[n] EXCEPT !.label = r]
  <2>1. deployed' = [deployed EXCEPT ![n] = new] BY <1>3, <1>7 DEF Label, LabelObjects
  <2>2. /\ new \in Releases /\ new.owner = deployed[n].owner /\ new.keys = deployed[n].keys
        /\ new.label = r
    BY <1>2, <1>7 DEF Releases
  <2> HIDE DEF new
  <2>3. new # None BY <2>2, NoneIsNew
  <2>4. deployed'[n] = new /\ \A m \in Names : m # n => deployed'[m] = deployed[m]
    BY <1>2, <2>1
  <2>5. \A m \in Names :
           /\ deployed'[m] = None <=> deployed[m] = None
           /\ deployed[m] # None =>
                /\ deployed'[m].owner = deployed[m].owner /\ deployed'[m].keys = deployed[m].keys
                /\ deployed[m].owner \in Requests
    BY <1>7, <2>2, <2>3, <2>4, OwnersAreRequests
  <2>6. OwnersNamed'
    <3>1. \A m \in Names : deployed'[m] # None =>
             /\ name[deployed'[m].owner] = m
             /\ stage'[deployed'[m].owner] \notin {"idle", "load", "name", "run"}
      BY <1>5, <2>5 DEF CInv, OwnersNamed, Done
    <3>2. \A q \in Requests : stage'[q] \in {"idle", "load", "name"} => name[q] = None
      BY <1>4 DEF CInv, OwnersNamed
    <3> QED BY <1>1, <3>1, <3>2 DEF OwnersNamed, Done
  <2>7. RecordsNamed' BY <1>1, <1>5 DEF CInv, RecordsNamed, Done
  <2>8. BindingsAreKept' BY <1>1 DEF CInv, BindingsAreKept
  <2>9. ASSUME NoThreeAlike' PROVE HoldsItsName' /\ LabelsOwn' /\ BoundToOwn'
    <3>1. NoThreeAlike BY <1>1, <2>9 DEF NoThreeAlike
    <3>2. HoldsItsName'
      <4> SUFFICES ASSUME NEW q \in Requests, stage'[q] \in {"wait", "label", "record"}
                   PROVE  \/ deployed'[name[q]] # None /\ deployed'[name[q]].owner = q
                          \/ /\ deployed'[name[q]] = None
                             /\ \E s \in Requests : s # q /\ name[s] = name[q] /\ Done(s)'
        BY <1>1 DEF HoldsItsName, Done
      <4>1. stage[q] \in {"wait", "label", "record"} BY <1>1, <1>4
      <4>2. name[q] \in Names BY <4>1, Carried DEF Installing
      <4> QED BY <3>1, <4>1, <4>2, <1>5, <2>5 DEF CInv, HoldsItsName
    <3>3. LabelsOwn'
      <4>1. deployed[n].owner = r BY <3>1, <1>1, <1>3, <1>7 DEF CInv, HoldsItsName
      <4>2. \A m \in Names : deployed'[m] # None =>
               deployed'[m].label \in {None, deployed'[m].owner}
        BY <3>1, <4>1, <2>2, <2>4 DEF CInv, LabelsOwn
      <4> QED BY <4>2 DEF LabelsOwn
    <3>4. BoundToOwn'
      <4> SUFFICES ASSUME NEW q \in Requests, binding[q] # None
                   PROVE  /\ config[q] # None /\ Done(q)'
                          /\ \E k \in SUBSET Keys : BoundTo(q, k) /\ Keyed(q, k)'
        BY <1>1 DEF BoundToOwn, BoundTo
      <4>1. \A k \in SUBSET Keys : Keyed(q, k) => Keyed(q, k)' BY <2>5 DEF Keyed
      <4> QED BY <3>1, <4>1, <1>5 DEF CInv, BoundToOwn
    <3> QED BY <3>2, <3>3, <3>4
  <2> QED BY <2>6, <2>7, <2>8, <2>9 DEF CInv
<1> QED BY <1>6, <1>7

\* A deprovision takes away the release of the name its ConfigMap has, which may
\* not be its own any more; no provision under way needed that one.
LEMMA DeprovisionCredentials == ASSUME DInv, CInv, NEW r \in Requests, Deprovision(r) PROVE CInv'
<1>1. /\ config[r] # None /\ config[r].release # None /\ UNCHANGED <<stage, name>>
  BY DEF Deprovision, Uninstall
<1>2. /\ deployed \in [Names -> Releases \cup {None}] /\ config \in [Requests -> Configs \cup {None}]
  BY DEF DInv, DeploymentsTypeOK, ChartTypeOK
<1>3. PICK n \in Names : config[r].release = n BY <1>1, <1>2 DEF Configs
<1>4. name[r] = n /\ Done(r) BY <1>1, <1>3 DEF CInv, RecordsNamed
<1>5. deployed'[n] = None /\ \A m \in Names : m # n => deployed'[m] = deployed[m]
  BY <1>2, <1>3 DEF Deprovision, Uninstall
<1>6. /\ \A q \in Requests : config'[q] = config[q] \/ (config'[q] = None /\ binding'[q] = None)
      /\ \A q \in Requests : binding'[q] = binding[q] \/ binding'[q] = None
      /\ BindingsAreKept'
  <2>1. binding = [q \in Requests |-> binding[q]] BY DEF CInv, BindingsAreKept
  <2>2. CASE UNCHANGED <<config, binding>> BY <2>1, <2>2 DEF BindingsAreKept
  <2>3. CASE config' = [config EXCEPT ![r] = None] /\ binding' = [binding EXCEPT ![r] = None]
    <3>1. binding' = [q \in Requests |-> IF q = r THEN None ELSE binding[q]] BY <2>1, <2>3
    <3> QED BY <1>2, <2>3, <3>1 DEF BindingsAreKept
  <2> QED BY <2>2, <2>3 DEF Deprovision
<1>7. \A q \in Requests : Done(q)' <=> Done(q) BY <1>1 DEF Done
<1>8. OwnersNamed' BY <1>1, <1>5 DEF CInv, OwnersNamed, Done
<1>9. RecordsNamed' BY <1>1, <1>6 DEF CInv, RecordsNamed, Done
<1>10. ASSUME NoThreeAlike' PROVE HoldsItsName' /\ LabelsOwn' /\ BoundToOwn'
  <2>1. NoThreeAlike BY <1>1, <1>10 DEF NoThreeAlike
  <2>2. HoldsItsName'
    <3> SUFFICES ASSUME NEW q \in Requests, stage[q] \in {"wait", "label", "record"}
                 PROVE  \/ deployed'[name[q]] # None /\ deployed'[name[q]].owner = q
                        \/ /\ deployed'[name[q]] = None
                           /\ \E s \in Requests : s # q /\ name[s] = name[q] /\ Done(s)'
      BY <1>1 DEF HoldsItsName, Done
    <3>1. q # r BY <1>1 DEF DInv, InstallingIsReserved, Installing
    <3>2. name[q] \in Names BY Carried DEF Installing
    <3>3. CASE name[q] = n BY <3>1, <3>3, <1>4, <1>5, <1>7
    <3>4. CASE name[q] # n
      BY <2>1, <3>2, <3>4, <1>5, <1>7 DEF CInv, HoldsItsName
    <3> QED BY <3>3, <3>4
  <2>3. LabelsOwn' BY <2>1, <1>5 DEF CInv, LabelsOwn
  <2>4. BoundToOwn'
    <3> SUFFICES ASSUME NEW q \in Requests, binding'[q] # None
                 PROVE  /\ config'[q] # None /\ Done(q)'
                        /\ \E k \in SUBSET Keys : BoundTo(q, k) /\ Keyed(q, k)'
                        /\ config'[q] = config[q] /\ binding'[q] = binding[q]
      BY DEF BoundToOwn, BoundTo
    <3>1. config'[q] = config[q] /\ binding'[q] = binding[q] BY <1>6
    <3>2. \A k \in SUBSET Keys : Keyed(q, k) => Keyed(q, k)' BY <1>5 DEF Keyed
    <3> QED BY <2>1, <3>1, <3>2, <1>7 DEF CInv, BoundToOwn
  <2> QED BY <2>2, <2>3, <2>4
<1> QED BY <1>6, <1>8, <1>9, <1>10 DEF CInv

\* A bind makes the credentials of the release the instance's provision made.
LEMMA BindMakes ==
  ASSUME DInv, CInv, NEW r \in Requests, Bind(r)
  PROVE  /\ config[r] # None /\ UNCHANGED <<chartVars, config>>
         /\ \E creds : binding' = [binding EXCEPT ![r] = creds]
         /\ NoThreeAlike =>
               /\ Done(r)
               /\ \E n \in Names :
                    /\ deployed[n] # None /\ deployed[n].owner = r /\ name[r] = n
                    /\ \E services \in ServiceLists(config[r].service, r) : \E creds :
                          /\ creds = CredentialsOf(config[r].service, services, config[r].params,
                                                   SecretsFor(r, deployed[n].keys))
                          /\ creds # BindFailed
                          /\ binding' = [binding EXCEPT ![r] = creds]
<1>1. config[r] # None /\ UNCHANGED <<chartVars, config>> BY DEF Bind
<1>2. PICK n \in Visible(r) : \E services \in ServiceLists(config[r].service, deployed[n].owner) :
         LET creds == CredentialsOf(config[r].service, services, config[r].params, SecretsOf(n))
         IN  creds # BindFailed /\ binding' = [binding EXCEPT ![r] = creds]
  BY DEF Bind
<1>3. \E creds : binding' = [binding EXCEPT ![r] = creds] BY <1>2
<1>4. n \in Names /\ deployed[n] # None /\ deployed[n].label = r BY <1>2 DEF Visible
<1>5. ASSUME NoThreeAlike
      PROVE  deployed[n].owner = r /\ name[r] = n /\ Done(r)
  <2>1. deployed[n].owner = r BY <1>4, <1>5, NoneIsNew DEF CInv, LabelsOwn
  <2> QED BY <1>4, <2>1 DEF CInv, OwnersNamed
<1>6. SecretsOf(n) = SecretsFor(deployed[n].owner, deployed[n].keys)
  BY DEF SecretsOf, SecretsFor
<1>7. ASSUME NoThreeAlike
      PROVE  \E services \in ServiceLists(config[r].service, r) : \E creds :
                          /\ creds = CredentialsOf(config[r].service, services, config[r].params,
                                                   SecretsFor(r, deployed[n].keys))
                          /\ creds # BindFailed
                          /\ binding' = [binding EXCEPT ![r] = creds]
  BY <1>2, <1>5, <1>6, <1>7
<1> QED BY <1>1, <1>3, <1>4, <1>5, <1>7

\* A bind adds credentials, and changes nothing else.
LEMMA BindCredentials == ASSUME DInv, CInv, NEW r \in Requests, Bind(r) PROVE CInv'
<1>1. /\ config[r] # None /\ UNCHANGED <<stage, name, deployed, config>>
      /\ \E creds : binding' = [binding EXCEPT ![r] = creds]
  BY BindMakes DEF chartVars
<1>2. binding = [q \in Requests |-> binding[q]] BY DEF CInv, BindingsAreKept
<1>3. \A q \in Requests : q # r => binding'[q] = binding[q] BY <1>1, <1>2
<1>4. BindingsAreKept'
  <2>1. PICK creds : binding' = [binding EXCEPT ![r] = creds] BY <1>1
  <2>2. binding' = [q \in Requests |-> IF q = r THEN creds ELSE binding[q]] BY <1>2, <2>1
  <2> QED BY <2>2 DEF BindingsAreKept
<1>5. OwnersNamed' /\ RecordsNamed' BY <1>1 DEF CInv, OwnersNamed, RecordsNamed, Done
<1>6. ASSUME NoThreeAlike' PROVE HoldsItsName' /\ LabelsOwn' /\ BoundToOwn'
  <2>1. NoThreeAlike BY <1>1, <1>6 DEF NoThreeAlike
  <2>2. HoldsItsName' /\ LabelsOwn' BY <1>1, <2>1 DEF CInv, HoldsItsName, LabelsOwn, Done
  <2>3. BoundToOwn'
    <3> SUFFICES ASSUME NEW q \in Requests, binding'[q] # None
                 PROVE  /\ config[q] # None /\ Done(q)
                        /\ \E keys \in SUBSET Keys : BoundTo(q, keys)' /\ Keyed(q, keys)
      BY <1>1 DEF BoundToOwn, Done, Keyed
    <3>1. CASE q # r
      BY <3>1, <1>1, <1>3, <2>1 DEF CInv, BoundToOwn, BoundTo
    <3>2. CASE q = r
      <4>1. PICK n \in Names :
              /\ deployed[n] # None /\ deployed[n].owner = r /\ name[r] = n
              /\ \E services \in ServiceLists(config[r].service, r) : \E creds :
                    /\ creds = CredentialsOf(config[r].service, services, config[r].params,
                                             SecretsFor(r, deployed[n].keys))
                    /\ creds # BindFailed
                    /\ binding' = [binding EXCEPT ![r] = creds]
        BY <2>1, BindMakes
      <4>2. deployed[n].keys \in SUBSET Keys BY <4>1, OwnersAreRequests DEF Releases
      <4>3. Keyed(r, deployed[n].keys) BY <4>1 DEF Keyed, CInv, OwnersNamed
      <4>4. BoundTo(r, deployed[n].keys)' BY <1>1, <1>2, <4>1 DEF BoundTo
      <4>5. Done(r) BY <2>1, BindMakes
      <4> QED BY <3>2, <1>1, <4>2, <4>3, <4>4, <4>5
    <3> QED BY <3>1, <3>2
  <2> QED BY <2>2, <2>3
<1> QED BY <1>4, <1>5, <1>6 DEF CInv

\* Loading, naming, running and waiting.
LEMMA InstallCredentials == ASSUME DInv, CInv, NEW r \in Requests, Install(r) PROVE CInv'
<1>1. UNCHANGED <<config, binding>> BY DEF Install
<1>2. CASE LoadChart(r)
  BY <1>1, <1>2, MoveOn DEF LoadChart, Fail, Goto
<1>3. CASE WaitInstalled(r)
  BY <1>1, <1>3, MoveOn DEF WaitInstalled, Fail, Goto
<1>4. CASE GenerateName(r)
  <2>1. stage[r] = "name" /\ Installing(r) /\ deployed' = deployed
    BY <1>4 DEF GenerateName, Installing
  <2>2. ASSUME NEW t \in Stamps, name' = [name EXCEPT ![r] = [chart |-> chart[r], stamp |-> t]],
               stage' = [stage EXCEPT ![r] = "run"]
        PROVE  CInv'
    <3> DEFINE n == [chart |-> chart[r], stamp |-> t]
    <3>1. n \in Names BY <2>1, Carried DEF Names
    <3> HIDE DEF n
    <3>2. name' = [name EXCEPT ![r] = n] BY <2>2 DEF n
    <3> QED BY <1>1, <2>1, <2>2, <3>1, <3>2, NameCredentials
  <2>3. ASSUME name' = name, stage' = [stage EXCEPT ![r] = "failed"] PROVE CInv'
    BY <1>1, <2>1, <2>3, MoveOn
  <2> QED BY <1>4, <2>2, <2>3 DEF GenerateName, Goto
<1>5. ASSUME NEW keys \in SecretKeys(chart[r]), RunInstall(r, keys) PROVE CInv'
  <2>1. stage[r] = "run" /\ Installing(r) /\ name' = name
    BY <1>5 DEF RunInstall, Installing
  <2>2. keys \in SUBSET Keys BY <2>1, <1>5, Carried, SecretsAreKnown
  <2>3. ASSUME deployed[name[r]] = None, Deploy(r, keys), stage' = [stage EXCEPT ![r] = "wait"]
        PROVE  CInv'
    BY <1>1, <2>1, <2>2, <2>3, RunCredentials
  <2>4. ASSUME deployed' = deployed, stage' = [stage EXCEPT ![r] = "failed"] PROVE CInv'
    BY <1>1, <2>1, <2>4, MoveOn
  <2> QED BY <1>5, <2>3, <2>4 DEF RunInstall, Goto
<1> QED BY <1>2, <1>3, <1>4, <1>5 DEF Install

-----------------------------------------------------------------------------
(* Theorems *)

\* The invariant of the credentials, beside the one of what is deployed.
LEMMA CredentialsInvariance == Spec => [](DInv /\ CInv)
<1>1. ASSUME DInv, CInv, [Next]_vars PROVE CInv'
  <2>1. CASE UNCHANGED vars
    <3>1. UNCHANGED <<stage, name, deployed, binding, config>> BY <2>1 DEF vars, chartVars
    <3> QED BY <1>1, <3>1, QuietStep
  <2>2. CASE Next
    BY <1>1, <2>2, StartCredentials, ProvisionCredentials, InstallCredentials,
       LabelCredentials, RecordCredentials, BindCredentials, DeprovisionCredentials DEF Next
  <2> QED BY <1>1, <2>1, <2>2
<1> QED BY CInit, <1>1, DeploymentsInvariance, PTL DEF Spec

\* A binding opens an account of the release its own instance installed and of
\* no other: for any parameters users give, any settings and restarts, any keys
\* in the chart's secrets, any order of its services and any failures, as long
\* as no three provisions draw one release name (Bind of pkg/minibroker with the
\* providers, provision and the overrides of pkg/broker).
THEOREM CredentialsAreOfTheirInstance == Spec => []CredentialsOpenAccount
<1>1. DInv /\ CInv => CredentialsOpenAccount
  <2> SUFFICES ASSUME DInv, CInv, NoThreeAlike, NEW r \in Requests, NEW n \in Names,
                      binding[r] # None, config[r].service \in KnownServices, deployed[n] # None
               PROVE  Opens(binding[r], config[r].service, deployed[n]) <=> deployed[n].owner = r
    BY DEF CredentialsOpenAccount
  <2>1. PICK keys \in SUBSET Keys : BoundTo(r, keys) /\ Keyed(r, keys)
    BY DEF CInv, BoundToOwn
  <2>2. PICK services \in ServiceLists(config[r].service, r) :
           binding[r] = CredentialsOf(config[r].service, services, config[r].params,
                                      SecretsFor(r, keys))
    BY <2>1 DEF BoundTo
  <2>3. binding[r] # BindFailed /\ config[r] # None
    BY <2>1 DEF BoundTo, CInv, BoundToOwn
  <2>4. ASSUME deployed[n].owner = r PROVE Opens(binding[r], config[r].service, deployed[n])
    <3>1. deployed[n].values = config[r].params
      BY <2>3, <2>4 DEF DInv, InstalledAsAsked
    <3>2. deployed[n].keys = keys BY <2>1, <2>4 DEF Keyed
    <3> QED BY <2>2, <2>3, <2>4, <3>1, <3>2, CredentialsOpen
  <2>5. ASSUME Opens(binding[r], config[r].service, deployed[n]) PROVE deployed[n].owner = r
    <3> DEFINE own == [owner |-> r, values |-> config[r].params, keys |-> keys]
    <3>1. own.owner = r /\ own.values = config[r].params /\ own.keys = keys OBVIOUS
    <3> HIDE DEF own
    <3>2. Opens(binding[r], config[r].service, own)
      BY <2>2, <2>3, <3>1, CredentialsOpen
    <3> QED BY <2>5, <3>1, <3>2, CredentialsAreOfOne
  <2> QED BY <2>4, <2>5
<1> QED BY CredentialsInvariance, <1>1, PTL

\* Binding again gives the very same credentials: a restart with other settings,
\* another order of the services or a deprovision that failed in between change
\* none of them (Bind of pkg/minibroker and the Bind of each provider).
THEOREM BindingAgainIsTheSame == Spec => BindIsRepeatable
<1> DEFINE Same == NoThreeAlike =>
              \A r \in Requests : binding[r] # None /\ binding'[r] # None =>
                  \A k \in {"username", "password"} \cap DOMAIN binding[r] :
                      k \in DOMAIN binding'[r] /\ binding'[r][k] = binding[r][k]
<1>1. ASSUME DInv, CInv, [Next]_vars PROVE [Same]_vars
  <2> SUFFICES ASSUME NoThreeAlike, NEW r \in Requests, binding[r] # None, binding'[r] # None
               PROVE  binding'[r] = binding[r]
    OBVIOUS
  <2>1. binding = [q \in Requests |-> binding[q]] /\ config \in [Requests -> Configs \cup {None}]
    BY <1>1 DEF CInv, BindingsAreKept, DInv, DeploymentsTypeOK
  <2>2. ASSUME NEW q \in Requests, Bind(q) PROVE binding'[r] = binding[r]
    <3>1. CASE q # r
      <4>1. \E creds : binding' = [binding EXCEPT ![q] = creds] BY <1>1, <2>2, BindMakes
      <4> QED BY <2>1, <3>1, <4>1
    <3>2. CASE q = r
      <4>1. PICK n \in Names :
              /\ deployed[n] # None /\ deployed[n].owner = r
              /\ \E services \in ServiceLists(config[r].service, r) : \E creds :
                    /\ creds = CredentialsOf(config[r].service, services, config[r].params,
                                             SecretsFor(r, deployed[n].keys))
                    /\ creds # BindFailed
                    /\ binding' = [binding EXCEPT ![r] = creds]
        BY <1>1, <2>2, <3>2, BindMakes
      <4>2. PICK s1 \in ServiceLists(config[r].service, r) : \E creds :
                    /\ creds = CredentialsOf(config[r].service, s1, config[r].params,
                                             SecretsFor(r, deployed[n].keys))
                    /\ creds # BindFailed
                    /\ binding' = [binding EXCEPT ![r] = creds]
        BY <4>1
      <4>3. /\ binding'[r] = CredentialsOf(config[r].service, s1, config[r].params,
                                           SecretsFor(r, deployed[n].keys))
            /\ binding'[r] # BindFailed
        BY <2>1, <4>2
      <4>4. PICK keys \in SUBSET Keys : BoundTo(r, keys) /\ Keyed(r, keys)
        BY <1>1 DEF CInv, BoundToOwn
      <4>5. keys = deployed[n].keys BY <4>1, <4>4 DEF Keyed
      <4>6. PICK s2 \in ServiceLists(config[r].service, r) :
               binding[r] = CredentialsOf(config[r].service, s2, config[r].params,
                                          SecretsFor(r, deployed[n].keys))
        BY <4>4, <4>5 DEF BoundTo
      <4>7. binding[r] # BindFailed BY <4>4 DEF BoundTo
      <4> QED BY <4>3, <4>6, <4>7, AnyOrder
    <3> QED BY <3>1, <3>2
  <2>3. ASSUME NEW q \in Requests, Deprovision(q) PROVE binding'[r] = binding[r]
    <3>1. binding' = binding \/ binding' = [binding EXCEPT ![q] = None]
      BY <2>3 DEF Deprovision
    <3> QED BY <2>1, <3>1
  <2>4. binding' = binding => binding'[r] = binding[r] OBVIOUS
  <2> QED BY <1>1, <2>2, <2>3, <2>4
      DEF Next, Start, Exit, Provision, Install, Label, Record, vars
<1> QED BY CredentialsInvariance, <1>1, PTL DEF Spec, BindIsRepeatable
=============================================================================
