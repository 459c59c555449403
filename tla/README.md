# A TLA+ model of Minibroker

Minibroker is an Open Service Broker (OSB): platforms ask it to provision and
deprovision service instances and to bind and unbind them; it does so by
installing Helm charts in a Kubernetes cluster. This directory models its
control flow, checks it with TLC on small instances, and proves with TLAPS, for
any number of calls, instances and processes, every safety property the passing
runs check, a few under conditions that section 4 names: no Helm release is ever orphaned or doubled, instances go through their
stages in order, answers are true, every release runs with the parameters it had
to be installed with, and credentials open the instance they were made for.

    tlc -workers 2 -config Incarnations.cfg MCMinibroker
    tlc -workers 2 -config CatalogRestarts.cfg MCCatalog
    tlc -workers 2 -config Deployments.cfg MCDeployments
    tlapm MinibrokerProofs.tla
    tlapm LifecycleProofs.tla
    tlapm StepProofs.tla
    tlapm AnswerProofs.tla
    tlapm SerialProofs.tla
    tlapm CatalogProofs.tla
    tlapm DeploymentsProofs.tla
    tlapm CredentialsProofs.tla

## 1. The system

| Component | State | Operations | Source |
|---|---|---|---|
| Service instances | one ConfigMap per instance ID (release, namespace, last operation), Helm releases, labels on their services and secrets | Provision, Deprovision, LastOperation, and the goroutines that finish the asynchronous ones | `pkg/minibroker/minibroker.go`, `pkg/broker/broker.go` |
| Bindings | two keys per binding in the instance's ConfigMap: credentials and state | Bind, its goroutine, Unbind, GetBinding, BindingLastOperation | same |
| Request handling | `Broker.Lock`, goroutines, the process | HTTP handlers, exit on a signal | `pkg/broker/broker.go`, `cmd/minibroker/main.go` |
| Catalog | the chart index, loaded once | Initialize, ListServices, GetChart | `pkg/helm/helm.go`, `repository.go`, `minibroker.go` |
| Helm client | none of its own | Install, Uninstall | `pkg/helm/chart.go`, `config.go` |
| Providers | none | Bind of mysql, mariadb, mongodb, postgresql, redis, rabbitmq | `pkg/minibroker/provider.go`, `mysql.go`, ... |
| Provisioning settings | parameters read at start | LoadYaml, ForService | `pkg/broker/broker.go` |
| Release names | none | Generate | `pkg/nameutil/generator.go` |
| Start-up, logging, deployment | options | `main`, ClusterDomain; one replica, rolling update | `cmd/`, `pkg/kubernetes`, `pkg/log`, `charts/` |

How they interact. A handler takes `Broker.Lock` (all but Unbind, GetBinding,
BindingLastOperation, GetCatalog and Update do) and calls the Client. The Client
keeps everything in the ConfigMap. Every change after its creation goes through
`updateConfigMap`: Get, change some keys, Update; the API server refuses the
Update when the ConfigMap changed in between, and the Client does not retry. An
asynchronous Provision or Deprovision writes "in progress" and its operation
key, starts a goroutine and answers; an asynchronous Bind starts its goroutine
at once. The goroutines run outside the lock, next to later calls. Nothing
resumes them when the process exits, and while a Deployment rolls over two
processes run, each with a lock of its own.

What is hard here, then, is interleaving of goroutines at the API calls, stale
reads (the release name at the start of Deprovision, the namespace at the start
of Bind, the copy in `updateConfigMap`), multi-step operations that fail or die
halfway, replies that are lost, and reports that are written late, or dropped.
`PROJECT.json` lists each hazard with its line and the properties about it.

What makes each component correct:

- *instances*: an ID has one release at most, every release can be found from a
  ConfigMap, stages come in order, answers are true, polling settles;
- *bindings*: credentials are complete and the instance's own, a binding that
  reads "succeeded" can be fetched, updates of different bindings do not undo
  each other;
- *request handling*: the lock is always given back, and nothing but Helm keeps a
  call waiting;
- *catalog*: a plan ID that can be turned back installs the app version it was
  made for, or nothing; no plan ID installs an app version of another ID;
- *settings, Helm client, providers*: a release runs with what the process that
  accepted it had to install, the ConfigMap remembers that, and the credentials
  made of it, possibly much later and by another process, log in to that release.

## 2. Modules

| Module | What it models |
|---|---|
| `Cluster` | ConfigMaps with resourceVersions, Helm releases, instance labels: outside the source, modelled from how it is called |
| `BrokerCalls` | calls, the lock, detaching a goroutine, answering, `updateConfigMap`, arrival, exit of a process |
| `InstanceOps` | Provision, Deprovision, LastOperationState |
| `BindingOps` | Bind, Unbind, GetBinding, LastBindingOperationState |
| `Minibroker` | all of them together: `Spec`, `FairSpec`, the inductive invariant, all properties |
| `InstanceLifecycle` | abstract specification: the stages of one instance, which `Minibroker` implements |
| `MinibrokerProofs` | the inductive invariant of `Minibroker` and what follows from it |
| `LifecycleProofs` | the refinement, action properties and credentials of `Minibroker` |
| `StepProofs` | lemmas: what one step of a request does, action by action |
| `AnswerProofs` | answers and the end of "in progress" in `Minibroker` |
| `SerialProofs` | what holds in `Minibroker` of platforms that wait for each call |
| `Catalog` | index, catalog, plan IDs, GetChart, across restarts |
| `CatalogProofs` | theorems about `Catalog` |
| `Providers` | parameters and secrets, the `Dig` functions, `Bind` of the six providers, as operators |
| `KnownCharts` | secrets, services and accounts of the charts the providers are for: outside the source |
| `ChartClient` | `Install` and `Uninstall` of `pkg/helm`, step by step, with release names that collide or are too long |
| `Deployments` | settings, restarts, provisions, binds and deprovisions over `ChartClient` and `Providers`: what runs, what is recorded, what a binding says |
| `DeploymentsProofs` | types of `Deployments`, and what runs there |
| `CredentialsProofs` | the credentials of `Deployments` and the providers that make them |
| `MCMinibroker`, `MCCatalog`, `MCDeployments` | definitions for TLC: symmetry, order of arrival, chart versions, parameters and settings |

`Minibroker` and `Deployments` look at the same calls from two sides. In
`Minibroker` calls on one instance race, and an install, a list of parameters
and a credential are one step or one value. In `Deployments` an instance has one
call at a time (each request is the whole life of an instance), and it is the
data that matters: parameters, overrides, secrets and names. Instances meet there
in Helm's names and in the restarts of the broker.

### State and code

A *request* is one OSB call; the model creates as many as the constant
`Requests` has. The ConfigMap a call creates (`uid`), the Helm release it
installs and the operation key it is answered with are named by the request,
since the code makes a fresh name for each (release names are a time stamp with
two random bytes; ConfigMaps have a UID). `pc[r]` is the API or Helm call the
goroutine of `r` makes next:

| `pc` | Code |
|---|---|
| `lock` | `b.Lock()` in `broker.go` |
| `create` | `ConfigMaps().Create` in Provision |
| `mark` | `updateConfigMap` with "in progress" (Provision, Deprovision), then `go func()` |
| `install`, `label`, `record` | `provisionSynchronously` |
| `succeed`, `fail` | the last `updateConfigMap` of the goroutines of Provision and Deprovision, and of `bindSynchronously` |
| `lookup`, `uninstall`, `delete` | Deprovision |
| `find`, `listServices`, `listSecrets`, `store` | Bind |
| `check`, `fetch` | the tail of `Broker.Bind` for a synchronous call |
| `remove` | Unbind |

`copy[r]` is the ConfigMap between the Get and the Update of `updateConfigMap`,
so that each update is two steps. `target[r]` is the release read at the start
of Deprovision and Bind. `answer[r]` is what the platform was answered; a reply
frees the lock. `Crash(k)` ends all goroutines of process `k`.

Polls (LastOperation, BindingLastOperation, GetBinding) change nothing: they are
operators over the state, and a property about a poll holds at any moment a poll
may come, more often than `Broker.Lock` would let LastOperation in.

In `Deployments`, `stage[r]` is the step of the install of `r`:

| `stage` | Code |
|---|---|
| `load` | `chartLoader.Load` in `ChartClient.Install` |
| `name` | `nameGenerator.Generate` and the check of its length |
| `run` | `ProvideInstaller` and Helm's `Run`, up to the release |
| `wait` | the rest of `Run`, since `client.Wait` is set |
| `label`, `record` | the rest of `provisionSynchronously` |
| `dead` | its process has exited |

`file` and `settings` are those of the process that runs: a file that is not well
formed leaves no process, and `Exit` ends one with all its goroutines. `config`
has the service, parameters and release of the ConfigMap. `asked` is a history
variable: what the user asked and the override in force when the broker took the
request; nothing in the actions reads it. The objects of a release are labelled
in one step here, one by one in `Minibroker`.

A value of a parameter is a string, an object, or something else, told apart by
the name of its field: `DigString` distinguishes no more. An unset parameter
object and an empty one dig alike.

Failures are named in `Faults`: in `Deployments` `"helm"` (any step of an install
fails), `"kube"` (the record, or the delete of the ConfigMap, fails) and
`"exit"`; in `Minibroker` `"kube"` (a call to the API server fails, or
works and its reply is lost), `"helm"` (install fails, with or without leaving a
release; uninstall fails, with or without removing it), `"provider"` (a
provider's Bind fails), `"crash"`. A conflict, a missing ConfigMap and a missing
release are outcomes of the state, not faults.

Abstracted in `Minibroker`: contents of secrets and parameters, descriptions, error wording,
HTTP status beyond the kind of the answer; contents of a service list beyond
being empty or not. A credential is the pair of a release and one of its secrets. Abstracted in
`Deployments`: the URI, which is made of the other credentials, port numbers, and
how a host is spelled; a name generated is a chart and a stamp, and stamps may
repeat, as a clock that is set back and two random bytes allow.

`KnownCharts` says what is not in this repository and the providers rely on: who
may log in to a release of each chart, with the password under which key of its
secrets. It is written from the providers' comments and the charts' parameters.
One fact has no other source than `postgres.go:68-69`: that
`postgresql-postgres-password` opens the account of the user when
`postgresqlPostgresPassword` is set. `CredentialsOpenAccount` says that the
provider fits such charts, not that a chart is like that, and would not see it if
that rule were wrong. The platform is taken
to bind an instance with the service ID it provisioned it with, as OSB requires.

Some definitions marked *Faulty variant* are not part of the specification. Each
is a plausible bug (a missing unlock, a missing error check, Create replaced by
create-or-update); with it in place of the definition below it, TLC finds the
property that `PROJECT.json` pairs it with violated.

## 3. What the runs check

| Run | Instance | Shows |
|---|---|---|
| `Incarnations` | 4 asynchronous provisions and deprovisions of one ID, all faults | `IInv`, `OneReleasePerInstance`, `LifecycleImplemented` (refinement of `InstanceLifecycle`), `StuckForGood` |
| `Overlap` | 3 calls of any kind and mode, 2 processes, API failures and crashes | `TypeOK`, `NoLostUpdate`, `AnswersAreTrue` |
| `Neighbours` | 3 overlapping calls, 2 instances, 2 namespaces, chart failures | `OwnCredentials`, `NothingLeftInProgress` |
| `SerialFaults` | 4 calls, one at a time, 2 secrets, all faults | `SucceededMeansReady`, `BoundMeansFetchable`, `CompleteCredentials` |
| `RacesEnd` | 3 overlapping calls of any kind and mode, all faults, Helm may not answer | `EveryCallEnds` (liveness) |
| `RacesSettle` | 3 overlapping calls of any kind and mode in one process, no fault, Helm may not answer | `PollingSettles`, `DeprovisionFinishes` (liveness) |
| `CatalogRestarts` | 2 charts, one of up to 2 versions and one of up to 1, any index after any restart | `NeverAnotherPlan`, `InstallsWhatIsListed` |
| `Deployments` | 2 instances of any of 7 charts, 15 parameter objects, 3 settings files, 2 stamps, any restarts, all faults | `DeploymentsTypeOK`, `InstalledAsAsked`, `CredentialsOpenAccount`, `BindIsRepeatable` |
| `LatePollOfDeprovision` | 2 calls, no fault | violates `PollsOwnOperation` |
| `ConcurrentBinds` | 3 calls, no fault | violates `BindResultReported` |
| `PlansThatFail` | 1 chart of 1 version | violates `EveryPlanDeploys` |
| `DocumentedExample` | 1 instance, no fault | violates `DocumentedSettingsStart` |

*Serial* is a property of the platform: it starts no call on an instance while
another one, goroutine included, is running on it. OSB platforms are meant to
behave so; the code does not enforce it. The properties about a serial platform
are false without it (a Bind during Provision stores part of the secrets, an
Unbind between the two updates of a Bind leaves a state without credentials).
So they say nothing of a Bind that overlaps the labelling of the secrets, or that
outlives its instance and writes into the next one of the same ID: both happen,
and `PROJECT.json` lists them as hazards without a property. What any overlap
leaves true of bindings is `OwnCredentials`, `NoLostUpdate` and `AnswersAreTrue`.

### Bounds

`Requests` bounds the calls and, through them, resourceVersions. Three calls are
every pairwise race and one bystander; four are two lives of one instance ID
with a late or failing call beside them. One instance is enough where nothing
relates instances; `Neighbours` has two. One service and one secret are enough
except where a property tells part from whole (`SerialFaults`). Requests,
bindings and secrets are interchangeable, hence the symmetry; the liveness runs
have none and let requests arrive in their order instead (`ArriveInOrder`), which
loses nothing since their numbers carry no meaning.

In `Deployments` two instances are enough for one to draw the other's name and
for a secret or a host to be the other's. With three that draw one name the two
properties of credentials would be false, and they leave that out
(`NoThreeAlike`): the first instance is deprovisioned but the delete of its
ConfigMap fails; the second's release gets the name; the first is deprovisioned
again, which uninstalls the second's release before it is labelled; the third's
release gets the name, and the second's provision labels and records it as its
own. The real names, a time stamp in nanoseconds and two random bytes, make that
a matter of principle. Any number of instances, with two alike wherever one
likes, is left to the proof. The parameters are one of each kind the providers treat differently: none, a user of
one's own, the administrator spelled out, nested objects, an object where a
string is expected and the other way round, the old names of parameters, and a
value that is no string. The settings are the chart's defaults (no override), an
override for each service, one of them empty, and the documented example. The
seventh chart has no provider and a name too long for Helm. Nothing counts
restarts: the states repeat.

`MaxVersions` bounds the versions of a chart; the second chart, whose name starts
with the first one's, has one at most (`OneVersionElsewhere`), as versions are
compared within a chart only. The run that passes lists both charts, the one that
fails the curated one only. The characters in `MCCatalog` are
one of each class that plan IDs treat differently: lower-case letter, capital,
digit, dash, dot. `Plain` and `ToLower` say which is which, so that the proofs
hold for any alphabet.

### Fairness

`FairSpec` has weak fairness of `Step(r)` for each request, but for its calls to
Helm: a goroutine whose next call is possible makes it. Go schedules runnable
goroutines, and the API server answers or fails in the end. Helm need not:
`chart.go:223-227` sets `Wait` and no `Timeout`, with which Helm 3.2.3 polls for
ever, hooks of an install or uninstall wait in the same way, and the archive is
fetched with `http.DefaultClient` (`chart.go:145`), which has no timeout either. So
`Install` and `Uninstall` have no fairness, and each liveness property says what
it is worth when one of them never answers. `EveryCallEnds` names the calls that
may wait for ever: those at Helm, and those behind a synchronous one at Helm that
has `Broker.Lock`, polls included. It has every fault, the panic of
`LastBindingOperationState` and the exit of the process among them, and says that
none of these leaves a call or the lock behind. The two others are about what
happens without faults, since a last update that fails is not retried and leaves
"in progress" for good. A request that waits for `Broker.Lock` is continuously
enabled only while the lock is free: weak fairness suffices because the model has
finitely many calls. Arrival of calls and crashes are never required.

`PollingSettles` is about races of Provisions and Deprovisions, where the
unretried last updates conflict with each other. It leaves out instances with
calls about bindings, as `NothingLeftInProgress` does: a Bind or Unbind that writes
between the Get and the Update of a last word makes that word get lost, and "in
progress" then stays. It is about one process; with two, a synchronous Provision
in the other one does the same.

### What the violated properties show

- `PollsOwnOperation`. A Deprovision that arrives while the goroutine of a
  Provision runs marks its own key; the Provision then writes "succeeded" under
  it. A platform reads that its deprovision succeeded while the instance is
  there. (`minibroker.go:350`; the comment at 778 says otherwise.)
- `BindResultReported`. Two asynchronous binds of one instance write at once;
  one update conflicts, the error is dropped, and no result of that bind is ever
  reported. (`minibroker.go:652`; the comment at 548.)
- `EveryPlanDeploys`. An app version with a dash or a capital letter does not
  survive the way to a plan ID and back. (`minibroker.go:298`; `README.md:14`.)
  In the run the plan is refused. When the index also lists the app version that
  the ID turns into (`1.1` beside `1-1`, `a` beside `A`), both plans have one ID,
  and asking for the first installs the chart of the second. `NeverAnotherPlan`
  allows that and nothing worse; without its `Survives` the run `CatalogRestarts`
  finds such an install.

- `DocumentedSettingsStart`. `values.yaml` gives parameters right under the
  service as an example of overriding them; the settings file gets them as they
  are, decoding is strict and knows `overrideParams` only, and the broker exits.
  (`broker.go:49`; `charts/minibroker/values.yaml:46-55`.)

`StuckForGood` states a limit as a fact: an instance whose provision ended
without recording its release, or whose release went while its ConfigMap stayed,
can be neither deprovisioned nor provisioned again.

## 4. What is proved

For all values of the constants: any number of calls, instances, bindings and
processes, serial platforms or not, all faults, unless the last column says more.

| Module | Theorem | States | Where |
|---|---|---|---|
| `MinibrokerProofs` | `TypeCorrect` | `Spec => []TypeOK` | |
| | `Invariance` | `Spec => []IInv` | |
| | `EveryReleaseIsAccountedFor` | `Spec => []NoOrphanRelease` | |
| | `ReleaseIsUnique` | `Spec => []OneReleasePerInstance` | |
| `LifecycleProofs` | `ImplementsLifecycle` | `Spec => LifecycleImplemented` | |
| | `UpdatesAreKept` | `Spec => NoLostUpdate` | |
| | `StuckStaysStuck` | `Spec => StuckForGood` | |
| | `CredentialsStayOwn` | `Spec => []OwnCredentials` | |
| | `RecordedReleasesRan` | `Spec => []RecordsWhatRuns` | |
| `AnswerProofs` | `PositiveAnswersAreTrue` | `Spec => AnswersAreTrue` | |
| | `InProgressEnds` | `Spec => []NothingLeftInProgress` | no API failures and no crashes; asynchronous calls |
| `SerialProofs` | `RecordedReleasesAreLabelled` | `Spec => []RecordedIsLabelled` | |
| | `BoundIsFetchable` | `Spec => []BoundMeansFetchable` | `Serial` |
| | `SucceededIsReady` | `Spec => []SucceededMeansReady` | `Serial` |
| | `CredentialsAreComplete` | `Spec => []CompleteCredentials` | `Serial` |
| `CatalogProofs` | `NoOtherPlanIsInstalled` | `Spec => []NeverAnotherPlan` | chart names of lower-case letters, digits and dashes |
| | `ListedIsInstalled` | `Spec => []InstallsWhatIsListed` | |
| `DeploymentsProofs` | `DeploymentsTypeCorrect` | `Spec => []DeploymentsTypeOK` | |
| | `ReleasesAreAsAsked` | `Spec => []InstalledAsAsked` | |
| `CredentialsProofs` | `CredentialsAreOfTheirInstance` | `Spec => []CredentialsOpenAccount` | no three equal names (in the property) |
| | `BindingAgainIsTheSame` | `Spec => BindIsRepeatable` | same |

The assumptions are the named ones of the modules. For `Minibroker`:
`KindsOfResources`, `FaultsAreKnown`, `OpsAreKnown`, and `NoneIsFresh`,
`NoneIsNoState`, `NoneIsNoAnswer`, `NoneIsNoCall` (`None` is nothing else). For
`Deployments`: `NoneIsNew`, `ConfigsAreSome` (the same of its `None`),
`FaultsAreKnown`, `LengthsAreNumbers`, `SettingsAreValues` (parameters and
overrides are values of charts) and `SecretsAreKnown`. For `Catalog`:
`NamesAreSpelled`, `EntriesAreVersions`, `BoundIsANumber`, and
`CharactersAreKnown` (a capital is no lower-case letter, and the dash, the dot and
the at sign are neither).

The conditions of the last column are hypotheses of the theorem. `Serial` is the
platform of section 3, and a property of it alone is false without it. Without
API failures, crashes and synchronous calls is what `NothingLeftInProgress` is
about: a failed last update leaves "in progress" for ever, and so does that of a
Deprovision that conflicts with the record of a synchronous Provision in another
process, which writes no state after it. Chart names are lower-case ones by Helm's
conventions, which this code does not enforce: were there a chart `A` with app
versions `1` and `a.1`, the ID of the first, `a-1`, would not start with the name
on its way back, turn into `a.1`, and install the second.

*Answers are true.* A positive answer is looked at in the step that gives it, and
the step knows enough but for two things, which are the invariant of
`AnswerProofs`: a goroutine that outlives its handler has been answered for
(`Answered`), so that its end is no second answer; and a provision about to record
has labelled everything (`LabelledWhenRecorded`). That its release still runs then
is `RecordsWhatRuns`.

*"In progress" ends.* `SomebodyReports` says who is left to write: as long as an
instance reads "in progress", one of its requests will still write a state or
delete the ConfigMap, and the copy it has read, if any, is the current one. When
that request's update conflicts, then with one that wrote since: so its copy was
not current, and the reporter is the other one. It is false for a call that binds,
which may disturb the last update of a provision and writes no state of the
operation itself.

*Serial platforms.* One call at a time on an instance (`OneLive`) is kept by
arrival alone. `Sound` relates the keys of one ConfigMap to each other, `Fits` the
ConfigMap to what the one call running on it has read or done; neither is inductive
without the other, since a Bind stores what it listed earlier, and lists what a
Provision that failed or died left behind. The part of `Sound` on credentials is
about ConfigMaps that record a release, and only because of that does it survive
the faults: an instance whose provision never recorded may hold part of its
secrets, or none at all. `RecordedReleasesAreLabelled` needs no such platform.

*A plan ID installs an app version of that ID or nothing.* Plan IDs are not
reversible, and app versions may share one, but
the way back and forth again ends where it began (`PlanBack`): the service's name
and a dash are what the ID starts with, so cutting their first occurrence leaves
the clean app version, and dots for dashes become dashes again. When the app
version has nothing but lower-case letters, digits and dots, what comes back is
that app version itself (`SurvivorBack`), so that of the app versions with one ID
at most one is safe to ask for: the one with the dots. `GetChart` answers with the
very app version it was asked for. So it does not matter which process made the
catalog; that every offer has the plan ID of its chart's app version
(`OffersArePlans`) is all that is carried along. `ListedIsInstalled` is about one
index: sorted, so that the first version found and the newest version listed are
the same, where invalid ones come last.

*Credentials open their own instance.* Two arguments meet. The providers: whatever
the parameters, a bind that does not fail has the login and the password of an
account of the chart, from the secret that the chart keeps it in, with a lemma for
each provider; a chart's own secrets are merged in below and change neither; the
host names the release, so the credentials are of no other; and the order of the
services does not matter (`AnyOrder`), so that binding again gives the same. The
system: what is bound stays made of the ConfigMap's parameters and the secrets of
the instance's own release (`BoundToOwn`). Names are what could break that, since
labels and uninstalls go by name: only the provision that made a release labels it
(`LabelsOwn`), which holds because a provision between Helm's run and the record
finds its own release under its name, or none and nobody left to make one
(`HoldsItsName`). That last part is where three equal names fail, as section 3
tells; it was the proof that found it, no run of two instances could. With
`InstalledAsAsked` the parameters in the ConfigMap are those of the release, and
the two arguments close.

*Only model-checked.* Liveness (`EveryCallEnds`, `DeprovisionFinishes`,
`PollingSettles`): fairness and ENABLED are out of the prover's reach.

## 5. Not modelled

- The HTTP and metrics surface (other repositories), logging, flags, TLS files and
  the lookup of the cluster domain, the container image: straight-line code or
  configuration. Of the deployment the model keeps that two processes may
  overlap: the template reads `deploymentStrategy`, the values file sets
  `deploymentPolicy`, and Kubernetes' default is a rolling update.
- Helm, the Kubernetes API server and the charts themselves: modelled only as far
  as the code uses them, and marked external.
- `Update`, which does nothing, and the check that a namespace is given.
- The names of the ConfigMap's keys: two bindings with IDs `X` and `state-X` would
  share one (`minibroker.go:75`). Binding IDs never collide in the model.
- Operation keys that repeat after a restart, since the generator is not seeded
  (`minibroker.go:178`). Operations are named by their request in the model.
- Status codes beyond the kind of the answer, so that Unbind of an instance that
  is gone (`minibroker.go:672`) is just an error.
- A platform's own retries: a retry is one more call, which the runs allow at any
  moment.
