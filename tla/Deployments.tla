---------------------------- MODULE Deployments ----------------------------
(***************************************************************************)
(* What is deployed and what a binding says of it: the parameters of a     *)
(* provision, the settings of the broker process that accepted it, the     *)
(* chart installed with the ones or the others, the record of them in the  *)
(* ConfigMap, and the credentials a later process makes of that record.    *)
(*                                                                         *)
(* Each request is the life of one instance.  How calls on one instance    *)
(* race is the subject of Minibroker; here each instance has one call at a *)
(* time, and instances meet in Helm and in the restarts of the broker.     *)
(***************************************************************************)
EXTENDS ChartClient, KnownCharts

CONSTANTS Files,        \* provisioning settings files: service -> field -> value
          Asked         \* service -> the parameters users provision it with

VARIABLES file,         \* the settings file of the process that runs or was refused
          settings,     \* service -> override parameters; None when no process runs
          asked,        \* request -> what it asked for, and the override then in force
          config,       \* request -> the ConfigMap of its instance, None when there is none
          binding       \* request -> the credentials stored in it by its last bind

vars == <<chartVars, file, settings, asked, config, binding>>

NoParams == [k \in {} |-> None]

\* What users ask for and what the files override with are values of charts.
ASSUME SettingsAreValues ==
    /\ NoParams \in Values
    /\ None \notin Files
    /\ Asked \in [Charts -> SUBSET Values]
    /\ \A f \in Files : \A s \in KnownServices \cap DOMAIN f :
          "overrideParams" \in DOMAIN f[s] => f[s]["overrideParams"] \in Values \cup {None}

ASSUME SecretsAreKnown == \A c \in Charts : SecretKeys(c) \subseteq SUBSET Keys

Init ==
    /\ stage = [r \in Requests |-> "idle"]
    /\ chart = [r \in Requests |-> None]
    /\ values = [r \in Requests |-> NoParams]
    /\ name = [r \in Requests |-> None]
    /\ deployed = [n \in Names |-> None]
    /\ file = None /\ settings = None
    /\ asked = [r \in Requests |-> None]
    /\ config = [r \in Requests |-> None]
    /\ binding = [r \in Requests |-> None]

-----------------------------------------------------------------------------
(* The broker process *)

\* Decoding is strict: a service or a field it does not know is an error.
WellFormed(f) ==
    /\ DOMAIN f \subseteq KnownServices
    /\ \A s \in DOMAIN f : DOMAIN f[s] \subseteq {"overrideParams"}

\* A service that is left out, or whose override is null, has none.
LoadYaml(f) ==
    [s \in KnownServices |->
        IF s \in DOMAIN f /\ "overrideParams" \in DOMAIN f[s]
        THEN f[s]["overrideParams"] ELSE None]

\* Faulty variant: a file that cannot be decoded counts as far as it was read.
StartAnyway ==
    /\ settings = None
    /\ \E f \in Files : file' = f /\ settings' = LoadYaml(f)
    /\ UNCHANGED <<chartVars, asked, config, binding>>

\* A process that cannot read its settings exits at once.
Start ==
    /\ settings = None
    /\ \E f \in Files :
          /\ file' = f
          /\ settings' = IF WellFormed(f) THEN LoadYaml(f) ELSE None
    /\ UNCHANGED <<chartVars, asked, config, binding>>

Installing(r) == stage[r] \in {"load", "name", "run", "wait", "label", "record"}

\* The goroutines of a process end with it.
Exit ==
    /\ "exit" \in Faults /\ settings # None
    /\ settings' = None /\ file' = None
    /\ stage' = [r \in Requests |-> IF Installing(r) THEN "dead" ELSE stage[r]]
    /\ UNCHANGED <<chart, values, name, deployed, asked, config, binding>>

ForService(service) == IF service \in KnownServices THEN settings[service] ELSE None

-----------------------------------------------------------------------------
(* Provision *)

\* Faulty variant: the parameters the user gave are persisted.
PersistGiven(r) ==
    /\ settings # None
    /\ \E service \in Charts : \E given \in Asked[service] :
          LET override == ForService(service)
              params == IF override # None THEN override ELSE given
          IN  /\ CallInstall(r, service, params)
              /\ config' = [config EXCEPT ![r] =
                     [service |-> service, params |-> given, release |-> None]]
              /\ asked' = [asked EXCEPT ![r] =
                     [service |-> service, given |-> given, override |-> override]]
    /\ UNCHANGED <<file, settings, binding>>

\* Faulty variant: the user's parameters win over the override.
PreferGiven(r) ==
    /\ settings # None
    /\ \E service \in Charts : \E given \in Asked[service] :
          LET override == ForService(service)
              params == IF override = None \/ given # NoParams THEN given ELSE override
          IN  /\ CallInstall(r, service, params)
              /\ config' = [config EXCEPT ![r] =
                     [service |-> service, params |-> params, release |-> None]]
              /\ asked' = [asked EXCEPT ![r] =
                     [service |-> service, given |-> given, override |-> override]]
    /\ UNCHANGED <<file, settings, binding>>

\* The override of the running process replaces the parameters whole; what is
\* installed is also persisted.
Provision(r) ==
    /\ settings # None
    /\ \E service \in Charts : \E given \in Asked[service] :
          LET override == ForService(service)
              params == IF override # None THEN override ELSE given
          IN  /\ CallInstall(r, service, params)
              /\ config' = [config EXCEPT ![r] =
                     [service |-> service, params |-> params, release |-> None]]
              /\ asked' = [asked EXCEPT ![r] =
                     [service |-> service, given |-> given, override |-> override]]
    /\ UNCHANGED <<file, settings, binding>>

Install(r) ==
    /\ \/ LoadChart(r) \/ GenerateName(r) \/ WaitInstalled(r)
       \/ \E keys \in SecretKeys(chart[r]) : RunInstall(r, keys)
    /\ UNCHANGED <<file, settings, asked, config, binding>>

\* Services and secrets get the instance label, all before the record is made.
Label(r) ==
    /\ stage[r] = "label"
    /\ LabelObjects(r)
    /\ Goto(r, "record")
    /\ UNCHANGED <<chart, values, name, file, settings, asked, config, binding>>

\* An update that fails leaves a release the ConfigMap does not name.
Record(r) ==
    /\ stage[r] = "record"
    /\ \/ /\ config' = [config EXCEPT ![r].release = name[r]]
          /\ Goto(r, "ready")
       \/ /\ "kube" \in Faults
          /\ Goto(r, "failed")
          /\ UNCHANGED config
    /\ UNCHANGED <<chart, values, name, deployed, file, settings, asked, binding>>

-----------------------------------------------------------------------------
(* Bind and Deprovision, in whatever process runs by then *)

Visible(r) == {n \in Names : deployed[n] # None /\ deployed[n].label = r}

SecretsOf(n) == [k \in deployed[n].keys |-> Password(deployed[n].owner, k)]

\* Faulty variant: the override of the process that binds.
BindWithSettings(r) ==
    /\ settings # None /\ config[r] # None
    /\ \E n \in Visible(r) : \E services \in ServiceLists(config[r].service, deployed[n].owner) :
          LET override == ForService(config[r].service)
              params == IF override # None THEN override ELSE config[r].params
              creds == CredentialsOf(config[r].service, services, params, SecretsOf(n))
          IN  creds # BindFailed /\ binding' = [binding EXCEPT ![r] = creds]
    /\ UNCHANGED <<chartVars, file, settings, asked, config>>

\* A bind that fails leaves the credentials as they were.
Bind(r) ==
    /\ settings # None /\ config[r] # None
    /\ \E n \in Visible(r) : \E services \in ServiceLists(config[r].service, deployed[n].owner) :
          LET creds == CredentialsOf(config[r].service, services, config[r].params, SecretsOf(n))
          IN  creds # BindFailed /\ binding' = [binding EXCEPT ![r] = creds]
    /\ UNCHANGED <<chartVars, file, settings, asked, config>>

\* The ConfigMap goes once its release is uninstalled, unless its delete fails.
Deprovision(r) ==
    /\ settings # None /\ config[r] # None /\ config[r].release # None
    /\ Uninstall(config[r].release)
    /\ \/ /\ config' = [config EXCEPT ![r] = None]
          /\ binding' = [binding EXCEPT ![r] = None]
       \/ "kube" \in Faults /\ UNCHANGED <<config, binding>>
    /\ UNCHANGED <<file, settings, asked>>

Next ==
    \/ Start \/ Exit
    \/ \E r \in Requests :
          \/ Provision(r) \/ Install(r) \/ Label(r) \/ Record(r)
          \/ Bind(r) \/ Deprovision(r)

Spec == Init /\ [][Next]_vars

-----------------------------------------------------------------------------
(* Types *)

Configs == [service : Charts, params : Values, release : Names \cup {None}]
ASSUME ConfigsAreSome == None \notin Configs

Questions == [service : Charts, given : Values, override : Values \cup {None}]

\* Every variable holds a value of its kind; a file that is refused leaves no
\* process running.
DeploymentsTypeOK ==
    /\ ChartTypeOK
    /\ file \in Files \cup {None}
    /\ settings \in [KnownServices -> Values \cup {None}] \cup {None}
    /\ settings # None => file # None /\ WellFormed(file)
    /\ asked \in [Requests -> Questions \cup {None}]
    /\ config \in [Requests -> Configs \cup {None}]

-----------------------------------------------------------------------------
(* Properties *)

\* What the process that accepted a provision had to install.
Effective(q) == IF q.override # None THEN q.override ELSE q.given

\* A release runs with the override of the process that accepted its provision,
\* or with the user's parameters when it had none, and the ConfigMap remembers
\* those very values: no restart with other settings mixes the two.
InstalledAsAsked ==
    \A r \in Requests :
        /\ config[r] # None => config[r].params = Effective(asked[r])
        /\ \A n \in Names : deployed[n] # None /\ deployed[n].owner = r =>
              deployed[n].values = Effective(asked[r])

\* Two provisions may have drawn one release name, but never three.  A third
\* release of the name can be labelled for the second: the ConfigMap of the
\* first, when its delete failed, still names what it uninstalls once more.
NoThreeAlike ==
    \A q, r, s \in Requests :
        name[q] # None /\ name[q] = name[r] /\ name[q] = name[s] => q = r \/ r = s \/ q = s

\* The credentials stored for an instance open an account of the release that
\* its own provision installed, on that release's own master service, and no
\* account of another's: whatever settings are in force by then, whoever else
\* drew the same release name, and whatever keys the chart's secrets have.
CredentialsOpenAccount ==
    NoThreeAlike =>
        \A r \in Requests, n \in Names :
            /\ binding[r] # None /\ config[r].service \in KnownServices
            /\ deployed[n] # None
            => (Opens(binding[r], config[r].service, deployed[n]) <=> deployed[n].owner = r)

\* Binding an instance again gives the same account with the same password,
\* however often the broker restarted with other settings in between.
BindIsRepeatable ==
    [][NoThreeAlike =>
          \A r \in Requests : binding[r] # None /\ binding'[r] # None =>
              \A k \in {"username", "password"} \cap DOMAIN binding[r] :
                  k \in DOMAIN binding'[r] /\ binding'[r][k] = binding[r][k]]_vars

\* A broker starts with the settings that charts/minibroker/values.yaml gives as
\* the example of overriding the parameters of a service.
DocumentedSettingsStart == file = DocumentedSettings => settings # None
=============================================================================
