----------------------------- MODULE ExternalProxy -----------------------------
(***************************************************************************)
(* Publishing projects with the Docker proxy: `up`, `stop`, `down`,        *)
(* `proxy apply`, `proxy bootstrap` and the publication of a shared        *)
(* service, over the registry, the containers of the projects, the shared  *)
(* Caddy container with its Caddyfile, and /etc/hosts.  A command is a     *)
(* sequence of steps; each may fail or be interrupted, and the user and    *)
(* other terminals act between them.                                       *)
(*                                                                         *)
(* A project publishes one service, whose alias on the proxy network is a  *)
(* function of the domain.  The initial state is that after `init`.        *)
(***************************************************************************)
EXTENDS ProjectRegistry, ManagedBlocks

CONSTANTS
    Manifest,        \* the .devherd.yml of each directory, or NoManifest
    NoManifest,
    BareDomain,      \* name.tld for each base name
    AliasOf,         \* aliasName(domainPrefix(domain), service)
    NoAlias,
    ServiceDomain,   \* service.tld: nothing keeps it from being a project's
    ServiceAlias,    \* its upstream
    Refused,         \* domains that are no ASCII host name
    UserLines,       \* what the user adds to the Caddyfile
    MaxEdits,        \* bound: edits of the user
    MaxCommands,     \* bound: commands started
    Off              \* Caddy does not run

ASSUME ProxyConstants ==
    /\ \A d \in Dirs : Manifest[d] # NoManifest =>
            Manifest[d] \in [files : SUBSET Feature, domain : Domains \cup {NoDomain},
                            published : BOOLEAN]
    /\ \A d \in Dirs : BareDomain[Name[d]] \in Domains
    /\ Domains \subseteq DOMAIN AliasOf
    /\ NoDomain \notin Domains
    /\ \A d \in Domains : AliasOf[d] # NoAlias
    /\ \A l \in UserLines : l.kind \in {"text", "site"}
    /\ MaxEdits \in Nat /\ MaxCommands \in Nat

VARIABLES
    container,  \* per project: its state and its alias on the proxy network
    override,   \* alias written in .devherd.proxy.override.yml, or NoAlias
    caddyfile,  \* lines of the Caddyfile
    caddy,      \* the routes Caddy serves, or Off
    hosts,      \* lines of /etc/hosts
    job,        \* per terminal, the command it runs
    edits,      \* edits so far
    started,    \* commands so far
    promised    \* history: the domain last reported as applied, while it lasts

proxyVars == <<container, override, caddyfile, caddy, hosts, job, edits,
               started, promised>>
vars == <<registryVars, proxyVars>>

Aliases == {AliasOf[d] : d \in Domains} \cup {NoAlias}

ProxyTypeOK ==
    /\ RegistryTypeOK
    /\ container \in [Dirs -> [state : {"absent", "running", "stopped"},
                               alias : Aliases]]
    /\ override \in [Dirs -> Aliases]
    /\ caddy = Off \/ \A r \in caddy : r.target \in
                        Aliases \cup {ServiceAlias} \cup {l.target : l \in UserLines}
    /\ promised \in [Dirs -> Domains \cup {NoDomain}]
    /\ \A t \in Terminals : job[t] = Idle \/ parking[t] = Idle

Template == <<Text("global options")>>

Absent == [state |-> "absent", alias |-> NoAlias]

ProxyInit ==
    /\ RegistryInit
    /\ container = [d \in Dirs |-> Absent]
    /\ override = [d \in Dirs |-> NoAlias]
    /\ caddyfile = Template
    /\ caddy = Off
    /\ hosts = <<HostsText("localhost")>>
    /\ job = [t \in Terminals |-> Idle]
    /\ edits = 0
    /\ started = 0
    /\ promised = [d \in Dirs |-> NoDomain]

-------------------------------------------------------------------------------
(***************************************************************************)
(* Resolving a project.                                                    *)
(***************************************************************************)
HasManifest(d) == d \in Existing /\ Manifest[d] # NoManifest

\* All the files it names must be there, and one at least must be named.
ResolveRelativeFiles(d) == Manifest[d].files # {} /\ Manifest[d].files \subseteq disk[d]

\* A manifest that fails is an error: the compose file it does not name is
\* not looked for.  "docker" stands for a compose file of any of the four
\* names.
HasCompose(d) ==
    d \in Existing /\ IF HasManifest(d) THEN ResolveRelativeFiles(d)
                                       ELSE "docker" \in disk[d]

FrameworkOf(d) ==
    IF At(d) = {} THEN Framework(Features(d))
    ELSE (CHOOSE q \in At(d) : TRUE).framework

\* The manifest wins over the registry, the registry over the name.
EffectiveDomain(d) ==
    IF HasManifest(d) /\ Manifest[d].domain # NoDomain THEN Manifest[d].domain
    ELSE IF At(d) # {} THEN CHOOSE domain \in DomainsOf(RowId(d)) : TRUE
    ELSE BareDomain[Name[d]]

\* BuildExternalProject succeeds: the manifest names a service and a port, or
\* the framework has two that are known.
Resolvable(d) ==
    /\ HasCompose(d)
    /\ \/ HasManifest(d) /\ Manifest[d].published
       \/ FrameworkOf(d) = "vue+flask"

\* Mutant: the upstream is the domain itself.
ExternalByDomain(d) == [path |-> d, domain |-> EffectiveDomain(d),
                        target |-> EffectiveDomain(d)]

External(d) == [path |-> d, domain |-> EffectiveDomain(d),
                target |-> AliasOf[EffectiveDomain(d)]]

\* In order of name.  The projects that cannot be resolved are skipped.
ResolveExternalProjects(rows) ==
    LET resolved == {q \in rows : Resolvable(q.path)}
        names == InOrder({q.name : q \in resolved})
    IN [n \in DOMAIN names |->
            External((CHOOSE q \in resolved : q.name = names[n]).path)]

CollectDomains == {r.domain : r \in domains}

-------------------------------------------------------------------------------
(***************************************************************************)
(* Containers.                                                             *)
(***************************************************************************)
Free(t) == job[t] = Idle /\ parking[t] = Idle

Begin == started < MaxCommands /\ started' = started + 1

\* The alias that `up` passes to Compose: without a route there is none.
PrepareComposeProject(d) == IF Resolvable(d) THEN External(d).target ELSE NoAlias

\* `up` writes the override before it starts the project; without a route
\* the project starts without it.  Compose recreates what changed.
Up(t, d) ==
    /\ Free(t) /\ Begin
    /\ HasCompose(d)
    /\ LET alias == PrepareComposeProject(d)
       IN /\ override' = [override EXCEPT ![d] =
                            IF Resolvable(d) THEN alias ELSE @]
          /\ \/ container' = [container EXCEPT ![d] =
                                [state |-> "running", alias |-> alias]]
             \/ container' = container
          /\ promised' = [promised EXCEPT ![d] =
                            IF container'[d].alias = container[d].alias
                            THEN @ ELSE NoDomain]
    /\ UNCHANGED <<registryVars, caddyfile, caddy, hosts, job, edits>>

\* `stop` and `down` do the same once more to what runs under the old name
\* of the project, the name of its directory.  DevHerd starts nothing under
\* that name: those containers are not in this state.
Stop(t, d) ==
    /\ Free(t) /\ Begin
    /\ HasCompose(d)
    /\ container[d].state = "running"
    /\ container' = [container EXCEPT ![d].state = "stopped"]
    /\ UNCHANGED <<registryVars, override, caddyfile, caddy, hosts, job, edits,
                   promised>>

\* The override goes even if the containers could not be removed, and the
\* block of the domain the project has now.
Down(t, d) ==
    /\ Free(t) /\ Begin
    /\ HasCompose(d)
    /\ container' \in {container, [container EXCEPT ![d] = Absent]}
    /\ override' = [override EXCEPT ![d] = NoAlias]
    /\ job' = [job EXCEPT ![t] =
         IF Resolvable(d)
         THEN [step |-> "merge", kind |-> "down", todo |-> <<>>,
               sites |-> <<External(d)>>, names |-> {}, content |-> <<>>]
         ELSE Idle]
    /\ promised' = [e \in Dirs |->
         IF e = d \/ (Resolvable(d) /\ promised[e] = EffectiveDomain(d))
         THEN NoDomain ELSE promised[e]]
    /\ UNCHANGED <<registryVars, caddyfile, caddy, hosts, edits>>

-------------------------------------------------------------------------------
(***************************************************************************)
(* `proxy apply`.                                                          *)
(***************************************************************************)

\* The registry is read once, for the sites and for /etc/hosts.
ApplyStart(t, rows) ==
    /\ Free(t) /\ Begin
    /\ LET sites == ResolveExternalProjects(rows)
       IN /\ sites # <<>>
          /\ job' = [job EXCEPT ![t] =
               [step |-> "connect", kind |-> "apply", todo |-> sites,
                sites |-> sites, names |-> CollectDomains, content |-> <<>>]]
    /\ UNCHANGED <<registryVars, container, override, caddyfile, caddy, hosts,
                   edits, promised>>

\* `ps -q` lists the containers that run; without one the project is skipped.
ComposeServiceContainer(c) == c.state = "running"

\* Docker leaves a container that is on the network already as it is.
Connected(c, alias) ==
    IF ComposeServiceContainer(c) /\ c.alias = NoAlias
    THEN [c EXCEPT !.alias = alias]
    ELSE c

ConnectProject(t) ==
    /\ job[t] # Idle /\ job[t].step = "connect" /\ job[t].todo # <<>>
    /\ LET p == Head(job[t].todo)
       IN /\ override' = [override EXCEPT ![p.path] = p.target]
          /\ container' = [container EXCEPT ![p.path] = Connected(@, p.target)]
    /\ job' = [job EXCEPT ![t].todo = Tail(@)]
    /\ UNCHANGED <<registryVars, caddyfile, caddy, hosts, edits, started, promised>>

\* Publishing a shared service shares the rest with `proxy apply`.  It takes
\* the domain from a project that has the same.
PublishSharedService(t) ==
    /\ Free(t) /\ Begin
    /\ job' = [job EXCEPT ![t] =
         [step |-> "connect", kind |-> "publish", todo |-> <<>>,
          sites |-> <<[domain |-> ServiceDomain, target |-> ServiceAlias]>>,
          names |-> {}, content |-> <<>>]]
    /\ promised' = [d \in Dirs |-> IF promised[d] = ServiceDomain THEN NoDomain
                                   ELSE promised[d]]
    /\ UNCHANGED <<registryVars, container, override, caddyfile, caddy, hosts, edits>>

-------------------------------------------------------------------------------
(***************************************************************************)
(* The Caddyfile: read, written back, validated and loaded.                *)
(***************************************************************************)
Doing(t, step) == job[t] # Idle /\ job[t].step = step

ReadCaddyfile(t) ==
    /\ \/ Doing(t, "connect") /\ job[t].todo = <<>>
       \/ Doing(t, "merge")
    /\ job' = [job EXCEPT ![t].step = "write", ![t].content =
         IF job[t].kind = "down"
         THEN StripManagedDomains(caddyfile, DomainsOfSites(job[t].sites))
         ELSE MergeExternalProxyConfig(caddyfile, job[t].sites)]
    /\ UNCHANGED <<registryVars, container, override, caddyfile, caddy, hosts,
                   edits, started, promised>>

WriteCaddyfile(t) ==
    /\ Doing(t, "write")
    /\ caddyfile' = job[t].content
    /\ job' = [job EXCEPT ![t].step = "reload", ![t].content = <<>>]
    /\ UNCHANGED <<registryVars, container, override, caddy, hosts, edits,
                   started, promised>>

\* What a Caddy that starts makes of the file.
Loaded(lines) == IF Ambiguous(lines) THEN Off ELSE Routes(lines)

\* `docker compose up -d`, `caddy validate` and `caddy reload`: a file Caddy
\* refuses ends the command and leaves a running Caddy as it is.
ReloadCaddy(t) ==
    /\ Doing(t, "reload")
    /\ IF Ambiguous(caddyfile)
       THEN /\ UNCHANGED caddy
            /\ job' = [job EXCEPT ![t] = Idle]
       ELSE /\ caddy' = Routes(caddyfile)
            /\ job' = [job EXCEPT ![t] =
                 IF job[t].kind = "apply" THEN [@ EXCEPT !.step = "hosts"]
                                          ELSE Idle]
    /\ UNCHANGED <<registryVars, container, override, caddyfile, hosts, edits,
                   started, promised>>

-------------------------------------------------------------------------------
(***************************************************************************)
(* /etc/hosts: read, merged, and copied back once sudo has a password.     *)
(***************************************************************************)
ReadHosts(t) ==
    /\ Doing(t, "hosts")
    /\ job' = [job EXCEPT ![t] =
         IF job[t].names \cap Refused # {} THEN Idle
         ELSE [@ EXCEPT !.step = "copy",
                        !.content = MergeManagedBlock(hosts, job[t].names)]]
    /\ UNCHANGED <<registryVars, container, override, caddyfile, caddy, hosts,
                   edits, started, promised>>

\* "proxy status: applied", of the projects whose domain is the registry's:
\* one that only the manifest names is published, and not written to
\* /etc/hosts.
Applied(t) ==
    {p \in ToSet(job[t].sites) :
        /\ container[p.path].state = "running"
        /\ container[p.path].alias = p.target
        /\ EffectiveDomain(p.path) = p.domain
        /\ p.domain \in job[t].names \cap DomainsOf(RowId(p.path))}

CopyHosts(t) ==
    /\ Doing(t, "copy")
    /\ hosts' = job[t].content
    /\ job' = [job EXCEPT ![t] = Idle]
    /\ promised' = [d \in Dirs |->
         IF \E p \in Applied(t) : p.path = d
         THEN (CHOOSE p \in Applied(t) : p.path = d).domain
         ELSE promised[d]]
    /\ UNCHANGED <<registryVars, container, override, caddyfile, caddy, edits,
                   started>>

\* A step fails, sudo is refused, or the user interrupts the command.
Dies(t) ==
    /\ job[t] # Idle
    /\ job' = [job EXCEPT ![t] = Idle]
    /\ UNCHANGED <<registryVars, container, override, caddyfile, caddy, hosts,
                   edits, started, promised>>

-------------------------------------------------------------------------------
(***************************************************************************)
(* Others.                                                                 *)
(***************************************************************************)

\* --force writes the template over the Caddyfile; without it the file that
\* exists stays.
EnsureManagedFile(force) == caddyfile' = IF force THEN Template ELSE caddyfile

\* `proxy bootstrap` writes and does not reload.
Bootstrap(t, force) ==
    /\ Free(t) /\ Begin
    /\ EnsureManagedFile(force)
    /\ promised' = IF force THEN [d \in Dirs |-> NoDomain] ELSE promised
    /\ UNCHANGED <<registryVars, container, override, caddy, hosts, job, edits>>

\* Docker restarts the container, with the host or after a crash.
CaddyRestarts ==
    /\ caddy # Off
    /\ caddy' = Loaded(caddyfile)
    /\ UNCHANGED <<registryVars, container, override, caddyfile, hosts, job,
                   edits, started, promised>>

\* The user adds a line of his own before everything or at the end.
Edit ==
    /\ edits < MaxEdits
    /\ edits' = edits + 1
    /\ \/ \E line \in UserLines :
            /\ caddyfile' \in {<<line>> \o caddyfile, Append(caddyfile, line)}
            /\ UNCHANGED hosts
       \/ /\ hosts' = Append(hosts, HostsText("own"))
          /\ UNCHANGED caddyfile
    /\ UNCHANGED <<registryVars, container, override, caddy, job, started,
                   promised>>

\* A registry command: its project's domain may be another afterwards.
Registry ==
    /\ RegistryNext
    /\ \A t \in Terminals : parking'[t] # Idle => job[t] = Idle
    /\ IF \A t \in Terminals : parking[t] # Idle => parking'[t] = parking[t]
       THEN Begin
       ELSE UNCHANGED started
    /\ promised' = [d \in Dirs |->
         IF \A q \in At(d) : /\ \E r \in projects' : r.id = q.id
                             /\ DomainsOf(q.id)' = DomainsOf(q.id)
         THEN promised[d] ELSE NoDomain]
    /\ UNCHANGED <<container, override, caddyfile, caddy, hosts, job, edits>>

Command(t) ==
    \/ \E d \in Dirs : Up(t, d) \/ Stop(t, d) \/ Down(t, d)
    \/ \E rows \in {projects} \cup {{q} : q \in projects} : ApplyStart(t, rows)
    \/ PublishSharedService(t)
    \/ \E force \in BOOLEAN : Bootstrap(t, force)

Step(t) ==
    \/ ConnectProject(t) \/ ReadCaddyfile(t) \/ WriteCaddyfile(t)
    \/ ReloadCaddy(t) \/ ReadHosts(t) \/ CopyHosts(t) \/ Dies(t)

Next ==
    \/ Registry
    \/ \E t \in Terminals : Command(t) \/ Step(t)
    \/ CaddyRestarts
    \/ Edit

Spec == ProxyInit /\ [][Next]_vars

-------------------------------------------------------------------------------
(***************************************************************************)
(* Properties.                                                             *)
(***************************************************************************)

\* What "proxy status: applied" said of a project that ran holds until the
\* project itself changes or a shared service is published on its domain:
\* while Caddy serves, the name resolves and its route ends at an alias the
\* project's container has, whatever is applied, published on other domains,
\* stopped or interrupted for others and however often Caddy restarts.
PromiseKept ==
    \A d \in Dirs :
        promised[d] # NoDomain /\ container[d].state = "running" /\ caddy # Off
        => /\ [domain |-> promised[d], target |-> container[d].alias] \in caddy
           /\ promised[d] \in NamesIn(hosts)

\* The user's own lines survive: whatever a command writes back holds all it
\* read of them, in the Caddyfile and in /etc/hosts, except the user's own
\* site for a domain the command publishes or withdraws.
UserLinesSurvive ==
    [][\A t \in Terminals :
        /\ ReadCaddyfile(t) =>
            {l \in UserLines \cap ToSet(caddyfile) :
                l.domain \notin DomainsOfSites(job[t].sites)}
                \subseteq ToSet(job'[t].content)
        /\ ReadHosts(t) /\ Doing(t, "copy")' =>
            {l \in ToSet(hosts) : l.kind = "text"} \subseteq ToSet(job'[t].content)
    ]_vars
===============================================================================
