------------------------------ MODULE ServiceFiles ------------------------------
(***************************************************************************)
(* Shared services: `devherd service start|stop`, the configuration files  *)
(* they write beside the compose file, the `.env` that user and DevHerd    *)
(* share, and what Docker Compose makes of them.  A start reads a file,    *)
(* and writes it and its copy in later steps: nothing locks them, so other *)
(* starts and the user act in between.  A write is one step.  The domain a *)
(* service gets is a step of ExternalProxy, and the answers of `service    *)
(* status` and the warnings are left out: they only read.                  *)
(***************************************************************************)
EXTENDS Integers, SequencesExt

CONSTANTS
    Terminals,     \* each runs one command at a time
    Services,      \* of the catalogue redis, mailpit, prometheus, grafana, jupyter
    GrafanaFiles,  \* its provisioning files, in order of path
    Gateways,      \* addresses Docker may give the gateway of infra_net
    MaxCommands,   \* bound: commands started
    MaxChanges,    \* bound: acts of the user
    Idle,
    Absent,        \* no such file, container or .env
    NoGateway      \* infra_net does not exist

ASSUME ServiceConstants ==
    /\ Services \subseteq {"redis", "mailpit", "prometheus", "grafana", "jupyter"}
    /\ "slack" \in ToSet(GrafanaFiles) /\ ".env" \notin ToSet(GrafanaFiles)
    /\ Gateways \subseteq Nat \ {0}
    /\ MaxCommands \in Nat /\ MaxChanges \in Nat

VARIABLES
    stack,      \* the compose file has been written
    file,       \* content of each configuration file
    backup,     \* content of its .bak
    env,        \* .env: the token of Jupyter, and whether a webhook is set
    network,    \* gateway of infra_net
    container,  \* of each service: its state and its token
    job,        \* per terminal, the start it runs
    commands,   \* commands so far
    changes,    \* acts of the user so far
    edited,     \* history: what the user last saved in each file, unless a
                \*   start had the file in hand
    backups,    \* history: backups taken since then
    envEdited,  \* history: the user touched the token since Jupyter last started
    raced       \* history: a start missed a .env another one was to write

files == <<file, backup, edited, backups>>
dotenv == <<env, envEdited, raced>>
vars == <<stack, files, dotenv, network, container, job, commands, changes>>

Files == ToSet(GrafanaFiles) \cup {"prometheus.yml"}

\* A template holds the address of the collector, if anything that varies.
Content == [by : {"devherd", "user"}, what : Nat]
NoToken == 0
Env == [token : Nat, webhook : BOOLEAN]
Container == [state : {"running", "stopped"}, token : Nat]

ASSUME AbsentIsNoFile == Absent \notin Env \cup Content

ServiceTypeOK ==
    /\ stack \in BOOLEAN
    /\ \A f \in Files : /\ file[f] = Absent \/ file[f] \in Content
                        /\ backup[f] = Absent \/ backup[f] \in Content
    /\ env = Absent \/ env \in Env
    /\ network \in Gateways \cup {NoGateway}
    /\ \A s \in Services : container[s] = Absent \/ container[s] \in Container
    /\ \A s \in Services : container[s] # Absent => stack /\ network # NoGateway

Init ==
    /\ stack = FALSE
    /\ file = [f \in Files |-> Absent]
    /\ backup = [f \in Files |-> Absent]
    /\ env = Absent
    /\ network = NoGateway
    /\ container = [s \in Services |-> Absent]
    /\ job = [t \in Terminals |-> Idle]
    /\ commands = 0
    /\ changes = 0
    /\ edited = [f \in Files |-> Absent]
    /\ backups = [f \in Files |-> 0]
    /\ envEdited = FALSE
    /\ raced = FALSE

-------------------------------------------------------------------------------
(***************************************************************************)
(* What a service declares.                                                *)
(***************************************************************************)
SlackConfigured == env # Absent /\ env.webhook

\* The contact point of Slack is declared with a webhook alone.
DeclaredFiles(service) ==
    CASE service = "prometheus" -> <<"prometheus.yml">>
      [] service = "grafana" ->
           SelectSeq(GrafanaFiles, LAMBDA f : f = "slack" => SlackConfigured)
      [] service = "jupyter" -> <<".env">>
      [] OTHER -> <<>>

\* Mutant: nothing stands in for the gateway.
CollectorAddrBare == network

\* Without the network there is no gateway: some address of the host.
CollectorAddr == IF network = NoGateway THEN 0 ELSE network

Template(f, addr) ==
    [by |-> "devherd", what |-> IF f = "prometheus.yml" THEN addr ELSE 0]

-------------------------------------------------------------------------------
(***************************************************************************)
(* Docker Compose.                                                         *)
(***************************************************************************)

\* Compose resolves ${JUPYTER_TOKEN:?...} whatever service it is asked for.
ComposeLoads == stack /\ env # Absent /\ env.token # NoToken

\* `up -d` creates the container, or leaves one that runs with this environment.
ComposeUp(service) ==
    [state |-> "running",
     token |-> IF service = "jupyter" THEN env.token ELSE NoToken]

-------------------------------------------------------------------------------
(***************************************************************************)
(* The commands.                                                           *)
(***************************************************************************)
Begin(t) ==
    /\ job[t] = Idle
    /\ commands < MaxCommands
    /\ commands' = commands + 1

\* The compose file is rewritten by every start and stop.
Bootstrap == stack' = TRUE

\* The token is generated whether or not it will be written: the number of the
\* command stands for it.
Start(t, service, force) ==
    /\ Begin(t)
    /\ Bootstrap
    /\ job' = [job EXCEPT ![t] =
         [service |-> service, force |-> force, addr |-> CollectorAddr,
          token |-> commands', todo |-> DeclaredFiles(service),
          step |-> "files", seen |-> Absent]]
    /\ UNCHANGED <<files, dotenv, network, container, changes>>

Stop(t, service) ==
    /\ Begin(t)
    /\ Bootstrap
    /\ container' = [container EXCEPT ![service] =
         IF container[service] # Absent /\ ComposeLoads
         THEN [@ EXCEPT !.state = "stopped"] ELSE @]
    /\ UNCHANGED <<files, dotenv, network, job, changes>>

At(t, step) == job[t] # Idle /\ job[t].step = step

Current(t) == Head(job[t].todo)

\* Some start is between reading the file and writing it.
InHand(f) ==
    \E t \in Terminals : /\ \E step \in {"create", "copy", "restore"} : At(t, step)
                         /\ Current(t) = f

Goto(t, step, seen) ==
    job' = [job EXCEPT ![t].step = step, ![t].seen = seen]

FileDone(t) ==
    job' = [job EXCEPT ![t].todo = Tail(@), ![t].step = "files"]

\* Mutant: a start with --force does not look for .env.
FoundForced(t) ==
    IF Current(t) # ".env" THEN file[Current(t)]
    ELSE IF job[t].force THEN Absent ELSE env

Found(t) == IF Current(t) = ".env" THEN env ELSE file[Current(t)]

Wanted(t) == Template(Current(t), job[t].addr)

\* .env is generated once: to exist is enough.
ReadFile(t) ==
    /\ At(t, "files") /\ job[t].todo # <<>>
    /\ \/ Found(t) = Absent /\ Goto(t, "create", Absent)
       \/ /\ Found(t) # Absent
          /\ Current(t) = ".env" \/ Found(t) = Wanted(t) \/ ~job[t].force
          /\ FileDone(t)
       \/ /\ Current(t) # ".env"
          /\ Found(t) \notin {Absent, Wanted(t)} /\ job[t].force
          /\ Goto(t, "copy", Found(t))
    /\ raced' = (raced \/ (Current(t) = ".env" /\ env = Absent /\ InHand(".env")))
    /\ UNCHANGED <<stack, files, env, envEdited, network, container, commands,
                   changes>>

\* Writes over whatever has come there since it looked.
CreateFile(t) ==
    /\ At(t, "create")
    /\ IF Current(t) = ".env"
       THEN /\ env' = [token |-> job[t].token, webhook |-> FALSE]
            /\ UNCHANGED file
       ELSE /\ file' = [file EXCEPT ![Current(t)] = Wanted(t)]
            /\ UNCHANGED env
    /\ FileDone(t)
    /\ UNCHANGED <<stack, backup, edited, backups, envEdited, raced, network,
                   container, commands, changes>>

TakeBackup(f, content) ==
    /\ backup' = [backup EXCEPT ![f] = content]
    /\ backups' = [backups EXCEPT ![f] = @ + 1]

\* Mutant: the file is restored first, and the copy taken of the outcome.
CopyFileLate(t) ==
    /\ At(t, "copy")
    /\ file' = [file EXCEPT ![Current(t)] = Wanted(t)]
    /\ TakeBackup(Current(t), Wanted(t))
    /\ FileDone(t)
    /\ UNCHANGED <<stack, edited, dotenv, network, container, commands, changes>>

\* The copy is of what was read, whatever the file holds by now.
CopyFile(t) ==
    /\ At(t, "copy")
    /\ TakeBackup(Current(t), job[t].seen)
    /\ Goto(t, "restore", Absent)
    /\ UNCHANGED <<stack, file, edited, dotenv, network, container, commands,
                   changes>>

RestoreFile(t) ==
    /\ At(t, "restore")
    /\ file' = [file EXCEPT ![Current(t)] = Wanted(t)]
    /\ FileDone(t)
    /\ UNCHANGED <<stack, backup, edited, backups, dotenv, network, container,
                   commands, changes>>

EnsureNetwork(t) ==
    /\ At(t, "files") /\ job[t].todo = <<>>
    /\ IF network = NoGateway THEN network' \in Gateways ELSE UNCHANGED network
    /\ job' = [job EXCEPT ![t].step = "up"]
    /\ UNCHANGED <<stack, files, dotenv, container, commands, changes>>

\* Compose also fails when the network went away in between.
Up(t) ==
    /\ At(t, "up")
    /\ LET service == job[t].service
           starts == ComposeLoads /\ network # NoGateway
           fresh == starts /\ service = "jupyter"
       IN /\ container' = [container EXCEPT ![service] =
               IF starts THEN ComposeUp(service) ELSE @]
          /\ envEdited' = (envEdited /\ ~fresh)
          /\ raced' = (raced /\ (fresh => InHand(".env")))
    /\ job' = [job EXCEPT ![t] = Idle]
    /\ UNCHANGED <<stack, files, env, network, commands, changes>>

\* A write or a call to Docker fails, or the user interrupts the command.
Dies(t) ==
    /\ job[t] # Idle
    /\ job' = [job EXCEPT ![t] = Idle]
    /\ UNCHANGED <<stack, files, dotenv, network, container, commands, changes>>

\* The token in the address `service start jupyter` prints, none if there is
\* no .env or no such line in it.
AccessToken == IF env = Absent THEN NoToken ELSE env.token

-------------------------------------------------------------------------------
(***************************************************************************)
(* The user.                                                               *)
(***************************************************************************)
Change ==
    /\ changes < MaxChanges
    /\ changes' = changes + 1
    /\ UNCHANGED <<stack, job, commands>>

Save(f) ==
    /\ Change
    /\ LET version == [by |-> "user", what |-> changes']
       IN /\ file' = [file EXCEPT ![f] = version]
          /\ edited' = [edited EXCEPT ![f] = IF InHand(f) THEN Absent ELSE version]
    /\ backups' = [backups EXCEPT ![f] = 0]
    /\ UNCHANGED <<backup, dotenv, network, container>>

\* `echo DEVHERD_SLACK_WEBHOOK=... >> .env` creates the file if need be.
SetWebhook(on) ==
    /\ Change
    /\ env' = IF env = Absent THEN [token |-> NoToken, webhook |-> on]
              ELSE [env EXCEPT !.webhook = on]
    /\ UNCHANGED <<files, envEdited, raced, network, container>>

DeleteEnv ==
    /\ Change
    /\ env # Absent
    /\ env' = Absent
    /\ envEdited' = TRUE
    /\ UNCHANGED <<files, raced, network, container>>

\* `docker compose down` and `docker network rm`, outside DevHerd.
RemoveNetwork ==
    /\ Change
    /\ network # NoGateway
    /\ network' = NoGateway
    /\ container' = [s \in Services |-> Absent]
    /\ UNCHANGED <<files, dotenv>>

User ==
    \/ \E f \in Files : Save(f)
    \/ \E on \in BOOLEAN : SetWebhook(on)
    \/ DeleteEnv
    \/ RemoveNetwork

Next ==
    \/ \E t \in Terminals, s \in Services :
        Stop(t, s) \/ \E force \in BOOLEAN : Start(t, s, force)
    \/ \E t \in Terminals :
        \/ ReadFile(t) \/ CreateFile(t) \/ CopyFile(t) \/ RestoreFile(t)
        \/ EnsureNetwork(t) \/ Up(t) \/ Dies(t)
    \/ User

Spec == Init /\ [][Next]_vars

-------------------------------------------------------------------------------
(***************************************************************************)
(* Properties.                                                             *)
(***************************************************************************)

\* What the user last saved in a file is in it or in its copy, however many
\* starts ran since, until two of them with --force took a copy: the second
\* one replaces the first.  Only what was saved while some start stood between
\* reading that file and writing it can be lost: the code does not look again.
EditRecoverable ==
    \A f \in Files :
        edited[f] # Absent /\ backups[f] <= 1 => edited[f] \in {file[f], backup[f]}

\* A restart does not invalidate the tab that is open: the token in .env,
\* which the command prints, is the one Jupyter was started with, as long as
\* the user leaves it alone and no two first starts overlapped since: both
\* find no .env, and the last one to write it may have come after Jupyter.
JupyterTokenAgrees ==
    container["jupyter"] # Absent /\ ~envEdited /\ ~raced =>
        AccessToken # NoToken /\ AccessToken = container["jupyter"].token
===============================================================================
