------------------------- MODULE ServiceFilesProofs -------------------------
(***************************************************************************)
(* For any number of terminals, files, commands and changes: what the user *)
(* saved while no start had the file in hand can be found again after a    *)
(* start with --force, and the token of Jupyter survives every restart     *)
(* once the first start is over.                                           *)
(***************************************************************************)
EXTENDS ServiceFiles, TLAPS

-------------------------------------------------------------------------------
(***************************************************************************)
(* Types.  A start carries what it has read, the address it will write and *)
(* the token it generated: they belong to the invariant.                   *)
(***************************************************************************)
Job(j) == /\ DOMAIN j = {"service", "force", "addr", "token", "todo", "step", "seen"}
          /\ j.addr \in Nat /\ j.token \in Nat
          /\ j.step = "copy" /\ Head(j.todo) \in Files => j.seen \in Content

FileTypes ==
    /\ DOMAIN file = Files /\ DOMAIN backup = Files
    /\ \A f \in Files : /\ file[f] = Absent \/ file[f] \in Content
                        /\ backup[f] = Absent \/ backup[f] \in Content

JobTypes ==
    /\ DOMAIN job = Terminals
    /\ \A t \in Terminals : job[t] = Idle \/ Job(job[t])

ContainerTypes ==
    /\ DOMAIN container = Services
    /\ \A s \in Services : container[s] = Absent \/ container[s] \in Container
    /\ \A s \in Services : container[s] # Absent => stack /\ network # NoGateway

HostTypes ==
    /\ stack \in BOOLEAN /\ commands \in Nat /\ changes \in Nat
    /\ env = Absent \/ env \in Env
    /\ network \in Gateways \cup {NoGateway}

ServiceInv == FileTypes /\ JobTypes /\ ContainerTypes /\ HostTypes

LEMMA ServiceInvTypes == ServiceInv => ServiceTypeOK
BY DEF ServiceInv, FileTypes, ContainerTypes, HostTypes, ServiceTypeOK

\* What a template holds is the address of the collector or nothing.
LEMMA WantedType ==
    ASSUME NEW t, job[t].addr \in Nat
    PROVE  Wanted(t) \in Content
BY DEF Wanted, Template, Content

\* A step of a command that leaves a well formed job, or none.
LEMMA OneJob ==
    ASSUME JobTypes, NEW t \in Terminals, NEW now,
           job' = [job EXCEPT ![t] = now], now = Idle \/ Job(now)
    PROVE  JobTypes'
<1>1. /\ DOMAIN job' = Terminals
      /\ \A u \in Terminals : job'[u] = IF u = t THEN now ELSE job[u]
    BY DEF JobTypes
<1>2. QED  BY <1>1, Zenon DEF JobTypes

LEMMA FileDoneTypes ==
    ASSUME JobTypes, NEW t \in Terminals, job[t] # Idle, FileDone(t)
    PROVE  JobTypes'
<1> DEFINE rest == Tail(job[t].todo)
           now == [job[t] EXCEPT !.todo = rest, !.step = "files"]
<1>1. Job(job[t])
    BY DEF JobTypes
<1>2. job' = [job EXCEPT ![t] = now]
    BY DEF FileDone, JobTypes
<1> HIDE DEF rest
<1>3. /\ DOMAIN now = DOMAIN job[t] /\ now.step = "files"
      /\ now.addr = job[t].addr /\ now.token = job[t].token
    BY <1>1 DEF Job
<1>4. Job(now)
    BY <1>1, <1>3 DEF Job
<1>5. QED  BY <1>2, <1>4, OneJob

LEMMA GotoTypes ==
    ASSUME JobTypes, NEW t \in Terminals, job[t] # Idle, NEW step, NEW seen,
           Goto(t, step, seen),
           step = "copy" /\ Current(t) \in Files => seen \in Content
    PROVE  JobTypes'
<1> DEFINE now == [job[t] EXCEPT !.step = step, !.seen = seen]
<1>1. Job(job[t])
    BY DEF JobTypes
<1>2. job' = [job EXCEPT ![t] = now]
    BY DEF Goto, JobTypes
<1>3. /\ DOMAIN now = DOMAIN job[t] /\ now.step = step /\ now.seen = seen
      /\ now.addr = job[t].addr /\ now.token = job[t].token
      /\ now.todo = job[t].todo
    BY <1>1 DEF Job
<1>4. Job(now)
    BY <1>1, <1>3 DEF Job, Current
<1>5. QED  BY <1>2, <1>4, OneJob

\* A step that ends a command leaves no job.
LEMMA IdleTypes ==
    ASSUME JobTypes, NEW t \in Terminals, job' = [job EXCEPT ![t] = Idle]
    PROVE  JobTypes'
BY OneJob

\* What a start has read of a configuration file is its content.
LEMMA ReadTypes ==
    ASSUME ServiceInv, NEW t \in Terminals, ReadFile(t)
    PROVE  ServiceInv'
<1>1. /\ UNCHANGED <<stack, file, backup, env, network, container, commands, changes>>
      /\ job[t] # Idle
    BY DEF ReadFile, At, files
<1>2. JobTypes'
    <2>1. CASE FileDone(t)
        BY <1>1, <2>1, FileDoneTypes DEF ServiceInv
    <2>2. CASE Goto(t, "create", Absent)
        BY <1>1, <2>2, GotoTypes DEF ServiceInv
    <2>3. CASE /\ Goto(t, "copy", Found(t)) /\ Current(t) # ".env"
               /\ Found(t) # Absent
        <3>1. Current(t) \in Files => Found(t) \in Content
            BY <2>3 DEF Found, ServiceInv, FileTypes
        <3>2. QED  BY <1>1, <2>3, <3>1, GotoTypes DEF ServiceInv
    <2>4. QED  BY <2>1, <2>2, <2>3, Zenon DEF ReadFile
<1>3. FileTypes' /\ HostTypes'
    BY <1>1 DEF ServiceInv, FileTypes, HostTypes
<1>4. ContainerTypes'
    BY <1>1 DEF ServiceInv, ContainerTypes
<1>5. QED  BY <1>2, <1>3, <1>4 DEF ServiceInv

\* A file is written with its template, or .env with the token of the start.
LEMMA WriteTypes ==
    ASSUME ServiceInv, NEW t \in Terminals, CreateFile(t) \/ RestoreFile(t)
    PROVE  ServiceInv'
<1>1. /\ UNCHANGED <<stack, backup, network, container, commands, changes>>
      /\ job[t] # Idle /\ FileDone(t)
    BY DEF CreateFile, RestoreFile, At
<1>2. JobTypes'
    BY <1>1, FileDoneTypes DEF ServiceInv
<1>3. Job(job[t])
    BY <1>1 DEF ServiceInv, JobTypes
<1>4. FileTypes'
    <2>1. Wanted(t) \in Content
        BY <1>3, WantedType DEF Job
    <2>2. file' = file \/ file' = [file EXCEPT ![Current(t)] = Wanted(t)]
        BY DEF CreateFile, RestoreFile
    <2>3. QED  BY <1>1, <2>1, <2>2 DEF ServiceInv, FileTypes
<1>5. HostTypes'
    <2>1. env' = env \/ env' = [token |-> job[t].token, webhook |-> FALSE]
        BY DEF CreateFile, RestoreFile, dotenv
    <2>2. [token |-> job[t].token, webhook |-> FALSE] \in Env
        BY <1>3 DEF Job, Env
    <2>3. env' = Absent \/ env' \in Env
        BY <2>1, <2>2, Zenon DEF ServiceInv, HostTypes
    <2>4. QED  BY <1>1, <2>3 DEF ServiceInv, HostTypes
<1>6. ContainerTypes'
    BY <1>1 DEF ServiceInv, ContainerTypes
<1>7. QED  BY <1>2, <1>4, <1>5, <1>6 DEF ServiceInv

LEMMA CopyTypes ==
    ASSUME ServiceInv, NEW t \in Terminals, CopyFile(t)
    PROVE  ServiceInv'
<1>1. /\ UNCHANGED <<stack, file, env, network, container, commands, changes>>
      /\ job[t] # Idle /\ job[t].step = "copy" /\ Goto(t, "restore", Absent)
      /\ backup' = [backup EXCEPT ![Current(t)] = job[t].seen]
    BY DEF CopyFile, At, TakeBackup, dotenv
<1>2. JobTypes'
    BY <1>1, GotoTypes DEF ServiceInv
<1>3. FileTypes'
    <2>1. Current(t) \in Files => job[t].seen \in Content
        BY <1>1 DEF ServiceInv, JobTypes, Job, Current
    <2>2. QED  BY <1>1, <2>1 DEF ServiceInv, FileTypes
<1>4. HostTypes'
    BY <1>1 DEF ServiceInv, HostTypes
<1>5. ContainerTypes'
    BY <1>1 DEF ServiceInv, ContainerTypes
<1>6. QED  BY <1>2, <1>3, <1>4, <1>5 DEF ServiceInv

\* Compose starts nothing without a .env that has a token.
LEMMA ComposeUpType ==
    ASSUME ServiceInv, ComposeLoads, NEW s
    PROVE  ComposeUp(s) \in Container
<1>1. env \in Env
    BY DEF ComposeLoads, ServiceInv, HostTypes
<1>2. QED  BY <1>1 DEF ComposeUp, Container, Env, NoToken

LEMMA UpTypes ==
    ASSUME ServiceInv, NEW t \in Terminals, Up(t)
    PROVE  ServiceInv'
<1> DEFINE service == job[t].service
           starts == ComposeLoads /\ network # NoGateway
<1>1. /\ container' = [container EXCEPT ![service] =
                          IF starts THEN ComposeUp(service) ELSE @]
      /\ job' = [job EXCEPT ![t] = Idle]
      /\ UNCHANGED <<stack, file, backup, env, network, commands, changes>>
    BY DEF Up, files
<1>2. ContainerTypes'
    <2>1. DOMAIN container' = Services
        BY <1>1 DEF ServiceInv, ContainerTypes
    <2>2. ASSUME NEW s \in Services
          PROVE  \/ container'[s] = container[s]
                 \/ starts /\ container'[s] \in Container
        <3>1. \/ container'[s] = container[s]
              \/ starts /\ container'[s] = ComposeUp(s)
            BY <1>1 DEF ServiceInv, ContainerTypes
        <3>2. starts => ComposeUp(s) \in Container
            BY ComposeUpType
        <3>3. QED  BY <3>1, <3>2, Zenon
    <2>3. starts => stack /\ network # NoGateway
        BY DEF ComposeLoads
    <2>4. QED  BY <1>1, <2>1, <2>2, <2>3 DEF ServiceInv, ContainerTypes
<1>3. FileTypes' /\ HostTypes'
    BY <1>1 DEF ServiceInv, FileTypes, HostTypes
<1>4. JobTypes'
    BY <1>1, IdleTypes DEF ServiceInv
<1>5. QED  BY <1>2, <1>3, <1>4 DEF ServiceInv

\* Stopping keeps the token of the container.
LEMMA StopTypes ==
    ASSUME ServiceInv, NEW t \in Terminals, NEW s \in Services, Stop(t, s)
    PROVE  ServiceInv'
<1>1. /\ container' = [container EXCEPT ![s] =
             IF container[s] # Absent /\ ComposeLoads
             THEN [@ EXCEPT !.state = "stopped"] ELSE @]
      /\ stack' = TRUE /\ commands' \in Nat
      /\ UNCHANGED <<file, backup, env, network, job, changes>>
    BY DEF Stop, Begin, Bootstrap, files, dotenv, ServiceInv, HostTypes
<1>2. ASSUME NEW r \in Services, container[r] # Absent
      PROVE  [container[r] EXCEPT !.state = "stopped"] \in Container
    BY <1>2 DEF ServiceInv, ContainerTypes, Container
<1>3. ContainerTypes'
    <2>1. DOMAIN container' = Services
        BY <1>1 DEF ServiceInv, ContainerTypes
    <2>2. \A r \in Services \ {s} : container'[r] = container[r]
        BY <1>1 DEF ServiceInv, ContainerTypes
    <2>3. \/ container'[s] = container[s]
          \/ container[s] # Absent /\ container'[s] \in Container
        BY <1>1, <1>2 DEF ServiceInv, ContainerTypes
    <2>4. QED  BY <1>1, <2>1, <2>2, <2>3 DEF ServiceInv, ContainerTypes
<1>4. FileTypes' /\ HostTypes'
    BY <1>1 DEF ServiceInv, FileTypes, HostTypes
<1>5. JobTypes'
    BY <1>1 DEF ServiceInv, JobTypes, Job
<1>6. QED  BY <1>3, <1>4, <1>5 DEF ServiceInv

LEMMA StartTypes ==
    ASSUME ServiceInv, NEW t \in Terminals, NEW s, NEW force, Start(t, s, force)
    PROVE  ServiceInv'
<1>1. /\ stack' = TRUE /\ commands' \in Nat
      /\ UNCHANGED <<file, backup, env, network, container, changes>>
    BY DEF Start, Begin, Bootstrap, files, dotenv, ServiceInv, HostTypes
<1>2. JobTypes'
    <2> DEFINE j == [service |-> s, force |-> force, addr |-> CollectorAddr,
                     token |-> commands', todo |-> DeclaredFiles(s),
                     step |-> "files", seen |-> Absent]
    <2>1. CollectorAddr \in Nat
        BY ServiceConstants DEF CollectorAddr, ServiceInv, HostTypes
    <2>2. job' = [job EXCEPT ![t] = j]
        BY DEF Start
    <2>3. Job(j)
        BY <1>1, <2>1 DEF Job
    <2>4. QED  BY <2>2, <2>3, OneJob DEF ServiceInv
<1>3. FileTypes' /\ HostTypes'
    BY <1>1 DEF ServiceInv, FileTypes, HostTypes
<1>4. ContainerTypes'
    BY <1>1 DEF ServiceInv, ContainerTypes
<1>5. QED  BY <1>2, <1>3, <1>4 DEF ServiceInv

\* The network comes back, or a command ends, with no container touched.
LEMMA NetworkTypes ==
    ASSUME ServiceInv, NEW t \in Terminals, EnsureNetwork(t) \/ Dies(t)
    PROVE  ServiceInv'
<1>1. UNCHANGED <<stack, file, backup, env, container, commands, changes>>
    BY DEF EnsureNetwork, Dies, files, dotenv
<1>2. network' = network \/ (network = NoGateway /\ network' \in Gateways)
    BY DEF EnsureNetwork, Dies
<1>3. JobTypes'
    <2>1. CASE Dies(t)
        BY <2>1, IdleTypes DEF Dies, ServiceInv
    <2>2. CASE EnsureNetwork(t)
        <3> DEFINE now == [job[t] EXCEPT !.step = "up"]
        <3>1. Job(job[t]) /\ job' = [job EXCEPT ![t] = now]
            BY <2>2 DEF EnsureNetwork, At, ServiceInv, JobTypes
        <3>2. /\ DOMAIN now = DOMAIN job[t] /\ now.step = "up"
              /\ now.addr = job[t].addr /\ now.token = job[t].token
            BY <3>1 DEF Job
        <3>3. Job(now)
            BY <3>1, <3>2 DEF Job
        <3>4. QED  BY <3>1, <3>3, OneJob DEF ServiceInv
    <2>3. QED  BY <2>1, <2>2
<1>4. FileTypes' /\ HostTypes'
    BY <1>1, <1>2 DEF ServiceInv, FileTypes, HostTypes
<1>5. ContainerTypes'
    BY <1>1, <1>2 DEF ServiceInv, ContainerTypes
<1>6. QED  BY <1>3, <1>4, <1>5 DEF ServiceInv

LEMMA UserTypes ==
    ASSUME ServiceInv, User
    PROVE  ServiceInv'
<1>1. UNCHANGED <<stack, job, commands>> /\ changes' \in Nat
    BY DEF User, Save, SetWebhook, DeleteEnv, RemoveNetwork, Change,
           ServiceInv, HostTypes
<1>2. JobTypes'
    BY <1>1 DEF ServiceInv, JobTypes, Job
<1>3. FileTypes'
    <2>1. ASSUME NEW f \in Files, Save(f) PROVE FileTypes'
        <3>1. PICK version \in Content :
                file' = [file EXCEPT ![f] = version] /\ backup' = backup
            BY <1>1, <2>1 DEF Save, Content
        <3>2. QED  BY <3>1 DEF ServiceInv, FileTypes
    <2>2. CASE UNCHANGED files
        BY <2>2 DEF files, ServiceInv, FileTypes
    <2>3. QED
        BY <2>1, <2>2 DEF User, SetWebhook, DeleteEnv, RemoveNetwork
<1>4. HostTypes'
    <2>1. env' = Absent \/ env' \in Env
        BY DEF User, Save, SetWebhook, DeleteEnv, RemoveNetwork, dotenv,
               ServiceInv, HostTypes, Env, NoToken
    <2>2. network' = network \/ network' = NoGateway
        BY DEF User, Save, SetWebhook, DeleteEnv, RemoveNetwork
    <2>3. QED  BY <1>1, <2>1, <2>2 DEF ServiceInv, HostTypes
<1>5. ContainerTypes'
    <2>1. \/ UNCHANGED <<container, network>>
          \/ container' = [s \in Services |-> Absent]
        BY DEF User, Save, SetWebhook, DeleteEnv, RemoveNetwork
    <2>2. QED  BY <1>1, <2>1 DEF ServiceInv, ContainerTypes
<1>6. QED  BY <1>2, <1>3, <1>4, <1>5 DEF ServiceInv

LEMMA ServiceInvStep == ServiceInv /\ [Next]_vars => ServiceInv'
<1> SUFFICES ASSUME ServiceInv, [Next]_vars PROVE ServiceInv'
    OBVIOUS
<1>1. CASE Next
    BY <1>1, ReadTypes, WriteTypes, CopyTypes, UpTypes, StopTypes, StartTypes,
       NetworkTypes, UserTypes, Zenon DEF Next
<1>2. CASE UNCHANGED vars
    BY <1>2 DEF vars, files, dotenv, ServiceInv, FileTypes, JobTypes, Job,
                ContainerTypes, HostTypes
<1>3. QED  BY <1>1, <1>2

LEMMA ServiceInvInit == Init => ServiceInv
<1> SUFFICES ASSUME Init PROVE ServiceInv
    OBVIOUS
<1> USE DEF Init
<1>1. FileTypes
    BY DEF FileTypes
<1>2. JobTypes
    BY DEF JobTypes
<1>3. ContainerTypes
    BY DEF ContainerTypes
<1>4. HostTypes
    BY DEF HostTypes
<1>5. QED  BY <1>1, <1>2, <1>3, <1>4 DEF ServiceInv

\* The state of the shared services is well formed, and none has a container
\* without the compose file and infra_net (Manager.Start and Manager.Stop).
THEOREM ServicesTyped == Spec => []ServiceTypeOK
BY ServiceInvInit, ServiceInvStep, ServiceInvTypes, PTL DEF Spec

-------------------------------------------------------------------------------
(***************************************************************************)
(* What starts have in hand.                                               *)
(***************************************************************************)
Holds(t, step, f) == At(t, step) /\ Current(t) = f

LEMMA EnvIsNoFile == ".env" \notin Files
BY ServiceConstants DEF Files

Released(t) ==
    \A f : \A step \in {"create", "copy", "restore"} : ~Holds(t, step, f)

\* What t has in hand after a step it had before it.
SameHands(t) ==
    \A f : \A step \in {"create", "copy", "restore"} :
        Holds(t, step, f)' => Holds(t, step, f) /\ job'[t].seen = job[t].seen

LEMMA FileDoneReleases ==
    ASSUME JobTypes, NEW t \in Terminals, job[t] # Idle, FileDone(t)
    PROVE  Released(t)' /\ \A u \in Terminals \ {t} : job'[u] = job[u]
<1> DEFINE rest == Tail(job[t].todo)
           now == [job[t] EXCEPT !.todo = rest, !.step = "files"]
<1>1. /\ job'[t] = now
      /\ \A u \in Terminals \ {t} : job'[u] = job[u]
    BY DEF FileDone, JobTypes
<1>2. now.step = "files"
    BY DEF JobTypes, Job
<1>3. QED  BY <1>1, <1>2 DEF Released, Holds, At

LEMMA GotoHolds ==
    ASSUME JobTypes, NEW t \in Terminals, job[t] # Idle, NEW step, NEW seen,
           Goto(t, step, seen)
    PROVE  /\ job'[t].step = step /\ job'[t].seen = seen /\ Current(t)' = Current(t)
           /\ \A u \in Terminals \ {t} : job'[u] = job[u]
<1> DEFINE now == [job[t] EXCEPT !.step = step, !.seen = seen]
<1>1. /\ job'[t] = now
      /\ \A u \in Terminals \ {t} : job'[u] = job[u]
    BY DEF Goto, JobTypes
<1>2. now.step = step /\ now.seen = seen /\ now.todo = job[t].todo
    BY DEF JobTypes, Job
<1>3. QED  BY <1>1, <1>2 DEF Current

\* The steps that neither read nor write a file take nothing into a hand.
LEMMA OtherSteps ==
    ASSUME JobTypes, NEW t \in Terminals,
           \/ \E s \in Services : Stop(t, s)
           \/ \E s \in Services, force \in BOOLEAN : Start(t, s, force)
           \/ EnsureNetwork(t) \/ Up(t) \/ Dies(t)
    PROVE  UNCHANGED files /\ \A u \in Terminals : SameHands(u)
<1>1. UNCHANGED files
    BY DEF Stop, Start, EnsureNetwork, Up, Dies
<1>2. \A u \in Terminals \ {t} : job'[u] = job[u]
    BY DEF Stop, Start, EnsureNetwork, Up, Dies, JobTypes
<1>3. \/ job'[t] = job[t] \/ job'[t] = Idle
      \/ job'[t].step \in {"files", "up"}
    <2>1. CASE \E s \in Services, force \in BOOLEAN : Start(t, s, force)
        BY <2>1 DEF Start, JobTypes
    <2>2. CASE EnsureNetwork(t)
        BY <2>2 DEF EnsureNetwork, At, JobTypes, Job
    <2>3. CASE (\E s \in Services : Stop(t, s)) \/ Up(t) \/ Dies(t)
        BY <2>3 DEF Stop, Up, Dies, JobTypes
    <2>4. QED  BY <2>1, <2>2, <2>3
<1>4. \A u \in Terminals : SameHands(u)
    BY <1>2, <1>3 DEF SameHands, Holds, At, Current
<1>5. QED  BY <1>1, <1>4

-------------------------------------------------------------------------------
(***************************************************************************)
(* The configuration files.  EditRecoverable is not inductive: a start     *)
(* with --force copies what it has read, so until the first copy every     *)
(* start must have read what the user saved, and none may be about to      *)
(* create or to restore the file.                                          *)
(***************************************************************************)
FilesAreFunctions ==
    /\ DOMAIN edited = Files
    /\ backups \in [Files -> Nat]

SafeEdit(f) ==
    /\ file[f] # Absent
    /\ \A t \in Terminals : ~Holds(t, "create", f)
    /\ backups[f] = 0 =>
        /\ file[f] = edited[f]
        /\ \A t \in Terminals : /\ Holds(t, "copy", f) => job[t].seen = edited[f]
                               /\ ~Holds(t, "restore", f)
    /\ backups[f] = 1 => backup[f] = edited[f]

EditInv ==
    /\ FilesAreFunctions
    /\ \A f \in Files : edited[f] # Absent => SafeEdit(f)

LEMMA EditInvImplies == EditInv => EditRecoverable
BY SMT DEF EditInv, FilesAreFunctions, SafeEdit, EditRecoverable

\* Of a step that leaves the files alone only what it takes in hand matters.
LEMMA UntouchedEdits ==
    ASSUME EditInv, UNCHANGED files,
           \A u \in Terminals : SameHands(u)
    PROVE  EditInv'
<1>1. FilesAreFunctions'
    BY DEF files, EditInv, FilesAreFunctions
<1>2. ASSUME NEW f \in Files, edited'[f] # Absent
      PROVE  SafeEdit(f)'
    <2>1. SafeEdit(f)
        BY <1>2 DEF files, EditInv
    <2>2. ASSUME NEW t \in Terminals
          PROVE  /\ ~Holds(t, "create", f)'
                 /\ backups[f] = 0 =>
                     /\ Holds(t, "copy", f)' => job'[t].seen = edited[f]
                     /\ ~Holds(t, "restore", f)'
        BY <2>1 DEF SafeEdit, SameHands
    <2>3. QED  BY <2>1, <2>2 DEF SafeEdit, files
<1>3. QED  BY <1>1, <1>2 DEF EditInv

\* The version counts when no start has the file in hand.
LEMMA SaveKeepsEdits ==
    ASSUME ServiceInv, EditInv, NEW f \in Files, Save(f)
    PROVE  EditInv'
<1> DEFINE version == [by |-> "user", what |-> changes']
<1>1. /\ file' = [file EXCEPT ![f] = version]
      /\ edited' = [edited EXCEPT ![f] = IF InHand(f) THEN Absent ELSE version]
      /\ backups' = [backups EXCEPT ![f] = 0]
      /\ backup' = backup /\ job' = job
      /\ version \in Content
    <2>1. changes' \in Nat
        BY DEF Save, Change, ServiceInv, HostTypes
    <2>2. QED  BY <2>1 DEF Save, Change, Content
<1> HIDE DEF version
<1>2. FilesAreFunctions'
    BY <1>1 DEF EditInv, FilesAreFunctions
<1>3. ASSUME NEW g \in Files, edited'[g] # Absent
      PROVE  SafeEdit(g)'
    <2>1. CASE g = f
        <3>1. ~InHand(f) /\ edited'[f] = version
            BY <1>1, <1>3, <2>1 DEF EditInv, FilesAreFunctions
        <3>2. \A t \in Terminals : \A step \in {"create", "copy", "restore"} :
                ~Holds(t, step, f)
            BY <3>1 DEF InHand, Holds
        <3>3. \A t \in Terminals : \A step : Holds(t, step, f)' <=> Holds(t, step, f)
            BY <1>1 DEF Holds, At, Current
        <3>4. file'[f] = version /\ backups'[f] = 0 /\ version # Absent
            BY <1>1, AbsentIsNoFile DEF EditInv, FilesAreFunctions, ServiceInv, FileTypes
        <3>5. QED  BY <2>1, <3>1, <3>2, <3>3, <3>4 DEF SafeEdit
    <2>2. CASE g # f
        <3>1. /\ file'[g] = file[g] /\ backups'[g] = backups[g]
              /\ edited'[g] = edited[g] /\ backup'[g] = backup[g]
            BY <1>1, <2>2 DEF EditInv, FilesAreFunctions, ServiceInv, FileTypes
        <3>2. SafeEdit(g)
            BY <1>3, <3>1 DEF EditInv
        <3>3. QED  BY <1>1, <3>1, <3>2 DEF SafeEdit, Holds, At, Current
    <2>3. QED  BY <2>1, <2>2
<1>4. QED  BY <1>2, <1>3 DEF EditInv

\* A start takes a file in hand with what the file holds.
LEMMA ReadKeepsEdits ==
    ASSUME ServiceInv, EditInv, NEW t \in Terminals, ReadFile(t)
    PROVE  EditInv'
<1>1. job[t] # Idle /\ UNCHANGED files /\ JobTypes
    BY DEF ReadFile, At, ServiceInv
<1>2. CASE FileDone(t)
    <2>1. \A u \in Terminals : SameHands(u)
        BY <1>1, <1>2, FileDoneReleases
        DEF SameHands, Released, Holds, At, Current
    <2>2. QED  BY <1>1, <2>1, UntouchedEdits
<1>3. ASSUME NEW step, Goto(t, step, IF step = "copy" THEN Found(t) ELSE Absent),
             \/ step = "create" /\ Found(t) = Absent
             \/ step = "copy" /\ Current(t) # ".env"
      PROVE  EditInv'
    <2>1. /\ job'[t].step = step /\ Current(t)' = Current(t)
          /\ step = "copy" => job'[t].seen = Found(t)
          /\ \A u \in Terminals \ {t} : job'[u] = job[u]
        BY <1>1, <1>3, GotoHolds
    <2>2. FilesAreFunctions'
        BY <1>1 DEF files, EditInv, FilesAreFunctions
    <2>3. ASSUME NEW f \in Files, edited'[f] # Absent
          PROVE  SafeEdit(f)'
        <3>1. SafeEdit(f)
            BY <1>1, <2>3 DEF files, EditInv
        <3>2. ASSUME NEW u \in Terminals, u # t
              PROVE  /\ \A s : Holds(u, s, f)' <=> Holds(u, s, f)
                     /\ job'[u].seen = job[u].seen
            BY <2>1, <3>2 DEF Holds, At, Current
        <3>3. ~Holds(t, "create", f)' /\ ~Holds(t, "restore", f)'
            <4>1. SUFFICES ASSUME step = "create", Current(t) = f PROVE FALSE
                BY <1>3, <2>1 DEF Holds, At
            <4>2. f # ".env"
                BY EnvIsNoFile
            <4>3. QED  BY <1>3, <3>1, <4>1, <4>2 DEF Found, SafeEdit
        <3>4. Holds(t, "copy", f)' => job'[t].seen = file[f]
            BY <1>3, <2>1 DEF Holds, At, Found
        <3>5. QED
            BY <1>1, <3>1, <3>2, <3>3, <3>4 DEF SafeEdit, files
    <2>4. QED  BY <2>2, <2>3 DEF EditInv
<1>4. QED  BY <1>2, <1>3 DEF ReadFile

\* A start only restores a file whose copy it has taken, and creates none that
\* holds an edit.
LEMMA WriteKeepsEdits ==
    ASSUME ServiceInv, EditInv, NEW t \in Terminals, CreateFile(t) \/ RestoreFile(t)
    PROVE  EditInv'
<1>1. /\ UNCHANGED <<backup, edited, backups>>
      /\ job[t] # Idle /\ FileDone(t) /\ JobTypes
      /\ \/ Holds(t, "create", Current(t)) \/ Holds(t, "restore", Current(t))
      /\ file' = file \/ file' = [file EXCEPT ![Current(t)] = Wanted(t)]
    BY DEF CreateFile, RestoreFile, At, Holds, ServiceInv
<1>2. Wanted(t) # Absent
    BY <1>1, WantedType, AbsentIsNoFile DEF ServiceInv, JobTypes, Job
<1>3. FilesAreFunctions'
    BY <1>1 DEF EditInv, FilesAreFunctions
<1>4. ASSUME NEW f \in Files, edited'[f] # Absent
      PROVE  SafeEdit(f)'
    <2>1. SafeEdit(f)
        BY <1>1, <1>4 DEF EditInv
    <2>2. file'[f] # Absent /\ (backups[f] = 0 => file'[f] = file[f])
        <3>1. CASE f = Current(t)
            <4>1. backups[f] # 0
                BY <1>1, <2>1, <3>1 DEF SafeEdit
            <4>2. file'[f] = file[f] \/ file'[f] = Wanted(t)
                BY <1>1, <3>1 DEF ServiceInv, FileTypes
            <4>3. QED  BY <1>2, <2>1, <4>1, <4>2 DEF SafeEdit
        <3>2. CASE f # Current(t)
            BY <1>1, <2>1, <3>2 DEF SafeEdit, ServiceInv, FileTypes
        <3>3. QED  BY <3>1, <3>2
    <2>3. Released(t)' /\ \A u \in Terminals \ {t} : job'[u] = job[u]
        BY <1>1, FileDoneReleases
    <2>4. ASSUME NEW u \in Terminals
          PROVE  /\ ~Holds(u, "create", f)'
                 /\ backups[f] = 0 =>
                     /\ Holds(u, "copy", f)' => job'[u].seen = edited[f]
                     /\ ~Holds(u, "restore", f)'
        BY <2>1, <2>3 DEF SafeEdit, Released, Holds, At, Current
    <2>5. QED  BY <1>1, <2>1, <2>2, <2>4 DEF SafeEdit
<1>5. QED  BY <1>3, <1>4 DEF EditInv

\* The first copy after an edit is of that edit.
LEMMA CopyKeepsEdits ==
    ASSUME ServiceInv, EditInv, NEW t \in Terminals, CopyFile(t)
    PROVE  EditInv'
<1>1. /\ UNCHANGED <<file, edited>>
      /\ job[t] # Idle /\ JobTypes /\ Goto(t, "restore", Absent)
      /\ Holds(t, "copy", Current(t))
      /\ backup' = [backup EXCEPT ![Current(t)] = job[t].seen]
      /\ backups' = [backups EXCEPT ![Current(t)] = @ + 1]
    BY DEF CopyFile, At, Holds, TakeBackup, ServiceInv
<1>2. FilesAreFunctions'
    <2>1. \A f \in Files : backups[f] + 1 \in Nat
        BY DEF EditInv, FilesAreFunctions
    <2>2. QED  BY <1>1, <2>1 DEF EditInv, FilesAreFunctions
<1>3. /\ job'[t].step = "restore" /\ Current(t)' = Current(t)
      /\ \A u \in Terminals \ {t} : job'[u] = job[u]
    BY <1>1, GotoHolds
<1>4. ASSUME NEW f \in Files, edited'[f] # Absent
      PROVE  SafeEdit(f)'
    <2>1. SafeEdit(f)
        BY <1>1, <1>4 DEF EditInv
    <2>2. \A u \in Terminals \ {t} : \A s :
            /\ Holds(u, s, f)' <=> Holds(u, s, f)
            /\ job'[u].seen = job[u].seen
        BY <1>3 DEF Holds, At, Current
    <2>3. ~Holds(t, "create", f)' /\ ~Holds(t, "copy", f)'
        BY <1>3 DEF Holds, At
    <2>4. CASE f = Current(t)
        <3>1. /\ backups[f] \in Nat /\ backups'[f] = backups[f] + 1
              /\ backup'[f] = job[t].seen
            BY <1>1, <2>4 DEF EditInv, FilesAreFunctions, ServiceInv, FileTypes
        <3>2. backups[f] = 0 => job[t].seen = edited[f]
            BY <1>1, <2>1, <2>4 DEF SafeEdit
        <3>3. QED
            BY <1>1, <2>1, <2>2, <2>3, <3>1, <3>2 DEF SafeEdit
    <2>5. CASE f # Current(t)
        <3>1. backups'[f] = backups[f] /\ backup'[f] = backup[f]
            BY <1>1, <2>5 DEF EditInv, FilesAreFunctions, ServiceInv, FileTypes
        <3>2. ~Holds(t, "restore", f)'
            BY <1>3, <2>5 DEF Holds
        <3>3. QED
            BY <1>1, <2>1, <2>2, <2>3, <3>1, <3>2 DEF SafeEdit
    <2>6. QED  BY <2>4, <2>5
<1>5. QED  BY <1>2, <1>4 DEF EditInv

LEMMA EditInvStep == ServiceInv /\ EditInv /\ [Next]_vars => EditInv'
<1> SUFFICES ASSUME ServiceInv, EditInv, [Next]_vars PROVE EditInv'
    OBVIOUS
<1>1. ASSUME NEW t \in Terminals,
             \/ \E s \in Services : Stop(t, s)
             \/ \E s \in Services, force \in BOOLEAN : Start(t, s, force)
             \/ EnsureNetwork(t) \/ Up(t) \/ Dies(t)
      PROVE  EditInv'
    BY <1>1, OtherSteps, UntouchedEdits DEF ServiceInv
<1>2. ASSUME UNCHANGED files, job' = job
      PROVE  EditInv'
    <2>1. \A u \in Terminals : SameHands(u)
        BY <1>2 DEF SameHands, Holds, At, Current
    <2>2. QED  BY <1>2, <2>1, UntouchedEdits
<1>3. CASE User
    <2>1. CASE \E f \in Files : Save(f)
        BY <2>1, SaveKeepsEdits
    <2>2. CASE (\E on \in BOOLEAN : SetWebhook(on)) \/ DeleteEnv \/ RemoveNetwork
        BY <1>2, <2>2 DEF SetWebhook, DeleteEnv, RemoveNetwork, Change
    <2>3. QED  BY <1>3, <2>1, <2>2 DEF User
<1>4. CASE UNCHANGED vars
    BY <1>2, <1>4 DEF vars
<1>5. CASE Next
    BY <1>1, <1>3, <1>5, ReadKeepsEdits, WriteKeepsEdits, CopyKeepsEdits, Zenon
    DEF Next
<1>6. QED  BY <1>4, <1>5

\* What the user last saved in a configuration file, with no start between
\* reading and writing that file, is in the file or in its copy until two
\* starts with --force have taken one (Manager.ensureFile).
THEOREM EditIsRecoverable == Spec => []EditRecoverable
<1>1. Init => EditInv
    BY DEF Init, EditInv, FilesAreFunctions
<1>2. ServiceInv /\ EditInv /\ [Next]_vars => ServiceInv' /\ EditInv'
    BY EditInvStep, ServiceInvStep
<1>3. QED  BY <1>1, <1>2, ServiceInvInit, EditInvImplies, PTL DEF Spec

-------------------------------------------------------------------------------
(***************************************************************************)
(* The token.  A start that has .env in hand has found none.  As long as   *)
(* only one does, no token was written since, and Jupyter runs with none   *)
(* that counts.                                                            *)
(***************************************************************************)
HasEnv(t) == \E step \in {"create", "copy", "restore"} : Holds(t, step, ".env")

FirstStarts ==
    ~raced => /\ \A t, u \in Terminals : HasEnv(t) /\ HasEnv(u) => t = u
              /\ \A t \in Terminals : HasEnv(t) => AccessToken = NoToken

TokenInv == JupyterTokenAgrees /\ FirstStarts

LEMMA InHandEnv == InHand(".env") <=> \E t \in Terminals : HasEnv(t)
BY DEF InHand, HasEnv, Holds

\* Steps that take nothing in hand and change neither token nor Jupyter.
LEMMA QuietSteps ==
    ASSUME TokenInv, \A u \in Terminals : SameHands(u),
           AccessToken' = AccessToken, UNCHANGED <<envEdited, raced>>,
           /\ container["jupyter"] = Absent => container'["jupyter"] = Absent
           /\ container["jupyter"] # Absent => \/ container'["jupyter"] = Absent
                \/ container'["jupyter"].token = container["jupyter"].token
    PROVE  TokenInv'
<1>1. \A u \in Terminals : HasEnv(u)' => HasEnv(u)
    BY DEF HasEnv, SameHands
<1>2. FirstStarts'
    BY <1>1 DEF TokenInv, FirstStarts
<1>3. JupyterTokenAgrees'
    BY DEF TokenInv, JupyterTokenAgrees
<1>4. QED  BY <1>2, <1>3 DEF TokenInv

\* A second start that finds no .env is a race.
LEMMA ReadKeepsToken ==
    ASSUME ServiceInv, TokenInv, NEW t \in Terminals, ReadFile(t)
    PROVE  TokenInv'
<1>1. /\ job[t] # Idle /\ job[t].step = "files" /\ JobTypes
      /\ UNCHANGED <<env, envEdited, container>>
      /\ raced' = (raced \/ (Current(t) = ".env" /\ env = Absent /\ InHand(".env")))
    BY DEF ReadFile, At, ServiceInv
<1>2. JupyterTokenAgrees'
    BY <1>1 DEF TokenInv, JupyterTokenAgrees, AccessToken
<1>3. /\ \A u \in Terminals \ {t} : job'[u] = job[u]
      /\ HasEnv(t)' => Current(t) = ".env" /\ env = Absent
    <2>1. CASE FileDone(t)
        BY <1>1, <2>1, FileDoneReleases DEF HasEnv, Released
    <2>2. CASE Goto(t, "create", Absent) /\ Found(t) = Absent
        BY <1>1, <2>2, GotoHolds DEF HasEnv, Holds, Found
    <2>3. CASE Goto(t, "copy", Found(t)) /\ Current(t) # ".env"
        BY <1>1, <2>3, GotoHolds DEF HasEnv, Holds
    <2>4. QED  BY <2>1, <2>2, <2>3 DEF ReadFile
<1>4. \A u \in Terminals \ {t} : HasEnv(u)' <=> HasEnv(u)
    BY <1>3 DEF HasEnv, Holds, At, Current
<1>5. FirstStarts'
    <2>1. SUFFICES ASSUME ~raced' PROVE FirstStarts'
        BY DEF FirstStarts
    <2>2. ~raced /\ (HasEnv(t)' => \A u \in Terminals : ~HasEnv(u))
        BY <1>1, <1>3, <2>1, InHandEnv
    <2>3. AccessToken' = AccessToken /\ (HasEnv(t)' => AccessToken = NoToken)
        BY <1>1, <1>3 DEF AccessToken
    <2>4. QED  BY <1>4, <2>2, <2>3 DEF TokenInv, FirstStarts
<1>6. QED  BY <1>2, <1>5 DEF TokenInv

\* Whoever writes .env, and is the only one to, finds no Jupyter with a token.
LEMMA CreateKeepsToken ==
    ASSUME ServiceInv, TokenInv, NEW t \in Terminals, CreateFile(t)
    PROVE  TokenInv'
<1>1. /\ job[t] # Idle /\ FileDone(t) /\ JobTypes
      /\ UNCHANGED <<envEdited, raced, container>>
      /\ Current(t) = ".env" => HasEnv(t)
      /\ Current(t) # ".env" => env' = env
    BY DEF CreateFile, At, HasEnv, Holds, ServiceInv
<1>2. /\ ~HasEnv(t)'
      /\ \A u \in Terminals \ {t} : HasEnv(u)' <=> HasEnv(u)
    BY <1>1, FileDoneReleases DEF HasEnv, Released, Holds, At, Current
<1>3. CASE Current(t) = ".env"
    <2>1. ~raced => container["jupyter"] = Absent \/ envEdited
        BY <1>1, <1>3 DEF TokenInv, FirstStarts, JupyterTokenAgrees
    <2>2. ~raced => \A u \in Terminals : ~HasEnv(u)'
        BY <1>1, <1>2, <1>3 DEF TokenInv, FirstStarts
    <2>3. QED  BY <1>1, <2>1, <2>2 DEF TokenInv, FirstStarts, JupyterTokenAgrees
<1>4. CASE Current(t) # ".env"
    <2>1. AccessToken' = AccessToken
        BY <1>1, <1>4 DEF AccessToken
    <2>2. QED
        BY <1>1, <1>2, <2>1 DEF TokenInv, FirstStarts, JupyterTokenAgrees
<1>5. QED  BY <1>3, <1>4

\* Jupyter starts with the token of .env; the race is over when no start has
\* it in hand any more.
LEMMA UpKeepsToken ==
    ASSUME "jupyter" \in Services, ServiceInv, TokenInv, NEW t \in Terminals, Up(t)
    PROVE  TokenInv'
<1> DEFINE service == job[t].service
           starts == ComposeLoads /\ network # NoGateway
           fresh == starts /\ service = "jupyter"
<1>1. /\ container' = [container EXCEPT ![service] =
                          IF starts THEN ComposeUp(service) ELSE @]
      /\ envEdited' = (envEdited /\ ~fresh)
      /\ raced' = (raced /\ (fresh => InHand(".env")))
      /\ env' = env
    BY DEF Up
<1>2. \A u \in Terminals : HasEnv(u)' => HasEnv(u)
    BY OtherSteps DEF ServiceInv, HasEnv, SameHands
<1>3. AccessToken' = AccessToken
    BY <1>1 DEF AccessToken
<1>4. FirstStarts'
    <2>1. CASE raced' \/ ~raced
        BY <1>2, <1>3, <2>1 DEF TokenInv, FirstStarts
    <2>2. CASE raced /\ ~raced'
        <3>1. ~InHand(".env")
            BY <1>1, <2>2, Zenon
        <3>2. \A u \in Terminals : ~HasEnv(u)'
            BY <1>2, <3>1, InHandEnv
        <3>3. QED  BY <3>2 DEF FirstStarts
    <2>3. QED  BY <2>1, <2>2
<1>5. JupyterTokenAgrees'
    <2>1. CASE fresh
        <3>1. container'["jupyter"] = ComposeUp("jupyter")
            BY <1>1, <2>1 DEF ServiceInv, ContainerTypes
        <3>2. ComposeUp("jupyter").token = env.token
            BY DEF ComposeUp
        <3>3. env # Absent /\ env.token # NoToken
            BY <2>1 DEF ComposeLoads
        <3>4. QED
            BY <1>1, <3>1, <3>2, <3>3 DEF JupyterTokenAgrees, AccessToken
    <2>2. CASE ~fresh
        <3>1. container'["jupyter"] = container["jupyter"]
            BY <1>1, <2>2 DEF ServiceInv, ContainerTypes
        <3>2. (envEdited' <=> envEdited) /\ (raced' <=> raced)
            BY <1>1, <2>2, Zenon
        <3>3. QED
            BY <1>3, <3>1, <3>2 DEF TokenInv, JupyterTokenAgrees
    <2>3. QED  BY <2>1, <2>2
<1>6. QED  BY <1>4, <1>5 DEF TokenInv

LEMMA TokenInvStep ==
    ASSUME "jupyter" \in Services, ServiceInv, TokenInv, [Next]_vars
    PROVE  TokenInv'
<1>1. ASSUME UNCHANGED <<env, envEdited, raced, container>>,
             \A u \in Terminals : SameHands(u)
      PROVE  TokenInv'
    BY <1>1, QuietSteps DEF AccessToken
<1>2. ASSUME NEW t \in Terminals, NEW s \in Services, Stop(t, s)
      PROVE  TokenInv'
    <2>1. \A u \in Terminals : SameHands(u)
        BY <1>2, OtherSteps DEF ServiceInv
    <2>2. UNCHANGED <<env, envEdited, raced>>
        BY <1>2 DEF Stop, dotenv
    <2>3. container' = [container EXCEPT ![s] =
            IF container[s] # Absent /\ ComposeLoads
            THEN [@ EXCEPT !.state = "stopped"] ELSE @]
        BY <1>2 DEF Stop
    <2>4. CASE container[s] # Absent /\ s = "jupyter"
        <3>1. container[s] \in Container
            BY <2>4 DEF ServiceInv, ContainerTypes
        <3>2. [container[s] EXCEPT !.state = "stopped"].token = container[s].token
            BY <3>1 DEF Container
        <3>3. container'[s].token = container[s].token
            BY <2>3, <3>2 DEF ServiceInv, ContainerTypes
        <3>4. QED  BY <2>1, <2>2, <2>4, <3>3, QuietSteps DEF AccessToken
    <2>5. CASE container[s] = Absent \/ s # "jupyter"
        <3>1. container'["jupyter"] = container["jupyter"]
            BY <2>3, <2>5 DEF ServiceInv, ContainerTypes
        <3>2. QED  BY <2>1, <2>2, <3>1, QuietSteps DEF AccessToken
    <2>6. QED  BY <2>4, <2>5
<1>3. ASSUME NEW t \in Terminals,
             \/ \E s \in Services, force \in BOOLEAN : Start(t, s, force)
             \/ EnsureNetwork(t) \/ Dies(t)
      PROVE  TokenInv'
    <2>1. \A u \in Terminals : SameHands(u)
        BY <1>3, OtherSteps DEF ServiceInv
    <2>2. UNCHANGED <<env, envEdited, raced, container>>
        BY <1>3 DEF Start, EnsureNetwork, Dies, dotenv
    <2>3. QED  BY <1>1, <2>1, <2>2
<1>4. ASSUME NEW t \in Terminals, CopyFile(t) \/ RestoreFile(t)
      PROVE  TokenInv'
    <2>1. /\ UNCHANGED <<env, envEdited, raced, container>>
          /\ JobTypes /\ job[t] # Idle
        BY <1>4 DEF CopyFile, RestoreFile, At, dotenv, ServiceInv
    <2>2. \A u \in Terminals : HasEnv(u)' => HasEnv(u)
        <3>1. CASE CopyFile(t)
            BY <2>1, <3>1, GotoHolds DEF CopyFile, HasEnv, Holds, At, Current
        <3>2. CASE RestoreFile(t)
            BY <2>1, <3>2, FileDoneReleases
            DEF RestoreFile, HasEnv, Released, Holds, At, Current
        <3>3. QED  BY <1>4, <3>1, <3>2
    <2>3. QED
        BY <2>1, <2>2 DEF TokenInv, FirstStarts, JupyterTokenAgrees, AccessToken
<1>5. CASE User
    <2>1. \A u \in Terminals : SameHands(u)
        BY <1>5 DEF User, Save, SetWebhook, DeleteEnv, RemoveNetwork, Change,
                    SameHands, Holds, At, Current
    <2>2. ASSUME NEW f, Save(f) PROVE TokenInv'
        BY <1>1, <2>1, <2>2 DEF Save, dotenv
    <2>3. ASSUME NEW on \in BOOLEAN, SetWebhook(on) PROVE TokenInv'
        <3>1. UNCHANGED <<envEdited, raced, container>>
            BY <2>3 DEF SetWebhook
        <3>2. /\ env' \in Env
              /\ env # Absent => env'.token = env.token
              /\ env = Absent => env'.token = NoToken
            BY <2>3 DEF SetWebhook, ServiceInv, HostTypes, Env, NoToken
        <3>3. AccessToken' = AccessToken
            BY <3>2, AbsentIsNoFile DEF AccessToken
        <3>4. QED  BY <2>1, <3>1, <3>3, QuietSteps
    <2>4. CASE DeleteEnv
        <3>1. AccessToken' = NoToken /\ envEdited' /\ raced' = raced
            BY <2>4 DEF DeleteEnv, AccessToken
        <3>2. \A u \in Terminals : HasEnv(u)' => HasEnv(u)
            BY <2>1 DEF HasEnv, SameHands
        <3>3. QED  BY <3>1, <3>2 DEF TokenInv, FirstStarts, JupyterTokenAgrees
    <2>5. CASE RemoveNetwork
        <3>1. /\ container'["jupyter"] = Absent
              /\ UNCHANGED <<env, envEdited, raced>>
            BY <2>5 DEF RemoveNetwork, dotenv
        <3>2. QED  BY <2>1, <3>1, QuietSteps DEF AccessToken
    <2>6. QED  BY <1>5, <2>2, <2>3, <2>4, <2>5 DEF User
<1>6. CASE UNCHANGED vars
    BY <1>1, <1>6 DEF vars, dotenv, SameHands, Holds, At, Current
<1>7. CASE Next
    BY <1>2, <1>3, <1>4, <1>5, <1>7, ReadKeepsToken, CreateKeepsToken,
       UpKeepsToken, Zenon DEF Next
<1>8. QED  BY <1>6, <1>7

\* The token that `service start jupyter` prints is the one its container was
\* started with, whichever starts failed, as long as the user leaves the token
\* alone and no two first starts had .env in hand at once since (Manager.
\* ensureFile and the generated .env).
THEOREM TokenSurvives ==
    ASSUME "jupyter" \in Services
    PROVE  Spec => []JupyterTokenAgrees
<1>1. Init => TokenInv
    BY DEF Init, TokenInv, JupyterTokenAgrees, FirstStarts, HasEnv, Holds, At
<1>2. ServiceInv /\ TokenInv /\ [Next]_vars => ServiceInv' /\ TokenInv'
    BY TokenInvStep, ServiceInvStep
<1>3. TokenInv => JupyterTokenAgrees
    BY DEF TokenInv
<1>4. QED  BY <1>1, <1>2, <1>3, ServiceInvInit, PTL DEF Spec
===============================================================================
