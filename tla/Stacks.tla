-------------------------------- MODULE Stacks --------------------------------
(***************************************************************************)
(* The stack manager (harness/stack): boots the services of a worktree as  *)
(* a project of docker compose, of its own for every branch, on ports that *)
(* follow from the names of the two.  Agents run its commands in several   *)
(* worktrees at once, while branches are switched and the configuration is *)
(* edited under them.  A stack is a pair of a worktree and a branch.       *)
(*                                                                         *)
(* docker is external: it keeps a host port from being held twice, and     *)
(* tells compose's success by its exit code.                               *)
(***************************************************************************)
EXTENDS Naturals, FiniteSets

CONSTANTS Agents, Trees, Branches,
          Number,         \* The first eight digits of the hash of a stack's name
          Services,       \* What harness.config.ts and the harness may run
          PortOf,         \* The name of a service's port, as a position in PORT_SERVICES
          Included,       \* What the included compose file of the harness runs
          Bugs,           \* The toggles of --bug
          Broken,         \* A configuration that does not load
          Missing,        \* No file, no container
          MaxStackSteps   \* Bound: commands and edits of a behaviour

Stack == Trees \X Branches
\* What boot writes to an environment, and what docker keeps of a container.
Environment == [of : Stack, bugs : SUBSET Bugs]
Container == [up : BOOLEAN, env : Environment]
ASSUME StacksAssumption ==
    /\ Included \subseteq Services
    /\ \A services \in SUBSET Services : services # Broken /\ services # Missing
    /\ Missing \notin Environment \cup Container

VARIABLES head,       \* The branch each worktree has checked out
          config,     \* The services harness.config.ts names in each worktree, or Broken
          envFile,    \* .harness/<key>.env, by stack
          composeFile,\* .harness/<key>.compose.yml, by stack
          container,  \* The containers of each project
          command,    \* What each agent runs
          promise,    \* What a boot that was alone said it runs, until the next command there
          stackSteps  \* Commands and edits so far

fileVars == <<envFile, composeFile>>
stackVars == <<head, config, fileVars, container, command, promise, stackSteps>>

NoCommand == [op |-> "none"]

-----------------------------------------------------------------------------
(* The names and files of a stack *)

\* detectIsolation: the stack an agent in a worktree means is read from git once.
Isolation(tree) == <<tree, head[tree]>>

\* allocatePorts: ten ports in a row, by the hash's number.
Port(stack, service) == 30000 + (Number[stack] % 1000) * 10 + PortOf[service]

\* buildComposeYaml names the environment's file by the stack.
\* Mutant of EnvFileOf: the key is not passed, and all branches share stack.env.
EnvFileShared(stack) == CHOOSE s \in Stack : s[1] = stack[1]
EnvFileOf(stack) == stack

\* Mutant of ProjectOf: docker is given the name of the branch that is checked out by then.
ProjectReread(stack) == Isolation(stack[1])
\* detectIsolation's project, in all a command does.
ProjectOf(stack) == stack

\* What boot writes to the environment: whose it is, and the toggles.
EnvVars(stack, bugs) == [of |-> stack, bugs |-> bugs]

ComposeYaml(services) == services \cup Included

-----------------------------------------------------------------------------
(* docker *)

Up(stack, service) == container[stack][service] # Missing /\ container[stack][service].up

\* The services of a project whose host port another container holds or will hold.
Taken(stack, services) ==
    {s \in services : \E other \in Stack, t \in Services :
        /\ other # stack \/ t # s
        /\ Up(other, t) \/ (other = stack /\ t \in services)
        /\ Port(other, t) = Port(stack, s)}

Containers(stack, made, started, env) ==
    [container EXCEPT ![stack] = [s \in Services |->
        IF s \in made THEN [up |-> s \in started, env |-> env] ELSE @[s]]]

-----------------------------------------------------------------------------
(* The commands *)

StacksInit ==
    /\ head \in [Trees -> Branches]
    /\ config \in [Trees -> SUBSET (Services \ Included)]
    /\ envFile = [s \in Stack |-> Missing] /\ composeFile = [s \in Stack |-> Missing]
    /\ container = [s \in Stack |-> [t \in Services |-> Missing]]
    /\ command = [a \in Agents |-> NoCommand]
    /\ promise = [s \in Stack |-> Missing]
    /\ stackSteps = 0

Begin == stackSteps < MaxStackSteps /\ stackSteps' = stackSteps + 1

\* A command for a stack begins: what was promised of it is no longer sure, and no
\* command for it is alone any more.
Start(a, tree, op, bugs) ==
    /\ command[a] = NoCommand /\ Begin
    /\ LET stack == Isolation(tree)
           others == {b \in Agents : command[b] # NoCommand /\ command[b].stack = stack}
       IN  /\ command' = [b \in Agents |->
                 IF b = a THEN [op |-> op, stack |-> stack, bugs |-> bugs, alone |-> others = {}]
                 ELSE IF b \in others THEN [command[b] EXCEPT !.alone = FALSE] ELSE command[b]]
           /\ promise' = [promise EXCEPT ![stack] = Missing]
    /\ UNCHANGED <<head, config, fileVars, container>>

StartBoot(a, tree, bugs) == Start(a, tree, "configure", bugs)
StartStop(a, tree) == Start(a, tree, "stop", {})
StartDestroy(a, tree) == Start(a, tree, "destroy", {})

End(a) == command' = [command EXCEPT ![a] = NoCommand]

\* boot loads the configuration, which may fail, before it writes a file.
LoadConfig(a) ==
    /\ command[a].op = "configure"
    /\ LET loaded == config[command[a].stack[1]]
       IN  IF loaded = Broken THEN End(a)
           ELSE command' = [command EXCEPT ![a] = [op |-> "env", stack |-> @.stack,
                                                   bugs |-> @.bugs, alone |-> @.alone,
                                                   services |-> loaded]]
    /\ UNCHANGED <<head, config, fileVars, container, promise, stackSteps>>

WriteEnvFile(a) ==
    /\ command[a].op = "env"
    /\ LET stack == command[a].stack
       IN  envFile' = [envFile EXCEPT ![EnvFileOf(stack)] = EnvVars(stack, command[a].bugs)]
    /\ command' = [command EXCEPT ![a].op = "compose"]
    /\ UNCHANGED <<head, config, composeFile, container, promise, stackSteps>>

WriteCompose(a) ==
    /\ command[a].op = "compose"
    /\ composeFile' = [composeFile EXCEPT ![command[a].stack] =
                         ComposeYaml(command[a].services)]
    /\ command' = [command EXCEPT ![a].op = "up"]
    /\ UNCHANGED <<head, config, envFile, container, promise, stackSteps>>

\* docker compose up -d --build: all the services of the file run with the file's
\* environment, and boot says so;
ComposeUp(a) ==
    /\ command[a].op = "up"
    /\ LET stack == command[a].stack
           project == ProjectOf(stack)
           services == composeFile[stack]
       IN  /\ Taken(project, services) = {}
           /\ container' = Containers(project, services, services, envFile[EnvFileOf(stack)])
           /\ promise' = IF command[a].alone
                         THEN [promise EXCEPT ![stack] = [services |-> command[a].services,
                                                          bugs |-> command[a].bugs]]
                         ELSE promise
    /\ End(a)
    /\ UNCHANGED <<head, config, fileVars, stackSteps>>

\* or an image does not build, or some do not start, because of a port or otherwise.
ComposeUpFails(a) ==
    /\ command[a].op = "up"
    /\ LET stack == command[a].stack
           project == ProjectOf(stack)
           services == composeFile[stack]
       IN  \E made \in SUBSET services, started \in SUBSET (services \ Taken(project, services)) :
             /\ started \subseteq made /\ started # services
             /\ container' = Containers(project, made, started, envFile[EnvFileOf(stack)])
    /\ End(a)
    /\ UNCHANGED <<head, config, fileVars, promise, stackSteps>>

\* docker compose stop, and down -v: what the file names; without a file they fail.
ComposeStop(a) ==
    /\ command[a].op = "stop"
    /\ LET stack == command[a].stack
           project == ProjectOf(stack)
           stopped == {s \in Services : composeFile[stack] # Missing /\ s \in composeFile[stack]
                                        /\ container[project][s] # Missing}
       IN  container' = [container EXCEPT ![project] = [s \in Services |->
                           IF s \in stopped THEN [@[s] EXCEPT !.up = FALSE] ELSE @[s]]]
    /\ End(a)
    /\ UNCHANGED <<head, config, fileVars, promise, stackSteps>>

ComposeDown(a) ==
    /\ command[a].op = "destroy"
    /\ LET stack == command[a].stack
           project == ProjectOf(stack)
           removed == {s \in Services : composeFile[stack] # Missing /\ s \in composeFile[stack]}
       IN  container' = [container EXCEPT ![project] = [s \in Services |->
                           IF s \in removed THEN Missing ELSE @[s]]]
    /\ End(a)
    /\ UNCHANGED <<head, config, fileVars, promise, stackSteps>>

\* People, and agents' git: at any moment of a command.
SwitchBranch(tree, branch) ==
    /\ Begin /\ head[tree] # branch
    /\ head' = [head EXCEPT ![tree] = branch]
    /\ UNCHANGED <<config, fileVars, container, command, promise>>

EditConfig(tree, services) ==
    /\ Begin /\ config[tree] # services
    /\ config' = [config EXCEPT ![tree] = services]
    /\ UNCHANGED <<head, fileVars, container, command, promise>>

StacksNext ==
    \/ \E a \in Agents, tree \in Trees :
         \/ \E bugs \in SUBSET Bugs : StartBoot(a, tree, bugs)
         \/ StartStop(a, tree) \/ StartDestroy(a, tree)
    \/ \E a \in Agents :
         \/ LoadConfig(a) \/ WriteEnvFile(a) \/ WriteCompose(a)
         \/ ComposeUp(a) \/ ComposeUpFails(a) \/ ComposeStop(a) \/ ComposeDown(a)
    \/ \E tree \in Trees, branch \in Branches : SwitchBranch(tree, branch)
    \/ \E tree \in Trees, services \in (SUBSET (Services \ Included)) \cup {Broken} :
         EditConfig(tree, services)

StacksSpec == StacksInit /\ [][StacksNext]_stackVars

-----------------------------------------------------------------------------
(***************************************************************************)
(* Stacks stay apart: a container runs in the environment that was written *)
(* for its own stack, and once a boot has said so a stack runs what its    *)
(* configuration named then, with the toggles of that boot, until the next *)
(* command for it: whatever is booted, stopped or destroyed for other      *)
(* branches of the worktree, or for a stack on the same ports, and         *)
(* whichever branch is checked out while a command runs.                   *)
(***************************************************************************)
StacksApart ==
    \A stack \in Stack :
      /\ \A s \in Services :
           container[stack][s] # Missing => container[stack][s].env.of = stack
      /\ promise[stack] # Missing =>
           \A s \in ComposeYaml(promise[stack].services) :
             /\ Up(stack, s)
             /\ container[stack][s].env.bugs = promise[stack].bugs

=============================================================================
