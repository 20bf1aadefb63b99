--------------------------- MODULE GuidedSetup ---------------------------
(***************************************************************************)
(* reasonfirst_cli.py with setup_actions, setup_config, setup_state,       *)
(* setup_tunnel, setup_bridge and tunnel_install: the commands that set    *)
(* ReasonFirst up.  They share the user's .env, the set-up record          *)
(* (setup.yaml), the installed tunnel-client and two named runtimes of it, *)
(* "read" and "bridge".  Each file is read, changed in memory and replaced *)
(* without a lock, so the commands of two terminals overlap at every step; *)
(* each may be interrupted there.  tunnel-client is external.              *)
(***************************************************************************)
EXTENDS Naturals

CONSTANTS
  Projects,     \* GitLab projects
  Tunnels,      \* tunnel ids of the user's organization
  Unset,        \* no tunnel id is recorded
  Terminals,    \* places where a command may run
  CommandBound, \* bound: commands that are run
  LapseBound    \* bound: how often a runtime stops being ready by itself

VARIABLES
  config,      \* the .env: the projects granted, and whether a worker is chosen
  copies,      \* its backups
  record,      \* setup.yaml: the completed phases and the tunnel ids
  bundle,      \* the tunnel-client on disk: "absent" or "verified"
  running,     \* runtime -> the tunnel it serves, and whether it is ready
  command,     \* terminal -> the command it runs, its step and what it holds
  approved,    \* projects whose preflight passed and that the user approved
  seenReady,   \* runtimes and tunnels a command has seen ready together
  overtaken,   \* runtimes and tunnels replaced by a command while another waited for them
  commandsRun, lapses

setupFiles == <<config, copies, record>>
setupVars == <<config, copies, record, bundle, running, command,
               approved, seenReady, overtaken, commandsRun, lapses>>

Runtimes == {"read", "bridge"}
Commandline == {"setup", "project", "worker", "tunnel", "bridge", "repair"}
RecordedId(r, runtime) == IF runtime = "read" THEN r.read ELSE r.bridge

NewRecord == [phases |-> {}, read |-> Unset, bridge |-> Unset]
\* What a command holds: the allowlist it will write, whether it chooses a worker, the
\* configuration it changes, the record it goes by, the one it is about to save, and the
\* runtime it connects; "resume" is where it goes on.
AtPrompt == [kind |-> "none", step |-> "idle", resume |-> "idle", grants |-> {}, worker |-> FALSE,
             before |-> [granted |-> {}, worker |-> FALSE], saw |-> NewRecord,
             held |-> NewRecord, runtime |-> "read", id |-> Unset]

NewHost ==
  /\ config = [granted |-> {}, worker |-> FALSE]
  /\ record = NewRecord
  /\ bundle = "absent"
  /\ running = [r \in Runtimes |-> [tunnel |-> Unset, ready |-> FALSE]]
  /\ approved = {} /\ seenReady = {}

\* A host that a guided setup has been through, restarted since.
ConfiguredHost ==
  \E p \in Projects, id \in Tunnels, other \in Tunnels \cup {Unset} :
    /\ config = [granted |-> {p}, worker |-> TRUE]
    /\ other # id
    /\ LET bridge == IF other = Unset THEN {} ELSE {"bridge"}
       IN record = [phases |-> {"gitlab", "worker", "tunnel"} \cup bridge,
                    read |-> id, bridge |-> other]
    /\ bundle = "verified"
    /\ running = [r \in Runtimes |-> [tunnel |-> RecordedId(record, r), ready |-> FALSE]]
    /\ approved = {p}
    /\ seenReady = {<<r, RecordedId(record, r)>> : r \in Runtimes}

SetupInit ==
  /\ NewHost \/ ConfiguredHost
  /\ copies = {} /\ overtaken = {}
  /\ command = [t \in Terminals |-> AtPrompt]
  /\ commandsRun = 0 /\ lapses = 0

Doing(t, step) == command[t].step = step
Proceed(t, step) == command' = [command EXCEPT ![t].step = step]
\* Every error ends the command, and what it has written stays.
EndCommand(t) == command' = [command EXCEPT ![t] = AtPrompt]

\* main(): each command begins with the settings and the record as they are.
Run(t, kind) ==
  /\ Doing(t, "idle") /\ commandsRun < CommandBound
  /\ commandsRun' = commandsRun + 1
  /\ command' = [command EXCEPT ![t] =
       [AtPrompt EXCEPT !.kind = kind, !.worker = kind = "worker",
          !.grants = IF kind \in {"setup", "project"} THEN config.granted ELSE {},
          !.saw = IF kind \in {"bridge", "repair"} THEN record ELSE NewRecord,
          !.step = CASE kind \in {"setup", "project"} -> "preflight"
                     [] kind = "worker" -> "reading"
                     [] kind = "tunnel" -> "readTunnel"
                     [] kind = "bridge" -> "bridgeTunnel"
                     [] OTHER -> "repairRead"]]
  /\ UNCHANGED <<setupFiles, bundle, running, approved, seenReady, overtaken, lapses>>

\* plan_project_add(): what the allowlist will be.
GrantsAfter(c, p) == c.grants \cup {p}

FaultyPreflight(t) ==
  /\ Doing(t, "preflight")
  /\ \E p \in Projects :
       /\ command' = [command EXCEPT ![t].grants = @ \cup {p}, ![t].step = "reading"]
       /\ UNCHANGED approved
  /\ UNCHANGED <<setupFiles, bundle, running, seenReady, overtaken, commandsRun, lapses>>

\* The project is read with the candidate settings and the user approves the plan:
\* the allowlist as loaded when the command began, and this project.  A guided setup
\* may leave the choice of a worker for later.
Preflight(t) ==
  /\ Doing(t, "preflight")
  /\ \/ EndCommand(t) /\ UNCHANGED approved
     \/ \E p \in Projects, chosen \in BOOLEAN :
          /\ command[t].kind = "project" => p \notin command[t].grants /\ ~chosen
          /\ command' = [command EXCEPT ![t].grants = GrantsAfter(command[t], p), ![t].worker = chosen,
                                        ![t].step = "reading"]
          /\ approved' = approved \cup {p}
  /\ UNCHANGED <<setupFiles, bundle, running, seenReady, overtaken, commandsRun, lapses>>

\* apply_env_updates(): the bytes that the keys are changed in, and that are backed up.
ReadConfig(t) ==
  /\ Doing(t, "reading")
  /\ command' = [command EXCEPT ![t].before = config, ![t].step = "writing"]
  /\ UNCHANGED <<setupFiles, bundle, running, approved, seenReady, overtaken, commandsRun, lapses>>

\* render_env_updates(): the keys that the command sets, in the bytes that it read.
RenderEnvUpdates(c) ==
  [granted |-> IF c.kind = "worker" THEN c.before.granted ELSE c.grants,
   worker  |-> c.before.worker \/ c.worker]

\* Unchanged bytes are neither copied nor written; the first file has no copy.
WriteConfig(t) ==
  /\ Doing(t, "writing")
  /\ LET after == RenderEnvUpdates(command[t])
     IN IF after = command[t].before THEN UNCHANGED <<config, copies>>
        ELSE copies' = copies \cup {command[t].before} /\ config' = after
  /\ IF command[t].kind = "project" THEN EndCommand(t)
     ELSE command' = [command EXCEPT ![t].grants = {}, ![t].before = AtPrompt.before,
                                     ![t].step = "loading"]
  /\ UNCHANGED <<record, bundle, running, approved, seenReady, overtaken, commandsRun, lapses>>

\* The record is loaded again before it is changed.
LoadRecord(t) ==
  /\ Doing(t, "loading")
  /\ command' = [command EXCEPT ![t].held = record, ![t].step = "saving"]
  /\ UNCHANGED <<setupFiles, bundle, running, approved, seenReady, overtaken, commandsRun, lapses>>

FaultyUpdatedRecord(c) ==
  IF c.id # Unset /\ c.runtime = "bridge"
  THEN [c.held EXCEPT !.phases = {"bridge"}, !.bridge = c.id]
  ELSE IF c.id # Unset THEN [c.held EXCEPT !.phases = @ \cup {"tunnel"}, !.read = c.id]
  ELSE [c.held EXCEPT !.phases = @ \cup {"gitlab"}]

\* persist_tunnel_state(), persist_bridge_state(), _persist_progress(), worker use.
UpdatedRecord(c) ==
  IF c.id # Unset /\ c.runtime = "bridge"
  THEN [c.held EXCEPT !.phases = @ \cup {"bridge"}, !.bridge = c.id]
  ELSE IF c.id # Unset THEN [c.held EXCEPT !.phases = @ \cup {"tunnel"}, !.read = c.id]
  ELSE [c.held EXCEPT !.phases = @ \cup {ph \in {"gitlab", "worker"} :
          IF ph = "gitlab" THEN c.kind = "setup" ELSE c.worker}]

\* Where a guided setup and a repair go after they recorded something.
SaveRecord(t) ==
  /\ Doing(t, "saving")
  /\ record' = UpdatedRecord(command[t])
  /\ LET c == command[t]
         goOn(step) == command' = [command EXCEPT ![t].held = NewRecord, ![t].worker = FALSE,
                                                  ![t].step = step]
     IN CASE c.kind = "setup" /\ c.id = Unset -> goOn("readTunnel")
          [] c.kind = "setup" /\ c.id # Unset /\ c.runtime = "read" -> goOn("bridgeTunnel")
          [] c.kind = "repair" /\ c.runtime = "read" ->
               command' = [command EXCEPT ![t].held = NewRecord, ![t].step = "reloading",
                                          ![t].resume = "repairBridge"]
          [] OTHER -> EndCommand(t)
  /\ UNCHANGED <<config, copies, bundle, running, approved, seenReady, overtaken, commandsRun, lapses>>

\* install_official_tunnel_client(): an archive that is not the one of the checksum
\* file, a binary that does not run or an interrupted download ends the command; a
\* bundle appears under its name only after both checks, in one rename.  Then the path
\* is recorded: the record is loaded, and saved with the path.
InstallClient(t) ==
  /\ command[t].step \in {"readTunnel", "bridgeTunnel", "repairRead"}
  /\ bundle = "absent"
  /\ \/ /\ bundle' = "verified"
        /\ command' = [command EXCEPT ![t].resume = command[t].step, ![t].step = "installed"]
     \/ EndCommand(t) /\ UNCHANGED bundle
  /\ UNCHANGED <<setupFiles, running, approved, seenReady, overtaken, commandsRun, lapses>>

LoadForPath(t) ==
  /\ Doing(t, "installed")
  /\ command' = [command EXCEPT ![t].held = record, ![t].step = "keepingPath"]
  /\ UNCHANGED <<setupFiles, bundle, running, approved, seenReady, overtaken, commandsRun, lapses>>

SavePath(t) ==
  /\ Doing(t, "keepingPath")
  /\ record' = command[t].held
  /\ command' = [command EXCEPT ![t].held = NewRecord,
       ![t].resume = IF command[t].kind = "repair" THEN @ ELSE "idle",
       ![t].step = IF command[t].kind = "repair" THEN "reloading" ELSE command[t].resume]
  /\ UNCHANGED <<config, copies, bundle, running, approved, seenReady, overtaken, commandsRun, lapses>>

\* The read tunnel of a connect or a guided setup: the recorded id or another one;
\* a guided setup reuses a recorded runtime that is ready.
ChooseReadTunnel(t) ==
  /\ Doing(t, "readTunnel") /\ bundle # "absent"
  /\ \/ /\ command[t].kind = "setup" /\ record.read # Unset /\ "tunnel" \in record.phases
        /\ running["read"].ready
        /\ Proceed(t, "bridgeTunnel")
     \/ \E id \in Tunnels :
          command' = [command EXCEPT ![t].runtime = "read", ![t].id = id,
                                     ![t].step = "connecting"]
     \/ EndCommand(t)
  /\ UNCHANGED <<setupFiles, bundle, running, approved, seenReady, overtaken, commandsRun, lapses>>

\* connect_bridge_runtime(): the Bridge does not share the read tunnel.
BridgeIds(seen) == Tunnels \ {seen.read}

\* The Bridge needs a recorded read tunnel, the user's acknowledgement, its own tools
\* and an id other than the one recorded for reading: in the record as a guided setup
\* finds it now, and as "bridge connect" found it when it began.
ChooseBridgeTunnel(t) ==
  /\ Doing(t, "bridgeTunnel") /\ bundle # "absent"
  /\ \/ LET seen == IF command[t].kind = "setup" THEN record ELSE command[t].saw
        IN \E id \in BridgeIds(seen) :
             /\ seen.read # Unset /\ "tunnel" \in seen.phases
             /\ command' = [command EXCEPT ![t].runtime = "bridge", ![t].id = id,
                                           ![t].saw = NewRecord, ![t].step = "connecting"]
     \/ EndCommand(t)
  /\ UNCHANGED <<setupFiles, bundle, running, approved, seenReady, overtaken, commandsRun, lapses>>

\* connect_runtime(): tunnel-client replaces what the alias ran.
ConnectRuntime(t) ==
  /\ Doing(t, "connecting")
  /\ \/ /\ running' = [running EXCEPT ![command[t].runtime] =
             [tunnel |-> command[t].id, ready |-> FALSE]]
        /\ overtaken' = overtaken \cup
             {<<command[u].runtime, command[u].id>> : u \in {v \in Terminals :
                Doing(v, "awaiting") /\ command[v].runtime = command[t].runtime}}
        /\ Proceed(t, "awaiting")
     \/ EndCommand(t) /\ UNCHANGED <<running, overtaken>>
  /\ UNCHANGED <<setupFiles, bundle, approved, seenReady, commandsRun, lapses>>

FaultyAwaitReady(t) ==
  /\ Doing(t, "awaiting")
  /\ Proceed(t, "loading")
  /\ UNCHANGED <<setupFiles, bundle, running, approved, seenReady, overtaken, commandsRun, lapses>>

\* It polls the alias until it is ready or 30 seconds have passed.
AwaitReady(t) ==
  /\ Doing(t, "awaiting")
  /\ LET r == command[t].runtime
     IN \/ /\ running[r].ready
           /\ Proceed(t, "loading")
           /\ seenReady' = seenReady \cup {<<r, running[r].tunnel>>}
        \/ EndCommand(t) /\ UNCHANGED seenReady
  /\ UNCHANGED <<setupFiles, bundle, running, approved, overtaken, commandsRun, lapses>>

\* A repair goes by the record as it is after its own saves.
ReloadRecord(t) ==
  /\ Doing(t, "reloading")
  /\ command' = [command EXCEPT ![t].saw = record, ![t].resume = "idle",
                                ![t].step = command[t].resume]
  /\ UNCHANGED <<setupFiles, bundle, running, approved, seenReady, overtaken, commandsRun, lapses>>

\* _run_setup_repair(): the recorded read tunnel first.
RepairRead(t) ==
  /\ Doing(t, "repairRead") /\ bundle # "absent"
  /\ \/ /\ command[t].saw.read # Unset
        /\ IF running["read"].ready THEN Proceed(t, "repairBridge")
           ELSE command' = [command EXCEPT ![t].runtime = "read", ![t].id = command[t].saw.read,
                                           ![t].step = "connecting"]
     \/ EndCommand(t)
  /\ UNCHANGED <<setupFiles, bundle, running, approved, seenReady, overtaken, commandsRun, lapses>>

\* The recorded Bridge only once the read tunnel is ready.
RepairBridge(t) ==
  /\ Doing(t, "repairBridge")
  /\ LET saw == command[t].saw
     IN IF saw.bridge # Unset /\ saw.bridge # saw.read /\ ~running["bridge"].ready
        THEN command' = [command EXCEPT ![t].runtime = "bridge", ![t].id = saw.bridge,
                                        ![t].saw = NewRecord, ![t].step = "connecting"]
        ELSE EndCommand(t)
  /\ UNCHANGED <<setupFiles, bundle, running, approved, seenReady, overtaken, commandsRun, lapses>>

Interrupted(t) ==
  /\ ~Doing(t, "idle")
  /\ EndCommand(t)
  /\ UNCHANGED <<setupFiles, bundle, running, approved, seenReady, overtaken, commandsRun, lapses>>

\* External: tunnel-client gets a runtime ready, and one stops being ready.
RuntimeReady(r) ==
  /\ running[r].tunnel # Unset /\ ~running[r].ready
  /\ running' = [running EXCEPT ![r].ready = TRUE]
  /\ UNCHANGED <<setupFiles, bundle, command, approved, seenReady, overtaken, commandsRun, lapses>>

RuntimeLapses(r) ==
  /\ running[r].ready /\ lapses < LapseBound
  /\ lapses' = lapses + 1
  /\ running' = [running EXCEPT ![r].ready = FALSE]
  /\ UNCHANGED <<setupFiles, bundle, command, approved, seenReady, overtaken, commandsRun>>

CommandStep(t) ==
  \/ Preflight(t) \/ ReadConfig(t) \/ WriteConfig(t) \/ LoadRecord(t) \/ SaveRecord(t)
  \/ InstallClient(t) \/ ChooseReadTunnel(t) \/ ChooseBridgeTunnel(t)
  \/ LoadForPath(t) \/ SavePath(t) \/ ReloadRecord(t)
  \/ ConnectRuntime(t) \/ AwaitReady(t) \/ RepairRead(t) \/ RepairBridge(t)

SetupNext ==
  \/ \E t \in Terminals : \/ \E kind \in Commandline : Run(t, kind)
                          \/ CommandStep(t)
                          \/ Interrupted(t)
  \/ \E r \in Runtimes : RuntimeReady(r) \/ RuntimeLapses(r)

SetupSpec == SetupInit /\ [][SetupNext]_setupVars

(***************************************************************************)
(* Properties.                                                             *)
(***************************************************************************)
SetupTypeOK ==
  /\ config.granted \subseteq Projects
  /\ record.phases \subseteq {"gitlab", "worker", "tunnel", "bridge"}
  /\ record.read \in Tunnels \cup {Unset} /\ record.bridge \in Tunnels \cup {Unset}
  /\ bundle \in {"absent", "verified"}
  /\ \A r \in Runtimes : running[r].tunnel \in Tunnels \cup {Unset}

\* However the commands overlap, the allowlist in force and every copy that could be
\* put back grant only what passed a preflight and was approved.
GrantsReviewed == \A c \in copies \cup {config} : c.granted \subseteq approved

\* A tunnel id in the record was seen ready under its alias, unless another command
\* took the alias over while that one waited: a wait looks at the alias only.
RecordedWasReady ==
  \A r \in Runtimes : LET id == RecordedId(record, r)
                      IN id # Unset => <<r, id>> \in seenReady \cup overtaken

\* What a command leaves behind, finished or interrupted, beside another one or not: an
\* allowlist and backups that grant only what was reviewed, and recorded tunnels that
\* were ready.
SetupSound == GrantsReviewed /\ RecordedWasReady

\* A save loses a phase only when the record changed under the command that saves.
PhasesKept ==
  [][record.phases \subseteq record'.phases
       \/ \E t \in Terminals : /\ command[t].step \in {"saving", "keepingPath"}
                               /\ command[t].held # record]_setupVars

\* "it only uses tunnel IDs already persisted": what a repair connects was recorded,
\* and so was seen ready, before; and no client runs that was not verified.
RepairOnlyRecorded ==
  [][\A r \in Runtimes : running'[r].tunnel # running[r].tunnel =>
       /\ bundle = "verified"
       /\ \E t \in Terminals :
            /\ Doing(t, "connecting")
            /\ command[t].kind = "repair" =>
                 <<r, running'[r].tunnel>> \in seenReady \cup overtaken]_setupVars

=============================================================================
