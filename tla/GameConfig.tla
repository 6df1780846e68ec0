----------------------------- MODULE GameConfig ------------------------------
(* The tools that keep the game's configuration: Engine.ini                 *)
(* (palworld-engine-config) or PalWorldSettings.ini                         *)
(* (palworld-config-apply-env), beside the game, which reads the file when  *)
(* it starts and writes it from its memory when it exits.  jobd saves the   *)
(* settings an operator asks for and runs the tools, one job at a time; an  *)
(* operator may run a tool from a shell at any time.  The two files share   *)
(* nothing, so a behaviour is about one of them.                            *)
EXTENDS Naturals

CONSTANTS
  Setting,   \* what can be set
  Value,     \* what it can be set to
  Base,      \* settings.env: the first pass of the config tool
  MaxJobs, MaxShell, MaxFaults  \* bounds: jobs, shell commands, faults

Default == "default" \* the game's own value of a setting
NoText == [s \in {} |-> Default]  \* nothing set, no file, no game
Partial == UNION {[S -> Value] : S \in SUBSET Setting}
\* What is set in text, and what below says of the rest.
Over(text, below) ==
  [s \in DOMAIN text \cup DOMAIN below |-> IF s \in DOMAIN text THEN text[s] ELSE below[s]]
Empty == [s \in Setting |-> "cut"]  \* a file that was cut short

ASSUME BaseAssumption == Base \in Partial
ASSUME SettingAssumption == Setting # {} /\ Value \cap {Default, "cut"} = {}
ASSUME BoundAssumption == MaxJobs \in Nat /\ MaxShell \in Nat /\ MaxFaults \in Nat

Actor == {"job", "shell"}

VARIABLES
  kind,     \* which file: "engine" or "config"
  ini,      \* the live file
  mem,      \* what the running game works with; NoText while it is down
  want,     \* whether the supervisor keeps the game up
  saved,    \* engine.env, or settings-overrides.env
  backups,  \* the contents that have a backup
  recent,   \* the backup of this second, whose name a copy takes again
  act,      \* what jobd and the shell are doing
  jobs, shells, faults,  \* counters for the bounds
  asked,    \* history: all that was asked for in saves
  sticks,   \* history: asked was applied, and nothing undid it since
  gone      \* history: contents a tool has overwritten

live == <<ini, mem, want>>
kept == <<backups, recent>>
hist == <<asked, sticks, gone>>
counters == <<jobs, shells, faults>>
vars == <<kind, live, saved, kept, act, counters, hist>>

\* What a tool does: op, the step it is at, what it read, what it will set,
\* whether the apply has failed, whether the stop before it ran out of time, and
\* whether another hand was on the file since it read or wrote it.
Idle == [op |-> "idle", at |-> "idle", seen |-> Empty, set |-> NoText,
         failed |-> FALSE, late |-> FALSE, clash |-> FALSE]

Kept == backups \cup ({recent} \ {NoText})
Settings(text) == IF text = Empty THEN [s \in Setting |-> Default] ELSE text
Up == mem # NoText

Init ==
  /\ kind \in {"engine", "config"}
  /\ ini = Settings(Empty) /\ mem = ini /\ want = TRUE
  /\ saved = NoText /\ backups = {} /\ recent = NoText
  /\ act = [a \in Actor |-> Idle]
  /\ jobs = 0 /\ shells = 0 /\ faults = 0
  /\ asked = NoText /\ sticks = FALSE /\ gone = {}

-----------------------------------------------------------------------------
Goes(a, at) == act' = [act EXCEPT ![a].at = at]
Done(a) == act' = [act EXCEPT ![a] = Idle]
\* Another hand changes the file that the actors in A are at work on.
Clashing(A) ==
  [a \in Actor |-> IF a \in A /\ act[a] # Idle THEN [act[a] EXCEPT !.clash = TRUE] ELSE act[a]]
\* What is overwritten after it was copied; the first pass has a copy of its own.
Overwrites(a) ==
  gone' = IF act[a].clash \/ act[a].at = "pass2" \/ ini \in {ini', Empty} THEN gone
          ELSE gone \cup {ini}
\* The restart script starts the server whatever became of the apply.
Then(a) == IF act[a].op = "restart" THEN "start" ELSE "end"

-----------------------------------------------------------------------------
(* What jobd and a shell begin.                                             *)

\* write_engine_env, write_settings_overrides.
Merged(set) == Over(set, saved)

Save ==
  /\ act["job"] = Idle /\ jobs < MaxJobs /\ jobs' = jobs + 1
  /\ \E set \in Partial :
       set # NoText /\ saved' = Merged(set) /\ asked' = Over(set, asked)
  /\ sticks' = FALSE
  \* engine_save_apply_restart goes on with the restart
  /\ \/ act' = Clashing({"shell"})
     \/ act' = [Clashing({"shell"}) EXCEPT !["job"] = [Idle EXCEPT !.op = "restart", !.at = "stop"]]
  /\ UNCHANGED <<kind, live, kept, shells, faults, gone>>

\* config_apply and engine_apply take no lifecycle lock.
Apply(a) ==
  /\ act[a] = Idle
  /\ IF a = "job" THEN jobs < MaxJobs /\ jobs' = jobs + 1 /\ UNCHANGED shells
                  ELSE shells < MaxShell /\ shells' = shells + 1 /\ UNCHANGED jobs
  /\ act' = [act EXCEPT ![a] = [Idle EXCEPT !.op = "apply", !.at = "read"]]
  /\ UNCHANGED <<kind, live, saved, kept, faults, hist>>

Rollback ==
  /\ kind = "engine" /\ act["job"] = Idle /\ jobs < MaxJobs /\ jobs' = jobs + 1
  /\ \E b \in Kept :
       act' = [act EXCEPT !["job"] = [Idle EXCEPT !.op = "rollback", !.at = "read", !.seen = b]]
  /\ UNCHANGED <<kind, live, saved, kept, shells, faults, hist>>

-----------------------------------------------------------------------------
(* The restart script, and the supervisor.                                  *)

Stop(a) ==
  /\ act[a].at = "stop" /\ want' = FALSE /\ Goes(a, "wait")
  /\ UNCHANGED <<kind, ini, mem, saved, kept, counters, hist>>

\* s6-svc -wD waits until the service is down, or its time is over, which makes
\* no difference to what the script does next or reports (`|| true`).
\* Mutant: the stop is not waited for.
Told == ~want
IsDown == ~Up
Waits(a) ==
  /\ act[a].at = "wait"
  /\ \/ IsDown /\ Goes(a, "read") /\ UNCHANGED faults
     \/ /\ Up /\ faults < MaxFaults /\ faults' = faults + 1
        /\ act' = [act EXCEPT ![a].at = "read", ![a].late = TRUE]
  /\ UNCHANGED <<kind, live, saved, kept, jobs, shells, hist>>

\* The restart reports what the apply reported.  It says nothing of a stop that
\* ran out of time, of a tool that wrote after its own, or of one that is still to
\* write what was saved earlier: after these nothing is demanded.
Undisturbed(a) ==
  /\ ~act[a].late /\ ~act[a].clash
  /\ \A b \in Actor : act[b].at = "write" => act[b].set = saved
Starts(a) ==
  /\ act[a].at = "start" /\ want' = TRUE /\ Done(a)
  /\ sticks' = (~act[a].failed /\ Undisturbed(a))
  /\ UNCHANGED <<kind, ini, mem, saved, kept, counters, asked, gone>>

Ends(a) ==
  /\ act[a].at = "end" /\ Done(a)
  /\ UNCHANGED <<kind, live, saved, kept, counters, hist>>

-----------------------------------------------------------------------------
(* The tools.                                                               *)

\* A step of a tool that cannot go on; the config tool is then between its passes
\* or has done neither.
ToolFails(a) ==
  /\ act[a].at \in {"read", "write", "pass1", "pass2"}
  /\ faults < MaxFaults /\ faults' = faults + 1
  /\ act' = [act EXCEPT ![a].at = Then(a), ![a].failed = TRUE]
  /\ sticks' = (sticks /\ act[a].at # "pass2")
  /\ UNCHANGED <<kind, live, saved, kept, jobs, shells, asked, gone>>

\* The current content is read and copied before anything is written; a rollback
\* has read the backup first.  An apply without settings does nothing.
\* Mutant: no copy is made.
NotCopied(text) == backups
Copied(text) == backups \cup {text}
EngineReads(a) ==
  /\ kind = "engine" /\ act[a].at = "read"
  /\ IF act[a].op # "rollback" /\ saved = NoText
     THEN Goes(a, Then(a)) /\ UNCHANGED backups
     ELSE /\ act' = [act EXCEPT ![a].at = "write", ![a].clash = FALSE, ![a].set = saved,
                       ![a].seen = IF act[a].op = "rollback" THEN @ ELSE ini]
          /\ backups' = Copied(ini)
  /\ UNCHANGED <<kind, live, saved, recent, counters, hist>>

\* The file is written in place, from what was read.
EngineWrites(a) ==
  /\ act[a].at = "write"
  /\ ini' = IF act[a].op = "rollback" THEN act[a].seen ELSE Over(act[a].set, Settings(act[a].seen))
  /\ Overwrites(a)
  /\ sticks' = (sticks /\ act[a].op # "rollback")
  /\ act' = [Clashing(Actor \ {a}) EXCEPT ![a].at = Then(a), ![a].clash = FALSE]
  /\ UNCHANGED <<kind, mem, want, saved, kept, counters, asked>>

\* cp -a to a name that has the second: a copy of the same second is replaced.
ConfigCopies(a) ==
  /\ kind = "config" /\ act[a].at = "read"
  /\ recent' = ini /\ gone' = gone \ ({recent} \ (backups \cup {ini}))
  /\ act' = [act EXCEPT ![a].at = "pass1", ![a].clash = FALSE, ![a].seen = ini]
  /\ UNCHANGED <<kind, live, saved, backups, counters, asked, sticks>>

\* The second passes.
Clock ==
  /\ recent # NoText /\ backups' = backups \cup {recent} /\ recent' = NoText
  /\ UNCHANGED <<kind, live, saved, act, counters, hist>>

\* palworld-config-parser, with settings.env and then with the overrides.  A
\* file that was cut short is refused.
Pass(text, at) == Over(IF at = "pass1" THEN Base ELSE saved, text)
ConfigWrites(a) ==
  /\ act[a].at \in {"pass1", "pass2"}
  /\ IF ini = Empty
     THEN /\ act' = [act EXCEPT ![a].at = Then(a), ![a].failed = TRUE]
          /\ UNCHANGED <<ini, gone>>
     ELSE /\ ini' = Pass(ini, act[a].at)
          /\ Overwrites(a)
          /\ act' = [Clashing(Actor \ {a}) EXCEPT
                       ![a].at = IF @ = "pass1" THEN "pass2" ELSE Then(a), ![a].clash = FALSE]
  /\ UNCHANGED <<kind, mem, want, saved, kept, counters, asked, sticks>>

\* A tool is killed, perhaps in the middle of its write.
ToolDies(a) ==
  /\ act[a].at \in {"read", "write", "pass1", "pass2"}
  /\ faults < MaxFaults /\ faults' = faults + 1
  /\ \/ /\ Done(a) /\ UNCHANGED <<ini, gone>>
        /\ sticks' = (sticks /\ act[a].at # "pass2")
     \/ /\ act[a].at # "read" /\ ini' = Empty /\ Overwrites(a)
        /\ act' = [Clashing(Actor) EXCEPT ![a] = Idle]
        /\ sticks' = FALSE
  /\ UNCHANGED <<kind, mem, want, saved, kept, jobs, shells, asked>>

-----------------------------------------------------------------------------
(* The game, and the other controllers.                                     *)

Locked == act["job"].op = "restart"

GameStarts ==
  /\ want /\ ~Up /\ act["job"].op # "boot"
  /\ mem' = Settings(ini)
  \* in between the passes it starts with what settings.env says
  /\ sticks' = (sticks /\ \A a \in Actor : act[a].at # "pass2")
  /\ UNCHANGED <<kind, ini, want, saved, kept, act, counters, asked, gone>>

\* A clean exit rewrites the file from memory; a crash does not.
GameExits ==
  /\ Up /\ mem' = NoText
  /\ \/ ini' = mem /\ act' = Clashing(Actor) /\ UNCHANGED faults
     \/ want /\ faults < MaxFaults /\ faults' = faults + 1 /\ UNCHANGED <<ini, act>>
  /\ UNCHANGED <<kind, want, saved, kept, jobs, shells, hist>>

\* An idle stop, a wake, a plain restart: under the lock the script has.
OtherController ==
  /\ ~Locked /\ act["job"].op # "boot" /\ want' = ~want
  /\ UNCHANGED <<kind, ini, mem, saved, kept, act, counters, hist>>

\* The container starts: an empty PalWorldSettings.ini is seeded, and the config
\* tool runs before the game may.
ContainerStarts ==
  /\ faults < MaxFaults /\ faults' = faults + 1
  /\ mem' = NoText /\ want' = TRUE
  /\ ini' = IF kind = "config" THEN Settings(ini) ELSE ini
  /\ act' = [[a \in Actor |-> Idle] EXCEPT
               !["job"] = IF kind = "config" THEN [Idle EXCEPT !.op = "boot", !.at = "read"] ELSE Idle]
  /\ sticks' = (sticks /\ \A a \in Actor : act[a].at # "pass2")
  /\ UNCHANGED <<kind, saved, kept, jobs, shells, asked, gone>>

-----------------------------------------------------------------------------
Next ==
  \/ Save \/ Rollback
  \/ \E a \in Actor :
       \/ Apply(a) \/ Stop(a) \/ Waits(a) \/ Starts(a) \/ Ends(a)
       \/ ToolFails(a) \/ EngineReads(a) \/ EngineWrites(a)
       \/ ConfigCopies(a) \/ ConfigWrites(a) \/ ToolDies(a)
  \/ Clock \/ GameStarts \/ GameExits \/ OtherController \/ ContainerStarts

Spec == Init /\ [][Next]_vars

-----------------------------------------------------------------------------
(* Properties.                                                              *)

\* What a save has asked for and its restart has applied is what the game runs with
\* from the start on, through exits, crashes, idle stops, wakes and container
\* starts, until a save or a rollback (palworld-graceful-restart).  Except: the
\* stop ran out of time, or another tool wrote between the apply and the start or
\* had yet to write what was saved earlier (the restart reports success all the
\* same, see Undisturbed); a later apply left a cut file, or ended between its
\* passes, or the game was started between them.  A value asked for in one save
\* stays when the next one does not name it.
SettingSticks ==
  sticks /\ Up => \A s \in DOMAIN asked : mem[s] = asked[s]

\* What a tool finds when it makes its copy and then overwrites can be rolled back
\* to, whatever was killed or failed since.  Not so what another hand wrote between
\* the copy and the write (`clash`), nor the first of two contents of
\* PalWorldSettings.ini that are copied within one second (see ConfigCopies).
NothingLost == gone \subseteq Kept
=============================================================================
