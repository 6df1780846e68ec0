-------------------------- MODULE GameConfigProofs ---------------------------
(* Theorems about GameConfig, for every set of settings and values, every   *)
(* settings.env, every bound and both files: what a tool copies and         *)
(* overwrites can be rolled back to, and what a restart has applied         *)
(* undisturbed stays in force.                                              *)
EXTENDS GameConfig, TLAPS

-----------------------------------------------------------------------------
(* The inductive invariant.                                                 *)

\* A file is whole, or was cut short; the game works with whole ones.
Whole == [Setting -> Value \cup {Default}]
Text == Whole \cup {Empty}
Step == {"idle", "stop", "wait", "read", "write", "pass1", "pass2", "start", "end"}
Doing == [op : {"idle", "apply", "restart", "rollback", "boot"}, at : Step,
          seen : Text, set : Partial, failed : BOOLEAN, late : BOOLEAN,
          clash : BOOLEAN]

Typed ==
  /\ kind \in {"engine", "config"}
  /\ ini \in Text /\ mem \in Whole \cup {NoText}
  /\ saved \in Partial /\ asked \in Partial
  /\ backups \subseteq Text /\ recent \in Text \cup {NoText} /\ gone \subseteq Text
  /\ act \in [Actor -> Doing]

\* Where the commands take which tool; only jobd restarts.
ToolInv ==
  \A a \in Actor :
    /\ kind = "config" => act[a].at # "write"
    /\ kind = "engine" => act[a].at \notin {"pass1", "pass2"} /\ act[a].op # "boot"
    /\ act[a].at \in {"stop", "wait", "start"} => act[a].op = "restart"
    /\ act[a].op = "restart" => a = "job" /\ act[a].at \notin {"idle", "end"}
    /\ act[a].op = "idle" => act[a].at = "idle"

\* A tool that is about to write has copied what it will overwrite, unless
\* another hand was on the file since.
CopyInv ==
  \A a \in Actor : act[a].at \in {"write", "pass1"} /\ ~act[a].clash => ini \in Kept

Has(text) == \A s \in DOMAIN asked : text[s] = asked[s]

\* What was asked for is saved; once applied it is in the file, or a second pass
\* is about to put it there, and the game works with it.
AppliedInv ==
  /\ DOMAIN asked \subseteq DOMAIN saved /\ Has(saved)
  /\ sticks => /\ ini # Empty
               /\ Has(ini) \/ \E a \in Actor : act[a].at = "pass2"
               /\ \A a \in Actor : act[a].at = "write" /\ act[a].op # "rollback" => act[a].set = saved
  /\ sticks /\ Up => Has(mem)

\* A restart on its way: the game stays down once it was seen down, and what was
\* saved is in the file when the tool is done.
RestartInv ==
  \A a \in Actor : act[a].op = "restart" =>
    /\ saved # NoText
    /\ act[a].at # "stop" => ~want
    /\ act[a].at \notin {"stop", "wait"} /\ ~act[a].late => ~Up
    /\ act[a].at = "write" => act[a].set = saved
    /\ act[a].at = "start" /\ ~act[a].failed /\ ~act[a].clash => ini # Empty /\ Has(ini)

IInv == Typed /\ ToolInv /\ CopyInv /\ NothingLost /\ AppliedInv /\ RestartInv

-----------------------------------------------------------------------------
(* Texts.                                                                   *)

\* A cut file is no whole one, and neither is no file.
LEMMA Texts == Empty \notin Whole /\ NoText \notin Text /\ NoText \in Partial
<1>1. PICK s \in Setting : TRUE
  BY SettingAssumption
<1>2. Empty[s] = "cut" /\ \A t \in Whole : t[s] \in Value \cup {Default}
  BY DEF Empty, Whole
<1>3. Empty \notin Whole
  BY <1>2, SettingAssumption DEF Default
<1>4. DOMAIN NoText = {} /\ \A t \in Text : DOMAIN t = Setting
  BY DEF NoText, Text, Whole, Empty
<1>5. NoText \in [{} -> Value]
  BY DEF NoText
<1> QED BY <1>1, <1>3, <1>4, <1>5 DEF Partial

\* What the game makes of a file.
LEMMA SettingsWhole == ASSUME NEW t \in Text PROVE Settings(t) \in Whole
BY DEF Settings, Text, Whole

\* Setting some of a file's values leaves a file, with those values.
LEMMA OverWhole ==
  ASSUME NEW p \in Partial, NEW t \in Whole
  PROVE  Over(p, t) \in Whole /\ \A s \in DOMAIN p : Over(p, t)[s] = p[s]
<1>1. PICK S \in SUBSET Setting : p \in [S -> Value]
  BY DEF Partial
<1>2. DOMAIN p = S /\ \A s \in S : p[s] \in Value
  BY <1>1
<1>3. DOMAIN t = Setting /\ \A s \in Setting : t[s] \in Value \cup {Default}
  BY DEF Whole
<1>4. DOMAIN p \cup DOMAIN t = Setting
  BY <1>2, <1>3
<1>5. Over(p, t) = [s \in Setting |-> IF s \in S THEN p[s] ELSE t[s]]
  BY <1>2, <1>4 DEF Over
<1> QED BY <1>2, <1>3, <1>5 DEF Whole

\* A save is merged with what was saved.
LEMMA OverPartial ==
  ASSUME NEW p \in Partial, NEW q \in Partial
  PROVE  /\ Over(p, q) \in Partial
         /\ DOMAIN Over(p, q) = DOMAIN p \cup DOMAIN q
         /\ \A s \in DOMAIN p \cup DOMAIN q :
              Over(p, q)[s] = IF s \in DOMAIN p THEN p[s] ELSE q[s]
         /\ p # NoText => Over(p, q) # NoText
<1>1. PICK S \in SUBSET Setting : p \in [S -> Value]
  BY DEF Partial
<1>2. PICK T \in SUBSET Setting : q \in [T -> Value]
  BY DEF Partial
<1>3. DOMAIN p = S /\ \A s \in S : p[s] \in Value
  BY <1>1
<1>4. DOMAIN q = T /\ \A s \in T : q[s] \in Value
  BY <1>2
<1>5. Over(p, q) = [s \in S \cup T |-> IF s \in S THEN p[s] ELSE q[s]]
  BY <1>3, <1>4 DEF Over
<1>6. Over(p, q) \in [S \cup T -> Value]
  BY <1>3, <1>4, <1>5
<1>7. Over(p, q) \in Partial
  BY <1>6 DEF Partial
<1>8. ASSUME p # NoText PROVE Over(p, q) # NoText
  <2>1. S # {}
    BY <1>1, <1>8 DEF NoText
  <2> QED BY <2>1, <1>5 DEF NoText
<1> QED BY <1>3, <1>4, <1>5, <1>7, <1>8

-----------------------------------------------------------------------------
(* What becomes of an actor.                                                *)

\* Another hand on the file changes nothing else of what is done.
LEMMA Clashes ==
  ASSUME Typed, NEW A
  PROVE  /\ Clashing(A) \in [Actor -> Doing]
         /\ \A a \in Actor : /\ Clashing(A)[a].op = act[a].op /\ Clashing(A)[a].at = act[a].at
                             /\ Clashing(A)[a].seen = act[a].seen /\ Clashing(A)[a].set = act[a].set
                             /\ Clashing(A)[a].failed = act[a].failed /\ Clashing(A)[a].late = act[a].late
                             /\ act[a].clash => Clashing(A)[a].clash
                             /\ a \in A /\ act[a] # Idle => Clashing(A)[a].clash
                             /\ a \notin A => Clashing(A)[a] = act[a]
BY DEF Clashing, Typed, Doing

\* What an actor that does nothing does.
LEMMA IdleDoing ==
  /\ Idle \in Doing /\ Idle.op = "idle" /\ Idle.at = "idle"
  /\ ~Idle.failed /\ ~Idle.late /\ ~Idle.clash
BY Texts DEF Idle, Doing, Text, Step

\* What can be rolled back to is a file.
LEMMA BackupText == Typed => Kept \subseteq Text
BY Texts DEF Typed, Kept

\* What stays of an actor when another hand was on the file.
Others(f, b) ==
  /\ f[b].op = act[b].op /\ f[b].at = act[b].at /\ f[b].seen = act[b].seen
  /\ f[b].set = act[b].set /\ f[b].failed = act[b].failed /\ f[b].late = act[b].late
  /\ act[b].clash => f[b].clash
  /\ act[b] # Idle => f[b].clash
Clashed(b) == Others(act', b)

\* A save, which may go on with a restart.
LEMMA SaveActs ==
  ASSUME Typed, Save
  PROVE  /\ act' \in [Actor -> Doing]
         /\ Clashed("shell")
         /\ act'["job"].at \in {"idle", "stop"}
         /\ act'["job"].op = IF act'["job"].at = "idle" THEN "idle" ELSE "restart"
<1> DEFINE new == [Idle EXCEPT !.op = "restart", !.at = "stop"]
<1>1. act' = Clashing({"shell"}) \/ act' = [Clashing({"shell"}) EXCEPT !["job"] = new]
  BY DEF Save
<1>2. new \in Doing /\ new.op = "restart" /\ new.at = "stop"
  BY IdleDoing DEF Doing, Step
<1>3. /\ Clashing({"shell"}) \in [Actor -> Doing] /\ Others(Clashing({"shell"}), "shell")
      /\ Clashing({"shell"})["job"] = act["job"]
  BY Clashes DEF Others, Actor
<1>4. act["job"] = Idle
  BY DEF Save
<1> HIDE DEF new
<1> QED BY <1>1, <1>2, <1>3, <1>4, IdleDoing DEF Clashed, Others, Actor

\* A rollback begins with the content it has read.
LEMMA RollbackActs ==
  ASSUME Typed, Rollback
  PROVE  /\ act' \in [Actor -> Doing]
         /\ act'["job"].op = "rollback" /\ act'["job"].at = "read"
         /\ act'["shell"] = act["shell"]
<1> DEFINE New(b) == [Idle EXCEPT !.op = "rollback", !.at = "read", !.seen = b]
<1>1. PICK b \in Kept : act' = [act EXCEPT !["job"] = New(b)]
  BY DEF Rollback
<1>2. New(b) \in Doing /\ New(b).op = "rollback" /\ New(b).at = "read"
  BY BackupText, IdleDoing DEF Doing, Step
<1> HIDE DEF New
<1> QED BY <1>1, <1>2 DEF Typed, Actor

\* An apply begins.
LEMMA ApplyActs ==
  ASSUME Typed, NEW a \in Actor, Apply(a)
  PROVE  /\ act' \in [Actor -> Doing]
         /\ act'[a].op = "apply" /\ act'[a].at = "read"
         /\ \A b \in Actor \ {a} : act'[b] = act[b]
<1> DEFINE new == [Idle EXCEPT !.op = "apply", !.at = "read"]
<1>1. act' = [act EXCEPT ![a] = new]
  BY DEF Apply, Done, Goes, Typed
<1>2. /\ new \in Doing
      /\ new.op = "apply" /\ new.at = "read"
  BY IdleDoing DEF Doing, Step, Then, Typed
<1> HIDE DEF new
<1> QED BY <1>1, <1>2 DEF Typed, Actor

\* The restart has told the game to stop.
LEMMA StopActs ==
  ASSUME Typed, NEW a \in Actor, Stop(a)
  PROVE  /\ act' \in [Actor -> Doing]
         /\ act'[a].op = act[a].op /\ act'[a].failed = act[a].failed /\ act'[a].late = act[a].late /\ act'[a].at = "wait"
         /\ \A b \in Actor \ {a} : act'[b] = act[b]
<1> DEFINE new == [act[a] EXCEPT !.at = "wait"]
<1>1. act' = [act EXCEPT ![a] = new]
  BY DEF Stop, Done, Goes, Typed
<1>2. /\ new \in Doing
      /\ new.op = act[a].op /\ new.failed = act[a].failed /\ new.late = act[a].late /\ new.at = "wait"
  BY IdleDoing DEF Doing, Step, Then, Typed
<1> HIDE DEF new
<1> QED BY <1>1, <1>2 DEF Typed, Actor

\* The wait is over, or its time is.
LEMMA WaitActs ==
  ASSUME Typed, NEW a \in Actor, Waits(a)
  PROVE  /\ act' \in [Actor -> Doing]
         /\ act'[a].op = act[a].op /\ act'[a].at = "read"
         /\ act'[a].failed = act[a].failed /\ act'[a].late = (act[a].late \/ Up)
         /\ \A b \in Actor \ {a} : act'[b] = act[b]
<1> DEFINE new == IF Up THEN [act[a] EXCEPT !.at = "read", !.late = TRUE]
                     ELSE [act[a] EXCEPT !.at = "read"]
<1>1. act' = [act EXCEPT ![a] = new]
  BY DEF Waits, IsDown, Done, Goes, Typed
<1>2. /\ new \in Doing
      /\ new.op = act[a].op /\ new.at = "read"
      /\ new.failed = act[a].failed /\ new.late = (act[a].late \/ Up)
  BY IdleDoing DEF Doing, Step, Then, Typed, Up
<1> HIDE DEF new
<1> QED BY <1>1, <1>2 DEF Typed, Actor

\* The restart is done.
LEMMA StartActs ==
  ASSUME Typed, NEW a \in Actor, Starts(a)
  PROVE  /\ act' \in [Actor -> Doing]
         /\ act'[a] = Idle
         /\ \A b \in Actor \ {a} : act'[b] = act[b]
<1> DEFINE new == Idle
<1>1. act' = [act EXCEPT ![a] = new]
  BY DEF Starts, Done, Goes, Typed
<1>2. /\ new \in Doing
      /\ new = Idle
  BY IdleDoing DEF Doing, Step, Then, Typed
<1> HIDE DEF new
<1> QED BY <1>1, <1>2 DEF Typed, Actor

\* A tool is done.
LEMMA EndActs ==
  ASSUME Typed, NEW a \in Actor, Ends(a)
  PROVE  /\ act' \in [Actor -> Doing]
         /\ act'[a] = Idle
         /\ \A b \in Actor \ {a} : act'[b] = act[b]
<1> DEFINE new == Idle
<1>1. act' = [act EXCEPT ![a] = new]
  BY DEF Ends, Done, Goes, Typed
<1>2. /\ new \in Doing
      /\ new = Idle
  BY IdleDoing DEF Doing, Step, Then, Typed
<1> HIDE DEF new
<1> QED BY <1>1, <1>2 DEF Typed, Actor

\* A tool that fails is done.
LEMMA FailActs ==
  ASSUME Typed, NEW a \in Actor, ToolFails(a)
  PROVE  /\ act' \in [Actor -> Doing]
         /\ act'[a].op = act[a].op /\ act'[a].at = Then(a) /\ act'[a].failed /\ act'[a].late = act[a].late
         /\ \A b \in Actor \ {a} : act'[b] = act[b]
<1> DEFINE new == [act[a] EXCEPT !.at = Then(a), !.failed = TRUE]
<1>1. act' = [act EXCEPT ![a] = new]
  BY DEF ToolFails, Done, Goes, Typed
<1>2. /\ new \in Doing
      /\ new.op = act[a].op /\ new.at = Then(a) /\ new.failed /\ new.late = act[a].late
  BY IdleDoing DEF Doing, Step, Then, Typed
<1> HIDE DEF new
<1> QED BY <1>1, <1>2 DEF Typed, Actor

\* The engine tool has nothing to set.
LEMMA NoReadActs ==
  ASSUME Typed, NEW a \in Actor, EngineReads(a),
         act[a].op # "rollback", saved = NoText
  PROVE  /\ act' \in [Actor -> Doing]
         /\ act'[a].op = act[a].op /\ act'[a].failed = act[a].failed /\ act'[a].late = act[a].late /\ act'[a].at = Then(a)
         /\ \A b \in Actor \ {a} : act'[b] = act[b]
<1> DEFINE new == [act[a] EXCEPT !.at = Then(a)]
<1>1. act' = [act EXCEPT ![a] = new]
  BY DEF EngineReads, Done, Goes, Typed
<1>2. /\ new \in Doing
      /\ new.op = act[a].op /\ new.failed = act[a].failed /\ new.late = act[a].late /\ new.at = Then(a)
  BY IdleDoing DEF Doing, Step, Then, Typed
<1> HIDE DEF new
<1> QED BY <1>1, <1>2 DEF Typed, Actor

\* The engine tool takes the settings and the file.
LEMMA ReadActs ==
  ASSUME Typed, NEW a \in Actor, EngineReads(a),
         ~(act[a].op # "rollback" /\ saved = NoText)
  PROVE  /\ act' \in [Actor -> Doing]
         /\ act'[a].op = act[a].op /\ act'[a].failed = act[a].failed /\ act'[a].late = act[a].late
         /\ act'[a].at = "write" /\ act'[a].set = saved
         /\ \A b \in Actor \ {a} : act'[b] = act[b]
<1> DEFINE new == [act[a] EXCEPT !.at = "write", !.clash = FALSE, !.set = saved,
                         !.seen = IF act[a].op = "rollback" THEN act[a].seen ELSE ini]
<1>1. act' = [act EXCEPT ![a] = new]
  BY DEF EngineReads, Done, Goes, Typed
<1>2. /\ new \in Doing
      /\ new.op = act[a].op /\ new.failed = act[a].failed /\ new.late = act[a].late
      /\ new.at = "write" /\ new.set = saved
  BY IdleDoing DEF Doing, Step, Then, Typed
<1> HIDE DEF new
<1> QED BY <1>1, <1>2 DEF Typed, Actor

\* The engine tool has written.
LEMMA WriteActs ==
  ASSUME Typed, NEW a \in Actor, EngineWrites(a)
  PROVE  /\ act' \in [Actor -> Doing]
         /\ act'[a].op = act[a].op /\ act'[a].failed = act[a].failed /\ act'[a].late = act[a].late /\ act'[a].at = Then(a)
         /\ \A b \in Actor \ {a} : Clashed(b)
<1> DEFINE new == [act[a] EXCEPT !.at = Then(a), !.clash = FALSE]
<1>0. /\ Clashing(Actor \ {a}) \in [Actor -> Doing] /\ Clashing(Actor \ {a})[a] = act[a]
      /\ \A b \in Actor \ {a} : Others(Clashing(Actor \ {a}), b)
  BY Clashes DEF Others
<1>1. act' = [Clashing(Actor \ {a}) EXCEPT ![a] = new]
  BY <1>0 DEF EngineWrites, Done, Goes, Typed
<1>2. /\ new \in Doing
      /\ new.op = act[a].op /\ new.failed = act[a].failed /\ new.late = act[a].late /\ new.at = Then(a)
  BY IdleDoing DEF Doing, Step, Then, Typed
<1> HIDE DEF new
<1> QED BY <1>1, <1>2, <1>0 DEF Typed, Actor, Others, Clashed

\* The config tool has made its copy.
LEMMA CopyActs ==
  ASSUME Typed, NEW a \in Actor, ConfigCopies(a)
  PROVE  /\ act' \in [Actor -> Doing]
         /\ act'[a].op = act[a].op /\ act'[a].failed = act[a].failed /\ act'[a].late = act[a].late /\ act'[a].at = "pass1"
         /\ \A b \in Actor \ {a} : act'[b] = act[b]
<1> DEFINE new == [act[a] EXCEPT !.at = "pass1", !.clash = FALSE, !.seen = ini]
<1>1. act' = [act EXCEPT ![a] = new]
  BY DEF ConfigCopies, Done, Goes, Typed
<1>2. /\ new \in Doing
      /\ new.op = act[a].op /\ new.failed = act[a].failed /\ new.late = act[a].late /\ new.at = "pass1"
  BY IdleDoing DEF Doing, Step, Then, Typed
<1> HIDE DEF new
<1> QED BY <1>1, <1>2 DEF Typed, Actor

\* The config tool has made a pass.
LEMMA PassActs ==
  ASSUME Typed, NEW a \in Actor, ConfigWrites(a),
         ini # Empty
  PROVE  /\ act' \in [Actor -> Doing]
         /\ act'[a].op = act[a].op /\ act'[a].failed = act[a].failed /\ act'[a].late = act[a].late
         /\ act'[a].at = IF act[a].at = "pass1" THEN "pass2" ELSE Then(a)
         /\ \A b \in Actor \ {a} : Clashed(b)
<1> DEFINE new == [act[a] EXCEPT !.at = IF act[a].at = "pass1" THEN "pass2" ELSE Then(a),
                             !.clash = FALSE]
<1>0. /\ Clashing(Actor \ {a}) \in [Actor -> Doing] /\ Clashing(Actor \ {a})[a] = act[a]
      /\ \A b \in Actor \ {a} : Others(Clashing(Actor \ {a}), b)
  BY Clashes DEF Others
<1>1. act' = [Clashing(Actor \ {a}) EXCEPT ![a] = new]
  BY <1>0 DEF ConfigWrites, Done, Goes, Typed
<1>2. /\ new \in Doing
      /\ new.op = act[a].op /\ new.failed = act[a].failed /\ new.late = act[a].late
      /\ new.at = IF act[a].at = "pass1" THEN "pass2" ELSE Then(a)
  BY IdleDoing DEF Doing, Step, Then, Typed
<1> HIDE DEF new
<1> QED BY <1>1, <1>2, <1>0 DEF Typed, Actor, Others, Clashed

\* The parser refuses a cut file.
LEMMA NoPassActs ==
  ASSUME Typed, NEW a \in Actor, ConfigWrites(a),
         ini = Empty
  PROVE  /\ act' \in [Actor -> Doing]
         /\ act'[a].op = act[a].op /\ act'[a].at = Then(a) /\ act'[a].failed /\ act'[a].late = act[a].late
         /\ \A b \in Actor \ {a} : act'[b] = act[b]
<1> DEFINE new == [act[a] EXCEPT !.at = Then(a), !.failed = TRUE]
<1>1. act' = [act EXCEPT ![a] = new]
  BY DEF ConfigWrites, Done, Goes, Typed
<1>2. /\ new \in Doing
      /\ new.op = act[a].op /\ new.at = Then(a) /\ new.failed /\ new.late = act[a].late
  BY IdleDoing DEF Doing, Step, Then, Typed
<1> HIDE DEF new
<1> QED BY <1>1, <1>2 DEF Typed, Actor

\* A killed tool leaves its actor with nothing to do.
LEMMA DieActs ==
  ASSUME Typed, NEW a \in Actor, ToolDies(a)
  PROVE  /\ act' \in [Actor -> Doing] /\ act'[a] = Idle
         /\ \A b \in Actor \ {a} : \/ ini' = ini /\ act'[b] = act[b]
                                   \/ Clashed(b)
<1>1. /\ Clashing(Actor) \in [Actor -> Doing]
      /\ \A b \in Actor \ {a} : Others(Clashing(Actor), b)
  BY Clashes DEF Others
<1>2. CASE Done(a) /\ UNCHANGED <<ini, gone>>
  BY <1>2, IdleDoing DEF Done, Typed
<1>3. CASE act' = [Clashing(Actor) EXCEPT ![a] = Idle]
  BY <1>3, <1>1, IdleDoing DEF Clashed, Others
<1> QED BY <1>2, <1>3 DEF ToolDies

\* The game's exit may rewrite the file.
LEMMA ExitActs ==
  ASSUME Typed, GameExits
  PROVE  /\ act' \in [Actor -> Doing]
         /\ \A b \in Actor : Clashed(b) \/ (ini' = ini /\ act'[b] = act[b])
<1>1. /\ Clashing(Actor) \in [Actor -> Doing]
      /\ \A b \in Actor : Others(Clashing(Actor), b)
  BY Clashes DEF Others
<1> QED BY <1>1 DEF GameExits, Clashed, Others, Typed

\* The config tool runs before anything else in a container.
LEMMA BootActs ==
  ASSUME Typed, ContainerStarts
  PROVE  /\ act' \in [Actor -> Doing] /\ act'["shell"] = Idle
         /\ act'["job"].op \in {"idle", "boot"}
         /\ act'["job"].at = IF act'["job"].op = "boot" THEN "read" ELSE "idle"
         /\ kind = "engine" => act'["job"].op = "idle"
<1> DEFINE new == IF kind = "config" THEN [Idle EXCEPT !.op = "boot", !.at = "read"] ELSE Idle
<1>1. act' = [[a \in Actor |-> Idle] EXCEPT !["job"] = new]
  BY DEF ContainerStarts
<1>2. new \in Doing /\ new.op \in {"idle", "boot"} /\ new.at = IF new.op = "boot" THEN "read" ELSE "idle"
  BY IdleDoing DEF Doing, Step
<1>3. kind = "engine" => new.op = "idle"
  BY IdleDoing
<1> HIDE DEF new
<1> QED BY <1>1, <1>2, <1>3, IdleDoing DEF Actor

-----------------------------------------------------------------------------
(* One step.                                                                *)

\* Every step preserves the types.
LEMMA NextTyped == Typed /\ [Next]_vars => Typed'
<1> SUFFICES ASSUME Typed, [Next]_vars PROVE Typed'
  OBVIOUS
<1> USE DEF Typed, vars, live, kept, hist, counters, Goes, Done, Then
<1>1. ASSUME Save PROVE Typed'
  <2>1. act' \in [Actor -> Doing]
    BY <1>1, SaveActs
  <2>2. ini' \in Text /\ mem' \in Whole \cup {NoText}
    BY <1>1, Texts, SettingsWhole, OverWhole, BaseAssumption DEF Save, Merged, Text, Doing, Up
  <2>3. saved' \in Partial /\ asked' \in Partial
    BY <1>1, OverPartial DEF Save, Merged
  <2>4. backups' \subseteq Text /\ recent' \in Text \cup {NoText} /\ gone' \subseteq Text
    BY <1>1, Texts, BackupText DEF Save, Merged
  <2> QED BY <1>1, <2>1, <2>2, <2>3, <2>4 DEF Save, Merged
<1>2. ASSUME Rollback PROVE Typed'
  <2>1. act' \in [Actor -> Doing]
    BY <1>2, RollbackActs
  <2>2. ini' \in Text /\ mem' \in Whole \cup {NoText}
    BY <1>2, Texts, SettingsWhole, OverWhole, BaseAssumption DEF Rollback, Text, Doing, Up
  <2>3. saved' \in Partial /\ asked' \in Partial
    BY <1>2, OverPartial DEF Rollback
  <2>4. backups' \subseteq Text /\ recent' \in Text \cup {NoText} /\ gone' \subseteq Text
    BY <1>2, Texts, BackupText DEF Rollback
  <2> QED BY <1>2, <2>1, <2>2, <2>3, <2>4 DEF Rollback
<1>3. ASSUME NEW a \in Actor, Apply(a) PROVE Typed'
  <2>1. act' \in [Actor -> Doing]
    BY <1>3, ApplyActs
  <2>2. ini' \in Text /\ mem' \in Whole \cup {NoText}
    BY <1>3, Texts, SettingsWhole, OverWhole, BaseAssumption DEF Apply, Text, Doing, Up
  <2>3. saved' \in Partial /\ asked' \in Partial
    BY <1>3, OverPartial DEF Apply
  <2>4. backups' \subseteq Text /\ recent' \in Text \cup {NoText} /\ gone' \subseteq Text
    BY <1>3, Texts, BackupText DEF Apply
  <2> QED BY <1>3, <2>1, <2>2, <2>3, <2>4 DEF Apply
<1>4. ASSUME NEW a \in Actor, Stop(a) PROVE Typed'
  <2>1. act' \in [Actor -> Doing]
    BY <1>4, StopActs
  <2>2. ini' \in Text /\ mem' \in Whole \cup {NoText}
    BY <1>4, Texts, SettingsWhole, OverWhole, BaseAssumption DEF Stop, Text, Doing, Up
  <2>3. saved' \in Partial /\ asked' \in Partial
    BY <1>4, OverPartial DEF Stop
  <2>4. backups' \subseteq Text /\ recent' \in Text \cup {NoText} /\ gone' \subseteq Text
    BY <1>4, Texts, BackupText DEF Stop
  <2> QED BY <1>4, <2>1, <2>2, <2>3, <2>4 DEF Stop
<1>5. ASSUME NEW a \in Actor, Waits(a) PROVE Typed'
  <2>1. act' \in [Actor -> Doing]
    BY <1>5, WaitActs
  <2>2. ini' \in Text /\ mem' \in Whole \cup {NoText}
    BY <1>5, Texts, SettingsWhole, OverWhole, BaseAssumption DEF Waits, IsDown, Text, Doing, Up
  <2>3. saved' \in Partial /\ asked' \in Partial
    BY <1>5, OverPartial DEF Waits, IsDown
  <2>4. backups' \subseteq Text /\ recent' \in Text \cup {NoText} /\ gone' \subseteq Text
    BY <1>5, Texts, BackupText DEF Waits, IsDown
  <2> QED BY <1>5, <2>1, <2>2, <2>3, <2>4 DEF Waits, IsDown
<1>6. ASSUME NEW a \in Actor, Starts(a) PROVE Typed'
  <2>1. act' \in [Actor -> Doing]
    BY <1>6, StartActs
  <2>2. ini' \in Text /\ mem' \in Whole \cup {NoText}
    BY <1>6, Texts, SettingsWhole, OverWhole, BaseAssumption DEF Starts, Text, Doing, Up
  <2>3. saved' \in Partial /\ asked' \in Partial
    BY <1>6, OverPartial DEF Starts
  <2>4. backups' \subseteq Text /\ recent' \in Text \cup {NoText} /\ gone' \subseteq Text
    BY <1>6, Texts, BackupText DEF Starts
  <2> QED BY <1>6, <2>1, <2>2, <2>3, <2>4 DEF Starts
<1>7. ASSUME NEW a \in Actor, Ends(a) PROVE Typed'
  <2>1. act' \in [Actor -> Doing]
    BY <1>7, EndActs
  <2>2. ini' \in Text /\ mem' \in Whole \cup {NoText}
    BY <1>7, Texts, SettingsWhole, OverWhole, BaseAssumption DEF Ends, Text, Doing, Up
  <2>3. saved' \in Partial /\ asked' \in Partial
    BY <1>7, OverPartial DEF Ends
  <2>4. backups' \subseteq Text /\ recent' \in Text \cup {NoText} /\ gone' \subseteq Text
    BY <1>7, Texts, BackupText DEF Ends
  <2> QED BY <1>7, <2>1, <2>2, <2>3, <2>4 DEF Ends
<1>8. ASSUME NEW a \in Actor, ToolFails(a) PROVE Typed'
  <2>1. act' \in [Actor -> Doing]
    BY <1>8, FailActs
  <2>2. ini' \in Text /\ mem' \in Whole \cup {NoText}
    BY <1>8, Texts, SettingsWhole, OverWhole, BaseAssumption DEF ToolFails, Text, Doing, Up
  <2>3. saved' \in Partial /\ asked' \in Partial
    BY <1>8, OverPartial DEF ToolFails
  <2>4. backups' \subseteq Text /\ recent' \in Text \cup {NoText} /\ gone' \subseteq Text
    BY <1>8, Texts, BackupText DEF ToolFails
  <2> QED BY <1>8, <2>1, <2>2, <2>3, <2>4 DEF ToolFails
<1>9. ASSUME NEW a \in Actor, EngineReads(a) PROVE Typed'
  <2>1. act' \in [Actor -> Doing]
    BY <1>9, ReadActs, NoReadActs
  <2>2. ini' \in Text /\ mem' \in Whole \cup {NoText}
    BY <1>9, Texts, SettingsWhole, OverWhole, BaseAssumption DEF EngineReads, Copied, Text, Doing, Up
  <2>3. saved' \in Partial /\ asked' \in Partial
    BY <1>9, OverPartial DEF EngineReads, Copied
  <2>4. backups' \subseteq Text /\ recent' \in Text \cup {NoText} /\ gone' \subseteq Text
    BY <1>9, Texts, BackupText DEF EngineReads, Copied
  <2> QED BY <1>9, <2>1, <2>2, <2>3, <2>4 DEF EngineReads, Copied
<1>10. ASSUME NEW a \in Actor, EngineWrites(a) PROVE Typed'
  <2>1. act' \in [Actor -> Doing]
    BY <1>10, WriteActs
  <2>2. ini' \in Text /\ mem' \in Whole \cup {NoText}
    BY <1>10, Texts, SettingsWhole, OverWhole, BaseAssumption DEF EngineWrites, Overwrites, Text, Doing, Up
  <2>3. saved' \in Partial /\ asked' \in Partial
    BY <1>10, OverPartial DEF EngineWrites, Overwrites
  <2>4. backups' \subseteq Text /\ recent' \in Text \cup {NoText} /\ gone' \subseteq Text
    BY <1>10, Texts, BackupText DEF EngineWrites, Overwrites
  <2> QED BY <1>10, <2>1, <2>2, <2>3, <2>4 DEF EngineWrites, Overwrites
<1>11. ASSUME NEW a \in Actor, ConfigCopies(a) PROVE Typed'
  <2>1. act' \in [Actor -> Doing]
    BY <1>11, CopyActs
  <2>2. ini' \in Text /\ mem' \in Whole \cup {NoText}
    BY <1>11, Texts, SettingsWhole, OverWhole, BaseAssumption DEF ConfigCopies, Text, Doing, Up
  <2>3. saved' \in Partial /\ asked' \in Partial
    BY <1>11, OverPartial DEF ConfigCopies
  <2>4. backups' \subseteq Text /\ recent' \in Text \cup {NoText} /\ gone' \subseteq Text
    BY <1>11, Texts, BackupText DEF ConfigCopies
  <2> QED BY <1>11, <2>1, <2>2, <2>3, <2>4 DEF ConfigCopies
<1>12. ASSUME NEW a \in Actor, ConfigWrites(a) PROVE Typed'
  <2>1. act' \in [Actor -> Doing]
    BY <1>12, PassActs, NoPassActs
  <2>2. ini' \in Text /\ mem' \in Whole \cup {NoText}
    BY <1>12, Texts, SettingsWhole, OverWhole, BaseAssumption DEF ConfigWrites, Pass, Overwrites, Text, Doing, Up
  <2>3. saved' \in Partial /\ asked' \in Partial
    BY <1>12, OverPartial DEF ConfigWrites, Pass, Overwrites
  <2>4. backups' \subseteq Text /\ recent' \in Text \cup {NoText} /\ gone' \subseteq Text
    BY <1>12, Texts, BackupText DEF ConfigWrites, Pass, Overwrites
  <2> QED BY <1>12, <2>1, <2>2, <2>3, <2>4 DEF ConfigWrites, Pass, Overwrites
<1>13. ASSUME NEW a \in Actor, ToolDies(a) PROVE Typed'
  <2>1. act' \in [Actor -> Doing]
    BY <1>13, DieActs
  <2>2. ini' \in Text /\ mem' \in Whole \cup {NoText}
    BY <1>13, Texts, SettingsWhole, OverWhole, BaseAssumption DEF ToolDies, Overwrites, Text, Doing, Up
  <2>3. saved' \in Partial /\ asked' \in Partial
    BY <1>13, OverPartial DEF ToolDies, Overwrites
  <2>4. backups' \subseteq Text /\ recent' \in Text \cup {NoText} /\ gone' \subseteq Text
    BY <1>13, Texts, BackupText DEF ToolDies, Overwrites
  <2> QED BY <1>13, <2>1, <2>2, <2>3, <2>4 DEF ToolDies, Overwrites
<1>14. ASSUME Clock PROVE Typed'
  <2>1. act' \in [Actor -> Doing]
    BY <1>14 DEF Clock
  <2>2. ini' \in Text /\ mem' \in Whole \cup {NoText}
    BY <1>14, Texts, SettingsWhole, OverWhole, BaseAssumption DEF Clock, Text, Doing, Up
  <2>3. saved' \in Partial /\ asked' \in Partial
    BY <1>14, OverPartial DEF Clock
  <2>4. backups' \subseteq Text /\ recent' \in Text \cup {NoText} /\ gone' \subseteq Text
    BY <1>14, Texts, BackupText DEF Clock
  <2> QED BY <1>14, <2>1, <2>2, <2>3, <2>4 DEF Clock
<1>15. ASSUME GameStarts PROVE Typed'
  <2>1. act' \in [Actor -> Doing]
    BY <1>15 DEF GameStarts
  <2>2. ini' \in Text /\ mem' \in Whole \cup {NoText}
    BY <1>15, Texts, SettingsWhole, OverWhole, BaseAssumption DEF GameStarts, Text, Doing, Up
  <2>3. saved' \in Partial /\ asked' \in Partial
    BY <1>15, OverPartial DEF GameStarts
  <2>4. backups' \subseteq Text /\ recent' \in Text \cup {NoText} /\ gone' \subseteq Text
    BY <1>15, Texts, BackupText DEF GameStarts
  <2> QED BY <1>15, <2>1, <2>2, <2>3, <2>4 DEF GameStarts
<1>16. ASSUME GameExits PROVE Typed'
  <2>1. act' \in [Actor -> Doing]
    BY <1>16, ExitActs
  <2>2. ini' \in Text /\ mem' \in Whole \cup {NoText}
    BY <1>16, Texts, SettingsWhole, OverWhole, BaseAssumption DEF GameExits, Text, Doing, Up
  <2>3. saved' \in Partial /\ asked' \in Partial
    BY <1>16, OverPartial DEF GameExits
  <2>4. backups' \subseteq Text /\ recent' \in Text \cup {NoText} /\ gone' \subseteq Text
    BY <1>16, Texts, BackupText DEF GameExits
  <2> QED BY <1>16, <2>1, <2>2, <2>3, <2>4 DEF GameExits
<1>17. ASSUME OtherController PROVE Typed'
  <2>1. act' \in [Actor -> Doing]
    BY <1>17 DEF OtherController
  <2>2. ini' \in Text /\ mem' \in Whole \cup {NoText}
    BY <1>17, Texts, SettingsWhole, OverWhole, BaseAssumption DEF OtherController, Locked, Text, Doing, Up
  <2>3. saved' \in Partial /\ asked' \in Partial
    BY <1>17, OverPartial DEF OtherController, Locked
  <2>4. backups' \subseteq Text /\ recent' \in Text \cup {NoText} /\ gone' \subseteq Text
    BY <1>17, Texts, BackupText DEF OtherController, Locked
  <2> QED BY <1>17, <2>1, <2>2, <2>3, <2>4 DEF OtherController, Locked
<1>18. ASSUME ContainerStarts PROVE Typed'
  <2>1. act' \in [Actor -> Doing]
    BY <1>18, BootActs
  <2>2. ini' \in Text /\ mem' \in Whole \cup {NoText}
    BY <1>18, Texts, SettingsWhole, OverWhole, BaseAssumption DEF ContainerStarts, Text, Doing, Up
  <2>3. saved' \in Partial /\ asked' \in Partial
    BY <1>18, OverPartial DEF ContainerStarts
  <2>4. backups' \subseteq Text /\ recent' \in Text \cup {NoText} /\ gone' \subseteq Text
    BY <1>18, Texts, BackupText DEF ContainerStarts
  <2> QED BY <1>18, <2>1, <2>2, <2>3, <2>4 DEF ContainerStarts
<1>19. CASE UNCHANGED vars
  BY <1>19
<1> QED BY <1>1, <1>2, <1>3, <1>4, <1>5, <1>6, <1>7, <1>8, <1>9, <1>10, <1>11,
     <1>12, <1>13, <1>14, <1>15, <1>16, <1>17, <1>18, <1>19 DEF Next

\* A file with the saved settings has what was asked for.
LEMMA SavedIsThere ==
  ASSUME Typed, AppliedInv, NEW t \in Whole
  PROVE  Over(saved, t) # Empty /\ Has(Over(saved, t))
<1>1. Over(saved, t) \in Whole /\ \A s \in DOMAIN saved : Over(saved, t)[s] = saved[s]
  BY OverWhole DEF Typed
<1>2. Over(saved, t) # Empty
  BY <1>1, Texts
<1> QED BY <1>1, <1>2 DEF AppliedInv, Has

\* What a save asks for is saved, with all that was asked for before.
LEMMA SaveMerges ==
  ASSUME Typed, AppliedInv, Save
  PROVE  /\ saved' # NoText /\ DOMAIN asked' \subseteq DOMAIN saved'
         /\ \A s \in DOMAIN asked' : saved'[s] = asked'[s]
<1>1. PICK set \in Partial :
        set # NoText /\ saved' = Over(set, saved) /\ asked' = Over(set, asked)
  BY DEF Save, Merged
<1>2. /\ saved' # NoText /\ DOMAIN saved' = DOMAIN set \cup DOMAIN saved
      /\ \A s \in DOMAIN set \cup DOMAIN saved :
           saved'[s] = IF s \in DOMAIN set THEN set[s] ELSE saved[s]
  BY <1>1, OverPartial DEF Typed
<1>3. /\ DOMAIN asked' = DOMAIN set \cup DOMAIN asked
      /\ \A s \in DOMAIN set \cup DOMAIN asked :
           asked'[s] = IF s \in DOMAIN set THEN set[s] ELSE asked[s]
  BY <1>1, OverPartial DEF Typed
<1> QED BY <1>2, <1>3 DEF AppliedInv, Has

\* The tools and their steps.
LEMMA NextTool == Typed /\ ToolInv /\ [Next]_vars => ToolInv'
<1> SUFFICES ASSUME Typed, ToolInv, [Next]_vars PROVE ToolInv'
  OBVIOUS
<1> USE DEF ToolInv, Actor, Clashed, Others, vars, live, kept, hist, counters,
     Goes, Done, Then
<1>1. ASSUME Save PROVE ToolInv'
  <2>1. /\ kind' = kind /\ ini' = ini /\ mem' = mem /\ want' = want /\ Kept' = Kept
        /\ ~sticks' /\ act["job"] = Idle
        /\ \E set \in Partial : set # NoText /\ saved' = Over(set, saved) /\ asked' = Over(set, asked)
    BY <1>1 DEF Save, Merged, Kept, Typed, Text
  <2> QED BY <1>1, <2>1, SaveActs, IdleDoing
<1>2. ASSUME Rollback PROVE ToolInv'
  BY <1>2, RollbackActs, IdleDoing DEF Rollback
<1>3. ASSUME NEW a \in Actor, Apply(a) PROVE ToolInv'
  BY <1>3, ApplyActs, IdleDoing DEF Apply
<1>4. ASSUME NEW a \in Actor, Stop(a) PROVE ToolInv'
  BY <1>4, StopActs, IdleDoing DEF Stop
<1>5. ASSUME NEW a \in Actor, Waits(a) PROVE ToolInv'
  BY <1>5, WaitActs, IdleDoing DEF Waits, IsDown
<1>6. ASSUME NEW a \in Actor, Starts(a) PROVE ToolInv'
  BY <1>6, StartActs, IdleDoing DEF Starts
<1>7. ASSUME NEW a \in Actor, Ends(a) PROVE ToolInv'
  BY <1>7, EndActs, IdleDoing DEF Ends
<1>8. ASSUME NEW a \in Actor, ToolFails(a) PROVE ToolInv'
  <2>1. /\ kind' = kind /\ ini' = ini /\ mem' = mem /\ want' = want
        /\ saved' = saved /\ asked' = asked /\ Kept' = Kept
        /\ act[a].at \in {"read", "write", "pass1", "pass2"}
        /\ sticks' => sticks /\ act[a].at # "pass2"
    BY <1>8 DEF ToolFails, Kept, Typed, Text
  <2> QED BY <1>8, <2>1, FailActs, IdleDoing
<1>9. ASSUME NEW a \in Actor, EngineReads(a) PROVE ToolInv'
  <2>1. /\ kind' = kind /\ ini' = ini /\ mem' = mem /\ want' = want
        /\ saved' = saved /\ asked' = asked /\ sticks' = sticks /\ Kept \subseteq Kept'
        /\ act[a].at = "read" /\ kind = "engine"
        /\ (act[a].op # "rollback" /\ saved = NoText) \/ ini \in Kept'
    BY <1>9 DEF EngineReads, Copied, Kept, Typed, Text
  <2> QED BY <1>9, <2>1, ReadActs, NoReadActs, IdleDoing
<1>10. ASSUME NEW a \in Actor, EngineWrites(a) PROVE ToolInv'
  <2>1. /\ kind' = kind /\ mem' = mem /\ want' = want
        /\ saved' = saved /\ asked' = asked /\ Kept' = Kept
        /\ act[a].at = "write"
        /\ act[a].op # "rollback" => ini' = Over(act[a].set, Settings(act[a].seen))
        /\ sticks' => sticks /\ act[a].op # "rollback"
    BY <1>10 DEF EngineWrites, Kept, Typed, Text
  <2> QED BY <1>10, <2>1, WriteActs, IdleDoing
<1>11. ASSUME NEW a \in Actor, ConfigCopies(a) PROVE ToolInv'
  <2>1. /\ kind' = kind /\ ini' = ini /\ mem' = mem /\ want' = want
        /\ saved' = saved /\ asked' = asked /\ sticks' = sticks
        /\ act[a].at = "read" /\ kind = "config"
        /\ ini \in Kept'
    BY <1>11, Texts DEF ConfigCopies, Kept, Typed, Text
  <2> QED BY <1>11, <2>1, CopyActs, IdleDoing
<1>12. ASSUME NEW a \in Actor, ConfigWrites(a) PROVE ToolInv'
  <2>1. /\ kind' = kind /\ mem' = mem /\ want' = want
        /\ saved' = saved /\ asked' = asked /\ sticks' = sticks /\ Kept' = Kept
        /\ act[a].at \in {"pass1", "pass2"}
        /\ ini = Empty => ini' = ini
        /\ ini # Empty => ini' = Over(IF act[a].at = "pass1" THEN Base ELSE saved, ini)
    BY <1>12 DEF ConfigWrites, Pass, Kept, Typed, Text
  <2> QED BY <1>12, <2>1, PassActs, NoPassActs, IdleDoing
<1>13. ASSUME NEW a \in Actor, ToolDies(a) PROVE ToolInv'
  <2>1. /\ kind' = kind /\ mem' = mem /\ want' = want
        /\ saved' = saved /\ asked' = asked /\ Kept' = Kept
        /\ act[a].at \in {"read", "write", "pass1", "pass2"}
    BY <1>13 DEF ToolDies, Kept, Typed, Text
  <2> QED BY <1>13, <2>1, DieActs, IdleDoing
<1>14. ASSUME Clock PROVE ToolInv'
  BY <1>14, IdleDoing DEF Clock
<1>15. ASSUME GameStarts PROVE ToolInv'
  BY <1>15, IdleDoing DEF GameStarts
<1>16. ASSUME GameExits PROVE ToolInv'
  BY <1>16, ExitActs, IdleDoing DEF GameExits
<1>17. ASSUME OtherController PROVE ToolInv'
  BY <1>17, IdleDoing DEF OtherController, Locked
<1>18. ASSUME ContainerStarts PROVE ToolInv'
  BY <1>18, BootActs, IdleDoing DEF ContainerStarts
<1>19. CASE UNCHANGED vars
  BY <1>19
<1> QED BY <1>1, <1>2, <1>3, <1>4, <1>5, <1>6, <1>7, <1>8, <1>9, <1>10, <1>11,
     <1>12, <1>13, <1>14, <1>15, <1>16, <1>17, <1>18, <1>19 DEF Next

\* The copies.
LEMMA NextCopy == Typed /\ ToolInv /\ CopyInv /\ [Next]_vars => CopyInv'
<1> SUFFICES ASSUME Typed, ToolInv, CopyInv, [Next]_vars PROVE CopyInv'
  OBVIOUS
<1> USE DEF CopyInv, ToolInv, Actor, Kept, Clashed, Others, vars, live, kept,
     hist, counters, Goes, Done, Then
<1>1. ASSUME Save PROVE CopyInv'
  <2>1. /\ kind' = kind /\ ini' = ini /\ mem' = mem /\ want' = want /\ Kept' = Kept
        /\ ~sticks' /\ act["job"] = Idle
        /\ \E set \in Partial : set # NoText /\ saved' = Over(set, saved) /\ asked' = Over(set, asked)
    BY <1>1 DEF Save, Merged, Kept, Typed, Text
  <2> QED BY <1>1, <2>1, SaveActs, IdleDoing
<1>2. ASSUME Rollback PROVE CopyInv'
  BY <1>2, RollbackActs, IdleDoing, Texts DEF Rollback
<1>3. ASSUME NEW a \in Actor, Apply(a) PROVE CopyInv'
  BY <1>3, ApplyActs, IdleDoing, Texts DEF Apply
<1>4. ASSUME NEW a \in Actor, Stop(a) PROVE CopyInv'
  BY <1>4, StopActs, IdleDoing, Texts DEF Stop
<1>5. ASSUME NEW a \in Actor, Waits(a) PROVE CopyInv'
  BY <1>5, WaitActs, IdleDoing, Texts DEF Waits, IsDown
<1>6. ASSUME NEW a \in Actor, Starts(a) PROVE CopyInv'
  BY <1>6, StartActs, IdleDoing, Texts DEF Starts
<1>7. ASSUME NEW a \in Actor, Ends(a) PROVE CopyInv'
  BY <1>7, EndActs, IdleDoing, Texts DEF Ends
<1>8. ASSUME NEW a \in Actor, ToolFails(a) PROVE CopyInv'
  <2>1. /\ kind' = kind /\ ini' = ini /\ mem' = mem /\ want' = want
        /\ saved' = saved /\ asked' = asked /\ Kept' = Kept
        /\ act[a].at \in {"read", "write", "pass1", "pass2"}
        /\ sticks' => sticks /\ act[a].at # "pass2"
    BY <1>8 DEF ToolFails, Kept, Typed, Text
  <2> QED BY <1>8, <2>1, FailActs, IdleDoing
<1>9. ASSUME NEW a \in Actor, EngineReads(a) PROVE CopyInv'
  <2>1. /\ kind' = kind /\ ini' = ini /\ mem' = mem /\ want' = want
        /\ saved' = saved /\ asked' = asked /\ sticks' = sticks /\ Kept \subseteq Kept'
        /\ act[a].at = "read" /\ kind = "engine"
        /\ (act[a].op # "rollback" /\ saved = NoText) \/ ini \in Kept'
    BY <1>9 DEF EngineReads, Copied, Kept, Typed, Text
  <2> QED BY <1>9, <2>1, ReadActs, NoReadActs, IdleDoing
<1>10. ASSUME NEW a \in Actor, EngineWrites(a) PROVE CopyInv'
  <2>1. /\ kind' = kind /\ mem' = mem /\ want' = want
        /\ saved' = saved /\ asked' = asked /\ Kept' = Kept
        /\ act[a].at = "write"
        /\ act[a].op # "rollback" => ini' = Over(act[a].set, Settings(act[a].seen))
        /\ sticks' => sticks /\ act[a].op # "rollback"
    BY <1>10 DEF EngineWrites, Kept, Typed, Text
  <2> QED BY <1>10, <2>1, WriteActs, IdleDoing
<1>11. ASSUME NEW a \in Actor, ConfigCopies(a) PROVE CopyInv'
  <2>1. /\ kind' = kind /\ ini' = ini /\ mem' = mem /\ want' = want
        /\ saved' = saved /\ asked' = asked /\ sticks' = sticks
        /\ act[a].at = "read" /\ kind = "config"
        /\ ini \in Kept'
    BY <1>11, Texts DEF ConfigCopies, Kept, Typed, Text
  <2> QED BY <1>11, <2>1, CopyActs, IdleDoing
<1>12. ASSUME NEW a \in Actor, ConfigWrites(a) PROVE CopyInv'
  <2>1. /\ kind' = kind /\ mem' = mem /\ want' = want
        /\ saved' = saved /\ asked' = asked /\ sticks' = sticks /\ Kept' = Kept
        /\ act[a].at \in {"pass1", "pass2"}
        /\ ini = Empty => ini' = ini
        /\ ini # Empty => ini' = Over(IF act[a].at = "pass1" THEN Base ELSE saved, ini)
    BY <1>12 DEF ConfigWrites, Pass, Kept, Typed, Text
  <2> QED BY <1>12, <2>1, PassActs, NoPassActs, IdleDoing
<1>13. ASSUME NEW a \in Actor, ToolDies(a) PROVE CopyInv'
  <2>1. /\ kind' = kind /\ mem' = mem /\ want' = want
        /\ saved' = saved /\ asked' = asked /\ Kept' = Kept
        /\ act[a].at \in {"read", "write", "pass1", "pass2"}
    BY <1>13 DEF ToolDies, Kept, Typed, Text
  <2> QED BY <1>13, <2>1, DieActs, IdleDoing
<1>14. ASSUME Clock PROVE CopyInv'
  BY <1>14, IdleDoing, Texts DEF Clock
<1>15. ASSUME GameStarts PROVE CopyInv'
  BY <1>15, IdleDoing, Texts DEF GameStarts
<1>16. ASSUME GameExits PROVE CopyInv'
  BY <1>16, ExitActs, IdleDoing, Texts DEF GameExits
<1>17. ASSUME OtherController PROVE CopyInv'
  BY <1>17, IdleDoing, Texts DEF OtherController, Locked
<1>18. ASSUME ContainerStarts PROVE CopyInv'
  BY <1>18, BootActs, IdleDoing, Texts DEF ContainerStarts
<1>19. CASE UNCHANGED vars
  BY <1>19
<1> QED BY <1>1, <1>2, <1>3, <1>4, <1>5, <1>6, <1>7, <1>8, <1>9, <1>10, <1>11,
     <1>12, <1>13, <1>14, <1>15, <1>16, <1>17, <1>18, <1>19 DEF Next

\* What was overwritten.
LEMMA NextLost == Typed /\ CopyInv /\ NothingLost /\ [Next]_vars => NothingLost'
<1> SUFFICES ASSUME Typed, CopyInv, NothingLost, [Next]_vars PROVE NothingLost'
  OBVIOUS
<1> USE DEF NothingLost, CopyInv, Kept, vars, live, kept, hist, counters,
     Goes, Done, Then
<1>1. ASSUME Save PROVE NothingLost'
  BY <1>1, Texts DEF Save, Merged
<1>2. ASSUME Rollback PROVE NothingLost'
  BY <1>2, Texts DEF Rollback
<1>3. ASSUME NEW a \in Actor, Apply(a) PROVE NothingLost'
  BY <1>3, Texts DEF Apply
<1>4. ASSUME NEW a \in Actor, Stop(a) PROVE NothingLost'
  BY <1>4, Texts DEF Stop
<1>5. ASSUME NEW a \in Actor, Waits(a) PROVE NothingLost'
  BY <1>5, Texts DEF Waits, IsDown
<1>6. ASSUME NEW a \in Actor, Starts(a) PROVE NothingLost'
  BY <1>6, Texts DEF Starts
<1>7. ASSUME NEW a \in Actor, Ends(a) PROVE NothingLost'
  BY <1>7, Texts DEF Ends
<1>8. ASSUME NEW a \in Actor, ToolFails(a) PROVE NothingLost'
  BY <1>8, Texts DEF ToolFails
<1>9. ASSUME NEW a \in Actor, EngineReads(a) PROVE NothingLost'
  BY <1>9, Texts DEF EngineReads, Copied
<1>10. ASSUME NEW a \in Actor, EngineWrites(a) PROVE NothingLost'
  BY <1>10, Texts DEF EngineWrites, Overwrites
<1>11. ASSUME NEW a \in Actor, ConfigCopies(a) PROVE NothingLost'
  BY <1>11, Texts DEF ConfigCopies
<1>12. ASSUME NEW a \in Actor, ConfigWrites(a) PROVE NothingLost'
  BY <1>12, Texts DEF ConfigWrites, Pass, Overwrites
<1>13. ASSUME NEW a \in Actor, ToolDies(a) PROVE NothingLost'
  BY <1>13, Texts DEF ToolDies, Overwrites
<1>14. ASSUME Clock PROVE NothingLost'
  BY <1>14, Texts DEF Clock
<1>15. ASSUME GameStarts PROVE NothingLost'
  BY <1>15, Texts DEF GameStarts
<1>16. ASSUME GameExits PROVE NothingLost'
  BY <1>16, Texts DEF GameExits
<1>17. ASSUME OtherController PROVE NothingLost'
  BY <1>17, Texts DEF OtherController, Locked
<1>18. ASSUME ContainerStarts PROVE NothingLost'
  BY <1>18, Texts DEF ContainerStarts
<1>19. CASE UNCHANGED vars
  BY <1>19
<1> QED BY <1>1, <1>2, <1>3, <1>4, <1>5, <1>6, <1>7, <1>8, <1>9, <1>10, <1>11,
     <1>12, <1>13, <1>14, <1>15, <1>16, <1>17, <1>18, <1>19 DEF Next

\* The restart.
LEMMA NextRestart == Typed /\ ToolInv /\ AppliedInv /\ RestartInv /\ [Next]_vars => RestartInv'
<1> SUFFICES ASSUME Typed, ToolInv, AppliedInv, RestartInv, [Next]_vars PROVE RestartInv'
  OBVIOUS
<1> USE DEF RestartInv, ToolInv, Actor, Up, Has, Clashed, Others, vars, live,
     kept, hist, counters, Goes, Done, Then
<1>1. ASSUME Save PROVE RestartInv'
  <2>1. /\ kind' = kind /\ ini' = ini /\ mem' = mem /\ want' = want /\ Kept' = Kept
        /\ ~sticks' /\ act["job"] = Idle
        /\ \E set \in Partial : set # NoText /\ saved' = Over(set, saved) /\ asked' = Over(set, asked)
    BY <1>1 DEF Save, Merged, Kept, Typed, Text
  <2> QED BY <1>1, <2>1, SaveActs, IdleDoing, SaveMerges
<1>2. ASSUME Rollback PROVE RestartInv'
  BY <1>2, RollbackActs, IdleDoing, Texts DEF Rollback
<1>3. ASSUME NEW a \in Actor, Apply(a) PROVE RestartInv'
  BY <1>3, ApplyActs, IdleDoing, Texts DEF Apply
<1>4. ASSUME NEW a \in Actor, Stop(a) PROVE RestartInv'
  BY <1>4, StopActs, IdleDoing, Texts DEF Stop
<1>5. ASSUME NEW a \in Actor, Waits(a) PROVE RestartInv'
  <2>1. UNCHANGED <<ini, mem, want, saved, asked>> /\ act[a].at = "wait"
    BY <1>5 DEF Waits
  <2>2. act'[a].late = (act[a].late \/ Up)
    BY <1>5, WaitActs
  <2>3. ~act'[a].late => ~Up
    BY <2>2, Zenon
  <2>4. /\ act'[a].op = act[a].op /\ act'[a].at = "read"
        /\ \A b \in Actor \ {a} : act'[b] = act[b]
    BY <1>5, WaitActs
  <2>5. ASSUME act[a].op = "restart" PROVE saved # NoText /\ ~want
    BY <2>1, <2>5
  <2> QED BY <2>1, <2>3, <2>4, <2>5
<1>6. ASSUME NEW a \in Actor, Starts(a) PROVE RestartInv'
  BY <1>6, StartActs, IdleDoing, Texts DEF Starts
<1>7. ASSUME NEW a \in Actor, Ends(a) PROVE RestartInv'
  BY <1>7, EndActs, IdleDoing, Texts DEF Ends
<1>8. ASSUME NEW a \in Actor, ToolFails(a) PROVE RestartInv'
  <2>1. /\ kind' = kind /\ ini' = ini /\ mem' = mem /\ want' = want
        /\ saved' = saved /\ asked' = asked /\ Kept' = Kept
        /\ act[a].at \in {"read", "write", "pass1", "pass2"}
        /\ sticks' => sticks /\ act[a].at # "pass2"
    BY <1>8 DEF ToolFails, Kept, Typed, Text
  <2> QED BY <1>8, <2>1, FailActs, IdleDoing
<1>9. ASSUME NEW a \in Actor, EngineReads(a) PROVE RestartInv'
  <2>1. /\ kind' = kind /\ ini' = ini /\ mem' = mem /\ want' = want
        /\ saved' = saved /\ asked' = asked /\ sticks' = sticks /\ Kept \subseteq Kept'
        /\ act[a].at = "read" /\ kind = "engine"
        /\ (act[a].op # "rollback" /\ saved = NoText) \/ ini \in Kept'
    BY <1>9 DEF EngineReads, Copied, Kept, Typed, Text
  <2> QED BY <1>9, <2>1, ReadActs, NoReadActs, IdleDoing
<1>10. ASSUME NEW a \in Actor, EngineWrites(a) PROVE RestartInv'
  <2>1. /\ kind' = kind /\ mem' = mem /\ want' = want
        /\ saved' = saved /\ asked' = asked /\ Kept' = Kept
        /\ act[a].at = "write"
        /\ act[a].op # "rollback" => ini' = Over(act[a].set, Settings(act[a].seen))
        /\ sticks' => sticks /\ act[a].op # "rollback"
    BY <1>10 DEF EngineWrites, Kept, Typed, Text
  <2>2. act[a].op # "rollback" /\ act[a].set = saved =>
          ini' # Empty /\ \A s \in DOMAIN asked : ini'[s] = asked[s]
    <3>1. Settings(act[a].seen) \in Whole
      BY SettingsWhole DEF Typed, Doing
    <3> QED BY <2>1, <3>1, SavedIsThere
  <2> QED BY <1>10, <2>1, WriteActs, IdleDoing, <2>2
<1>11. ASSUME NEW a \in Actor, ConfigCopies(a) PROVE RestartInv'
  <2>1. /\ kind' = kind /\ ini' = ini /\ mem' = mem /\ want' = want
        /\ saved' = saved /\ asked' = asked /\ sticks' = sticks
        /\ act[a].at = "read" /\ kind = "config"
        /\ ini \in Kept'
    BY <1>11, Texts DEF ConfigCopies, Kept, Typed, Text
  <2> QED BY <1>11, <2>1, CopyActs, IdleDoing
<1>12. ASSUME NEW a \in Actor, ConfigWrites(a) PROVE RestartInv'
  <2>1. /\ kind' = kind /\ mem' = mem /\ want' = want
        /\ saved' = saved /\ asked' = asked /\ sticks' = sticks /\ Kept' = Kept
        /\ act[a].at \in {"pass1", "pass2"}
        /\ ini = Empty => ini' = ini
        /\ ini # Empty => ini' = Over(IF act[a].at = "pass1" THEN Base ELSE saved, ini)
    BY <1>12 DEF ConfigWrites, Pass, Kept, Typed, Text
  <2>2. ini # Empty => /\ ini' # Empty
                       /\ act[a].at = "pass2" => \A s \in DOMAIN asked : ini'[s] = asked[s]
    <3> SUFFICES ASSUME ini # Empty
                 PROVE  /\ ini' # Empty
                        /\ act[a].at = "pass2" => \A s \in DOMAIN asked : ini'[s] = asked[s]
      OBVIOUS
    <3>1. ini \in Whole
      BY DEF Typed, Text
    <3>2. CASE act[a].at = "pass2"
      BY <2>1, <3>1, <3>2, SavedIsThere
    <3>3. CASE act[a].at # "pass2"
      BY <2>1, <3>1, <3>3, OverWhole, BaseAssumption, Texts
    <3> QED BY <3>2, <3>3
  <2>3. CASE ini = Empty
    BY <1>12, <2>1, <2>3, NoPassActs
  <2>4. CASE ini # Empty
    <3>1. \A b \in Actor \ {a} : Clashed(b)
      BY <1>12, <2>4, PassActs
    <3>2. /\ act'[a].op = act[a].op /\ act'[a].failed = act[a].failed /\ act'[a].late = act[a].late
          /\ act'[a].at = IF act[a].at = "pass1" THEN "pass2" ELSE Then(a)
      BY <1>12, <2>4, PassActs
    <3>3. ASSUME NEW b \in Actor \ {a}, act'[b].op = "restart"
          PROVE  /\ act[b].op = "restart" /\ act'[b].at = act[b].at /\ act'[b].set = act[b].set
                 /\ act'[b].failed = act[b].failed /\ act'[b].late = act[b].late /\ act'[b].clash
      BY <3>1, <3>3, IdleDoing
    <3>4. ASSUME act'[a].op = "restart"
          PROVE  /\ act[a].op = "restart" /\ act'[a].failed = act[a].failed /\ act'[a].late = act[a].late
                 /\ act'[a].at \in {"pass2", "start"}
                 /\ act'[a].at = "start" => act[a].at = "pass2"
      BY <2>1, <3>2, <3>4
    <3>5. act'[a].op = "restart" /\ act'[a].at = "start" =>
            ini' # Empty /\ \A s \in DOMAIN asked : ini'[s] = asked[s]
      BY <2>2, <2>4, <3>4
    <3>6. UNCHANGED <<mem, want, saved, asked>>
      BY <2>1
    <3> SUFFICES ASSUME NEW b \in Actor, act'[b].op = "restart"
                 PROVE  /\ saved # NoText
                        /\ act'[b].at # "stop" => ~want
                        /\ act'[b].at \notin {"stop", "wait"} /\ ~act'[b].late => ~Up
                        /\ act'[b].at = "write" => act'[b].set = saved
                        /\ act'[b].at = "start" /\ ~act'[b].failed /\ ~act'[b].clash =>
                             ini' # Empty /\ \A s \in DOMAIN asked : ini'[s] = asked[s]
      BY <3>6
    <3>7. CASE b = a
      BY <2>1, <3>4, <3>5, <3>7
    <3>8. CASE b # a
      BY <3>3, <3>8
    <3> QED BY <3>7, <3>8
  <2> QED BY <2>3, <2>4
<1>13. ASSUME NEW a \in Actor, ToolDies(a) PROVE RestartInv'
  <2>1. /\ kind' = kind /\ mem' = mem /\ want' = want
        /\ saved' = saved /\ asked' = asked /\ Kept' = Kept
        /\ act[a].at \in {"read", "write", "pass1", "pass2"}
    BY <1>13 DEF ToolDies, Kept, Typed, Text
  <2> QED BY <1>13, <2>1, DieActs, IdleDoing
<1>14. ASSUME Clock PROVE RestartInv'
  BY <1>14, IdleDoing, Texts DEF Clock
<1>15. ASSUME GameStarts PROVE RestartInv'
  BY <1>15, IdleDoing, Texts DEF GameStarts
<1>16. ASSUME GameExits PROVE RestartInv'
  BY <1>16, ExitActs, IdleDoing, Texts DEF GameExits
<1>17. ASSUME OtherController PROVE RestartInv'
  BY <1>17, IdleDoing, Texts DEF OtherController, Locked
<1>18. ASSUME ContainerStarts PROVE RestartInv'
  BY <1>18, BootActs, IdleDoing, Texts DEF ContainerStarts
<1>19. CASE UNCHANGED vars
  BY <1>19
<1> QED BY <1>1, <1>2, <1>3, <1>4, <1>5, <1>6, <1>7, <1>8, <1>9, <1>10, <1>11,
     <1>12, <1>13, <1>14, <1>15, <1>16, <1>17, <1>18, <1>19 DEF Next

\* What was applied.
LEMMA NextApplied == Typed /\ ToolInv /\ AppliedInv /\ RestartInv /\ [Next]_vars => AppliedInv'
<1> SUFFICES ASSUME Typed, ToolInv, AppliedInv, RestartInv, [Next]_vars PROVE AppliedInv'
  OBVIOUS
<1> USE DEF AppliedInv, Actor, Up, Has, Clashed, Others, vars, live, kept,
     hist, counters, Goes, Done, Then
<1>1. ASSUME Save PROVE AppliedInv'
  <2>1. /\ kind' = kind /\ ini' = ini /\ mem' = mem /\ want' = want /\ Kept' = Kept
        /\ ~sticks' /\ act["job"] = Idle
        /\ \E set \in Partial : set # NoText /\ saved' = Over(set, saved) /\ asked' = Over(set, asked)
    BY <1>1 DEF Save, Merged, Kept, Typed, Text
  <2> QED BY <1>1, <2>1, SaveActs, IdleDoing, SaveMerges
<1>2. ASSUME Rollback PROVE AppliedInv'
  BY <1>2, RollbackActs, IdleDoing, Texts DEF Rollback
<1>3. ASSUME NEW a \in Actor, Apply(a) PROVE AppliedInv'
  BY <1>3, ApplyActs, IdleDoing, Texts DEF Apply
<1>4. ASSUME NEW a \in Actor, Stop(a) PROVE AppliedInv'
  BY <1>4, StopActs, IdleDoing, Texts DEF Stop
<1>5. ASSUME NEW a \in Actor, Waits(a) PROVE AppliedInv'
  BY <1>5, WaitActs, IdleDoing, Texts DEF Waits, IsDown
<1>6. ASSUME NEW a \in Actor, Starts(a) PROVE AppliedInv'
  <2>1. /\ UNCHANGED <<ini, mem, saved, asked>> /\ act[a].at = "start"
        /\ sticks' => /\ ~act[a].failed /\ ~act[a].late /\ ~act[a].clash
                      /\ \A b \in Actor : act[b].at = "write" => act[b].set = saved
    BY <1>6 DEF Starts, Undisturbed
  <2>2. sticks' => ~Up /\ ini # Empty /\ Has(ini)
    BY <2>1 DEF ToolInv, RestartInv
  <2>3. \A b \in Actor : sticks' /\ act'[b].at = "write" => act'[b].set = saved
    BY <1>6, <2>1, StartActs, IdleDoing
  <2> QED BY <2>1, <2>2, <2>3
<1>7. ASSUME NEW a \in Actor, Ends(a) PROVE AppliedInv'
  BY <1>7, EndActs, IdleDoing, Texts DEF Ends
<1>8. ASSUME NEW a \in Actor, ToolFails(a) PROVE AppliedInv'
  <2>1. /\ kind' = kind /\ ini' = ini /\ mem' = mem /\ want' = want
        /\ saved' = saved /\ asked' = asked /\ Kept' = Kept
        /\ act[a].at \in {"read", "write", "pass1", "pass2"}
        /\ sticks' => sticks /\ act[a].at # "pass2"
    BY <1>8 DEF ToolFails, Kept, Typed, Text
  <2> QED BY <1>8, <2>1, FailActs, IdleDoing
<1>9. ASSUME NEW a \in Actor, EngineReads(a) PROVE AppliedInv'
  <2>1. /\ kind' = kind /\ ini' = ini /\ mem' = mem /\ want' = want
        /\ saved' = saved /\ asked' = asked /\ sticks' = sticks /\ Kept \subseteq Kept'
        /\ act[a].at = "read" /\ kind = "engine"
        /\ (act[a].op # "rollback" /\ saved = NoText) \/ ini \in Kept'
    BY <1>9 DEF EngineReads, Copied, Kept, Typed, Text
  <2> QED BY <1>9, <2>1, ReadActs, NoReadActs, IdleDoing
<1>10. ASSUME NEW a \in Actor, EngineWrites(a) PROVE AppliedInv'
  <2>1. /\ kind' = kind /\ mem' = mem /\ want' = want
        /\ saved' = saved /\ asked' = asked /\ Kept' = Kept
        /\ act[a].at = "write"
        /\ act[a].op # "rollback" => ini' = Over(act[a].set, Settings(act[a].seen))
        /\ sticks' => sticks /\ act[a].op # "rollback"
    BY <1>10 DEF EngineWrites, Kept, Typed, Text
  <2>2. act[a].op # "rollback" /\ act[a].set = saved =>
          ini' # Empty /\ \A s \in DOMAIN asked : ini'[s] = asked[s]
    <3>1. Settings(act[a].seen) \in Whole
      BY SettingsWhole DEF Typed, Doing
    <3> QED BY <2>1, <3>1, SavedIsThere
  <2> QED BY <1>10, <2>1, WriteActs, IdleDoing, <2>2
<1>11. ASSUME NEW a \in Actor, ConfigCopies(a) PROVE AppliedInv'
  <2>1. /\ kind' = kind /\ ini' = ini /\ mem' = mem /\ want' = want
        /\ saved' = saved /\ asked' = asked /\ sticks' = sticks
        /\ act[a].at = "read" /\ kind = "config"
        /\ ini \in Kept'
    BY <1>11, Texts DEF ConfigCopies, Kept, Typed, Text
  <2> QED BY <1>11, <2>1, CopyActs, IdleDoing
<1>12. ASSUME NEW a \in Actor, ConfigWrites(a) PROVE AppliedInv'
  <2>1. /\ kind' = kind /\ mem' = mem /\ want' = want
        /\ saved' = saved /\ asked' = asked /\ sticks' = sticks /\ Kept' = Kept
        /\ act[a].at \in {"pass1", "pass2"}
        /\ ini = Empty => ini' = ini
        /\ ini # Empty => ini' = Over(IF act[a].at = "pass1" THEN Base ELSE saved, ini)
    BY <1>12 DEF ConfigWrites, Pass, Kept, Typed, Text
  <2>2. ini # Empty => /\ ini' # Empty
                       /\ act[a].at = "pass2" => \A s \in DOMAIN asked : ini'[s] = asked[s]
    <3> SUFFICES ASSUME ini # Empty
                 PROVE  /\ ini' # Empty
                        /\ act[a].at = "pass2" => \A s \in DOMAIN asked : ini'[s] = asked[s]
      OBVIOUS
    <3>1. ini \in Whole
      BY DEF Typed, Text
    <3>2. CASE act[a].at = "pass2"
      BY <2>1, <3>1, <3>2, SavedIsThere
    <3>3. CASE act[a].at # "pass2"
      BY <2>1, <3>1, <3>3, OverWhole, BaseAssumption, Texts
    <3> QED BY <3>2, <3>3
  <2>3. CASE ini = Empty
    BY <1>12, <2>1, <2>3, NoPassActs
  <2>4. CASE ini # Empty
    <3>1. \A b \in Actor \ {a} : Clashed(b)
      BY <1>12, <2>4, PassActs
    <3>2. /\ act'[a].op = act[a].op /\ act'[a].failed = act[a].failed /\ act'[a].late = act[a].late
          /\ act'[a].at = IF act[a].at = "pass1" THEN "pass2" ELSE Then(a)
      BY <1>12, <2>4, PassActs
    <3>3. \A b \in Actor : act'[b].at = "write" => b # a
      BY <2>1, <3>2
    <3>4. act[a].at = "pass1" => act'[a].at = "pass2"
      BY <3>2
    <3>5. \A b \in Actor : act'[b].at = "write" =>
            act[b].at = "write" /\ act'[b].op = act[b].op /\ act'[b].set = act[b].set
      BY <3>1, <3>3
    <3>6. sticks' => ini' # Empty /\ (Has(ini') \/ \E b \in Actor : act'[b].at = "pass2")
      <4>1. CASE act[a].at = "pass1"
        BY <2>2, <2>4, <3>4, <4>1
      <4>2. CASE act[a].at = "pass2"
        BY <2>2, <2>4, <4>2
      <4> QED BY <2>1, <4>1, <4>2
    <3> QED BY <2>1, <3>5, <3>6
  <2> QED BY <2>3, <2>4
<1>13. ASSUME NEW a \in Actor, ToolDies(a) PROVE AppliedInv'
  <2>1. /\ kind' = kind /\ mem' = mem /\ want' = want
        /\ saved' = saved /\ asked' = asked /\ Kept' = Kept
        /\ act[a].at \in {"read", "write", "pass1", "pass2"}
        /\ sticks' => sticks /\ act[a].at # "pass2" /\ ini' = ini /\ Done(a)
    BY <1>13 DEF ToolDies, Kept, Typed, Text
  <2>2. \A b \in Actor \ {a} : sticks' => act'[b] = act[b]
    BY <2>1 DEF Typed
  <2> QED BY <1>13, <2>1, <2>2, DieActs, IdleDoing
<1>14. ASSUME Clock PROVE AppliedInv'
  BY <1>14, IdleDoing, Texts DEF Clock
<1>15. ASSUME GameStarts PROVE AppliedInv'
  <2>1. /\ UNCHANGED <<ini, act, saved, asked>> /\ mem' = Settings(ini)
        /\ sticks' => sticks /\ \A a \in Actor : act[a].at # "pass2"
    BY <1>15 DEF GameStarts
  <2>2. sticks' => ini # Empty /\ Has(ini)
    BY <2>1
  <2>3. sticks' => mem' = ini
    BY <2>1, <2>2 DEF Settings
  <2> QED BY <2>1, <2>2, <2>3
<1>16. ASSUME GameExits PROVE AppliedInv'
  <2>1. UNCHANGED <<saved, asked, sticks>> /\ mem' = NoText /\ Up /\ ini' \in {ini, mem}
    BY <1>16 DEF GameExits
  <2>2. mem # Empty
    BY <2>1, Texts DEF Typed
  <2>3. \A b \in Actor : act'[b].at = act[b].at /\ act'[b].op = act[b].op /\ act'[b].set = act[b].set
    BY <1>16, ExitActs
  <2>4. sticks => ini' # Empty /\ (Has(ini') \/ \E a \in Actor : act[a].at = "pass2")
    BY <2>1, <2>2
  <2> QED BY <2>1, <2>3, <2>4
<1>17. ASSUME OtherController PROVE AppliedInv'
  BY <1>17, IdleDoing, Texts DEF OtherController, Locked
<1>18. ASSUME ContainerStarts PROVE AppliedInv'
  <2>1. /\ UNCHANGED <<saved, asked>> /\ mem' = NoText /\ ini' \in {ini, Settings(ini)}
        /\ sticks' => sticks /\ \A a \in Actor : act[a].at # "pass2"
    BY <1>18 DEF ContainerStarts
  <2>2. sticks' => ini # Empty /\ Has(ini)
    BY <2>1, IdleDoing
  <2>3. sticks' => ini' = ini
    BY <2>1, <2>2 DEF Settings
  <2>4. \A b \in Actor : act'[b].at # "write"
    BY <1>18, BootActs, IdleDoing
  <2> QED BY <2>1, <2>2, <2>3, <2>4
<1>19. CASE UNCHANGED vars
  BY <1>19
<1> QED BY <1>1, <1>2, <1>3, <1>4, <1>5, <1>6, <1>7, <1>8, <1>9, <1>10, <1>11,
     <1>12, <1>13, <1>14, <1>15, <1>16, <1>17, <1>18, <1>19 DEF Next

-----------------------------------------------------------------------------
(* The theorems.                                                            *)

\* The invariant holds in every reachable state.
THEOREM Invariance == Spec => []IInv
<1>1. Init => IInv
  <2> SUFFICES ASSUME Init PROVE IInv
    OBVIOUS
  <2>1. Settings(Empty) \in Whole /\ Settings(Empty) # Empty
    BY SettingsWhole, Texts DEF Text
  <2>2. Typed
    BY <2>1, IdleDoing, Texts DEF Init, Typed, Text
  <2>3. ToolInv /\ CopyInv /\ RestartInv
    BY IdleDoing DEF Init, ToolInv, CopyInv, RestartInv
  <2>4. NothingLost
    BY DEF Init, NothingLost
  <2>5. AppliedInv
    BY DEF Init, AppliedInv, Has, NoText
  <2> QED BY <2>2, <2>3, <2>4, <2>5 DEF IInv
<1>2. IInv /\ [Next]_vars => IInv'
  BY NextTyped, NextTool, NextCopy, NextLost, NextRestart, NextApplied DEF IInv
<1> QED BY <1>1, <1>2, PTL DEF Spec

\* write_new_nofollow and the copy of palworld-config-apply-env: what a tool finds
\* when it makes its copy and then overwrites can be rolled back to, whatever fails
\* or dies; what another hand writes between the copy and the write is not copied.
THEOREM OverwrittenIsKept == Spec => []NothingLost
<1>1. IInv => NothingLost
  BY DEF IInv
<1> QED BY <1>1, Invariance, PTL

\* palworld-graceful-restart: the settings of a restart whose stop ended in time,
\* whose apply succeeded and which no other tool overtook are those the game runs
\* with from then on.
THEOREM AppliedStays == Spec => []SettingSticks
<1>1. IInv => SettingSticks
  BY DEF IInv, AppliedInv, Has, SettingSticks
<1> QED BY <1>1, Invariance, PTL
=============================================================================
