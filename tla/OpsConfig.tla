------------------------------ MODULE OpsConfig ------------------------------
(* The operator configuration (palwarden_ops): one file of a few keys that  *)
(* the container start seeds from its environment, jobd rewrites when a     *)
(* save job runs, an operator edits by hand, and the idle watcher, the      *)
(* knock listener, the lifecycle library and the web UI read at any time.   *)
(* Power may be lost: a name then shows what the disk holds.                *)
EXTENDS Naturals, Sequences

CONSTANTS
  Schema,    \* the keys in the order of the file, with their kinds
  Ints,      \* the canonical integers in range
  Tokens,    \* the tokens: short enough, no control character
  Unset,     \* a variable the environment does not have
  Absent,    \* no file
  Envs,      \* the environments the container may be started with
  Edits,     \* the texts an operator may put into the file
  Payloads,  \* the saves that may be asked for: some keys, typed inputs
  MaxEdits, MaxJobs, MaxBoots  \* bounds: edits, saves, container starts

Keys == {Schema[i].key : i \in DOMAIN Schema}
Kind(k) == Schema[CHOOSE i \in DOMAIN Schema : Schema[i].key = k].kind
Bools == {"true", "false"}

ASSUME SchemaAssumption ==
  /\ Schema \in Seq([key : STRING, kind : {"int", "bool", "token"}])
  /\ Schema # <<>>
  /\ \A i, j \in DOMAIN Schema : Schema[i].key = Schema[j].key => i = j
\* A line is a key, a value and whether it is written as json.dumps writes it;
\* any other line has the key "".
Lines == [key : STRING, val : STRING, canon : BOOLEAN]
ASSUME EditsAssumption == Edits \subseteq Seq(Lines) /\ Absent \notin Seq(Lines)
ASSUME StringAssumption == Ints \cup Bools \cup Tokens \subseteq STRING
ASSUME EmptyAssumption == "" \in Tokens /\ "" \notin Ints
ASSUME BoundAssumption == MaxEdits \in Nat /\ MaxJobs \in Nat /\ MaxBoots \in Nat

VARIABLES
  file,      \* what the name shows: Absent, or lines
  disk,      \* what it may show after a loss of power
  env,       \* the environment of this container
  sys,       \* "boot" until the file is seeded or valid, "up", "failed"
  queue,     \* the saves that wait
  w,         \* the one writer: the seeder during the boot, jobd afterwards
  r,         \* a reader
  editor,    \* the text an edit that has truncated the file will write
  edits, jobs, boots,  \* counters for the bounds
  intended,  \* history: what was last saved, seeded or edited, as read
  since,     \* history: the values of intended since the reader began
  handed,    \* history: an edit was under way since the reader began
  kept       \* history: what must survive; {} when nothing is promised

counters == <<edits, jobs, boots>>
vars == <<file, disk, env, sys, queue, w, r, editor, counters,
          intended, since, handed, kept>>

Error  == [k \in {} |-> ""]

-----------------------------------------------------------------------------
(* Values and texts.  A config maps each key to its canonical string.       *)

\* canonical: x is a string, an integer or a boolean; Unset is refused.
Accepts(k, x) ==
  CASE Kind(k) = "int"   -> x.t \in {"int", "str"} /\ x.s \in Ints
    [] Kind(k) = "bool"  -> x.t \in {"bool", "str"} /\ x.s \in Bools
    [] Kind(k) = "token" -> x.t = "str" /\ x.s \in Tokens
Text(s) == [t |-> "str", s |-> s]
Strings == Ints \cup Bools \cup Tokens
Configs == {c \in [Keys -> Strings] : \A k \in Keys : Accepts(k, Text(c[k]))}

Line(k, v) == [key |-> k, val |-> v, canon |-> TRUE]
Render(c) == [i \in DOMAIN Schema |-> Line(Schema[i].key, c[Schema[i].key])]

\* What a complete text gives each key.
Said(text) == [k \in Keys |-> text[CHOOSE i \in DOMAIN text : text[i].key = k].val]

\* parse_file, one line after the other.  Mutant: any order will do.
LineOK(text, i) ==
  LET l == text[i] IN
  /\ l.key \in Keys /\ l.canon
  /\ \A j \in 1..(i - 1) : text[j].key # l.key
AnyOrder(text) == {text[i].key : i \in DOMAIN text} = Keys
InOrder(text) == [i \in DOMAIN text |-> text[i].key] = [i \in DOMAIN Schema |-> Schema[i].key]
Parsed(text) ==
  IF /\ text # <<>> /\ \A i \in DOMAIN text : LineOK(text, i)
     /\ InOrder(text)
     /\ \A i \in DOMAIN text : Accepts(text[i].key, Text(text[i].val))
  THEN Said(text) ELSE Error

\* resolve without a file: the environment, then the defaults.
\* Mutant: what the environment has is not validated.
Default(k) == CASE Kind(k) = "int" -> "0" [] Kind(k) = "bool" -> "true" [] OTHER -> ""
Unchecked(e) == [k \in Keys |-> IF e[k] = Unset THEN Default(k) ELSE e[k]]
FromEnv(e) ==
  LET c == [k \in Keys |-> IF e[k] = Unset \/ (e[k] = "" /\ Kind(k) # "token")
                           THEN Default(k) ELSE e[k]]
  IN IF \A k \in Keys : Accepts(k, Text(c[k])) THEN c ELSE Error

\* What a text says, by definition: it is what render makes of a config.
Texts == {Render(c) : c \in Configs}
Meaning(text, e) ==
  IF text = Absent THEN FromEnv(e)
  ELSE IF text \in Texts THEN Said(text) ELSE Error

\* merge.  Mutant: the other keys start from the defaults.
Defaulted(c, set) == [k \in Keys |-> IF k \in DOMAIN set THEN set[k].s ELSE Default(k)]
Merged(c, set) == [k \in Keys |-> IF k \in DOMAIN set THEN set[k].s ELSE c[k]]

-----------------------------------------------------------------------------
Idle == [pc |-> "idle", conf |-> Error, set |-> Error, clash |-> FALSE]
Seeding == [Idle EXCEPT !.pc = "look"]
NoReader == [pc |-> "idle", conf |-> Error]
NoEdit == Absent

Init ==
  /\ file \in {Absent} \cup Edits /\ disk = {file}
  /\ env \in Envs /\ sys = "boot"
  /\ queue = <<>> /\ w = Seeding /\ r = NoReader /\ editor = NoEdit
  /\ edits = 0 /\ jobs = 0 /\ boots = 0
  /\ intended = Meaning(file, env) /\ since = {} /\ handed = FALSE /\ kept = {}

\* Whatever becomes visible, a reader may have seen it.
Intends(c) ==
  /\ intended' = c
  /\ since' = IF r.pc = "idle" THEN {} ELSE since \cup {c}

-----------------------------------------------------------------------------
(* The writer.                                                              *)

\* How a writer ends: a seed that fails fails the boot, and s6 is never started.
Stops(ok) ==
  /\ w' = Idle
  /\ sys' = IF sys = "up" THEN "up" ELSE IF ok THEN "up" ELSE "failed"

\* resolve: lstat, then the file is read; one that has gone by then is an error.
WriterLooks ==
  /\ w.pc = "look"
  /\ IF file # Absent THEN w' = [w EXCEPT !.pc = "parse"] /\ UNCHANGED sys
     ELSE IF FromEnv(env) = Error THEN Stops(FALSE)
     ELSE w' = [w EXCEPT !.pc = "check", !.conf = Merged(FromEnv(env), w.set)] /\ UNCHANGED sys
  /\ UNCHANGED <<file, disk, env, queue, r, editor, counters, intended, since, handed, kept>>

Parsing(text) == IF text = Absent THEN Error ELSE Parsed(text)
WriterParses ==
  /\ w.pc = "parse"
  /\ IF Parsing(file) = Error THEN Stops(FALSE)
     ELSE w' = [w EXCEPT !.pc = "check", !.conf = Merged(Parsing(file), w.set)] /\ UNCHANGED sys
  /\ UNCHANGED <<file, disk, env, queue, r, editor, counters, intended, since, handed, kept>>

\* seed_if_absent: a file that is there is left alone.
LeftAlone == sys = "boot" /\ file # Absent
WriterChecks ==
  /\ w.pc = "check"
  /\ IF LeftAlone THEN Stops(TRUE)
     ELSE w' = [w EXCEPT !.pc = "fill"] /\ UNCHANGED sys
  /\ UNCHANGED <<file, disk, env, queue, r, editor, counters, intended, since, handed, kept>>

\* The temporary file is created, written and synced; nobody reads that name.
WriterFills ==
  /\ w.pc = "fill" /\ w' = [w EXCEPT !.pc = "replace"]
  /\ UNCHANGED <<file, disk, env, sys, queue, r, editor, counters, intended, since, handed, kept>>

\* The disk has the old file or the new one until the directory is synced.
\* Mutant: the content was not synced before the rename.
Unsynced == disk \cup {<<>>, Render(w.conf)}
OldOrNew == disk \cup {Render(w.conf)}
WriterReplaces ==
  /\ w.pc = "replace" /\ w' = [w EXCEPT !.pc = "sync"]
  /\ file' = Render(w.conf) /\ disk' = OldOrNew
  /\ editor' = NoEdit  \* an edit under way goes on in the file that was replaced
  /\ Intends(w.conf)
  /\ kept' = IF kept = {} THEN {} ELSE kept \cup {w.conf}
  /\ UNCHANGED <<env, sys, queue, r, counters, handed>>

WriterSyncs ==
  /\ w.pc = "sync" /\ Stops(TRUE)
  /\ \/ disk' = {file} /\ kept' = IF w.clash THEN kept ELSE {w.conf}
     \/ UNCHANGED <<disk, kept>>  \* best effort
  /\ UNCHANGED <<file, env, queue, r, editor, counters, intended, since, handed>>

\* A save that cannot create, write, own or rename leaves the file alone.
WriterFails ==
  /\ w.pc \in {"fill", "replace"} /\ Stops(FALSE)
  /\ UNCHANGED <<file, disk, env, queue, r, editor, counters, intended, since, handed, kept>>

-----------------------------------------------------------------------------
(* jobd: one job at a time.                                                 *)

Valid(set) == \A k \in DOMAIN set : k \in Keys /\ Accepts(k, set[k])
Submit ==
  /\ sys = "up" /\ jobs < MaxJobs /\ jobs' = jobs + 1
  /\ \E set \in Payloads : Valid(set) /\ queue' = Append(queue, set)
  /\ UNCHANGED <<file, disk, env, sys, w, r, editor, edits, boots, intended, since, handed, kept>>

JobBegins ==
  /\ sys = "up" /\ w.pc = "idle" /\ queue # <<>>
  /\ w' = [Idle EXCEPT !.pc = "look", !.set = Head(queue)] /\ queue' = Tail(queue)
  /\ UNCHANGED <<file, disk, env, sys, r, editor, counters, intended, since, handed, kept>>

\* The temporary file of a killed jobd stays; its name is never used again.
JobdDies ==
  /\ sys = "up" /\ w.pc # "idle" /\ w' = Idle
  /\ UNCHANGED <<file, disk, env, sys, queue, r, editor, counters, intended, since, handed, kept>>

-----------------------------------------------------------------------------
(* A reader: resolve.                                                       *)

ReaderBegins ==
  /\ sys = "up" /\ r.pc \in {"idle", "done"}
  /\ r' = IF file = Absent THEN [pc |-> "done", conf |-> FromEnv(env)]
          ELSE [pc |-> "parse", conf |-> Error]
  /\ since' = {intended} /\ handed' = (editor # NoEdit)
  /\ UNCHANGED <<file, disk, env, sys, queue, w, editor, counters, intended, kept>>

ReaderParses ==
  /\ r.pc = "parse" /\ r' = [pc |-> "done", conf |-> Parsing(file)]
  /\ UNCHANGED <<file, disk, env, sys, queue, w, editor, counters, intended, since, handed, kept>>

-----------------------------------------------------------------------------
(* The operator and the machine.                                            *)

ByHand ==
  /\ edits < MaxEdits /\ edits' = edits + 1
  /\ w' = [w EXCEPT !.clash = w.pc # "idle"]
  /\ handed' = TRUE /\ kept' = {}
  /\ UNCHANGED <<env, sys, queue, r, jobs, boots>>

EditBegins ==
  /\ editor = NoEdit /\ editor' \in Edits /\ ByHand
  /\ file' = <<>> /\ disk' = disk \cup {<<>>}
  /\ UNCHANGED <<intended, since>>

EditEnds ==
  /\ editor # NoEdit /\ editor' = NoEdit
  /\ file' = editor /\ disk' = disk \cup {editor}
  /\ Intends(Meaning(editor, env)) /\ w' = [w EXCEPT !.clash = w.pc # "idle"]
  /\ UNCHANGED <<env, sys, queue, r, counters, handed, kept>>

Deletes ==
  /\ file # Absent /\ editor = NoEdit /\ ByHand
  /\ file' = Absent /\ disk' = disk \cup {Absent}
  /\ Intends(FromEnv(env)) /\ UNCHANGED editor

\* The container is started again, perhaps with other seeds, perhaps after a
\* loss of power.
Boot ==
  /\ boots < MaxBoots /\ boots' = boots + 1
  /\ env' \in Envs /\ sys' = "boot"
  /\ queue' = <<>> /\ w' = Seeding /\ r' = NoReader /\ editor' = NoEdit
  /\ \/ UNCHANGED <<file, disk>>
     \/ file' \in disk /\ disk' = {file'}
  /\ intended' = Meaning(file', env') /\ since' = {} /\ handed' = FALSE
  /\ UNCHANGED <<edits, jobs, kept>>

-----------------------------------------------------------------------------
Next ==
  \/ WriterLooks \/ WriterParses \/ WriterChecks \/ WriterFills
  \/ WriterReplaces \/ WriterSyncs \/ WriterFails
  \/ Submit \/ JobBegins \/ JobdDies
  \/ ReaderBegins \/ ReaderParses
  \/ EditBegins \/ EditEnds \/ Deletes \/ Boot

Spec == Init /\ [][Next]_vars

-----------------------------------------------------------------------------
(* Properties.                                                              *)

Answers == Configs \cup {Error}

\* The configs that are read, merged and written are complete and valid.
TypeOK ==
  /\ sys \in {"boot", "up", "failed"} /\ env \in Envs
  /\ w.pc \in {"idle", "look", "parse", "check", "fill", "replace", "sync"}
  /\ w.pc \in {"check", "fill", "replace", "sync"} => w.conf \in Configs
  /\ sys = "boot" => w.pc # "idle"
  /\ r.pc \in {"idle", "parse", "done"} /\ r.conf \in Answers
  /\ intended \in Answers /\ since \subseteq Answers /\ kept \subseteq Configs
  /\ file \in disk \cup {<<>>} /\ queue \in Seq(Payloads)
  /\ edits \in 0..MaxEdits /\ jobs \in 0..MaxJobs /\ boots \in 0..MaxBoots

\* "omitted keys keep their value, an omitted token keeps the token", "fail
\* closed rather than overwrite the evidence" (jobd 1550-1554), "an existing
\* file is never re-rendered" (palwarden_ops 375): unless somebody edits the
\* file at the same time, a save changes the keys it was given in a valid file,
\* and a seed only makes a file.
SaveKeepsTheRest ==
  [][w.pc = "replace" /\ w'.pc = "sync" /\ ~w.clash =>
       IF sys = "boot" THEN file = Absent
       ELSE /\ Meaning(file, env) # Error
            /\ \A k \in Keys : Meaning(file', env)[k] = IF k \in DOMAIN w.set THEN w.set[k].s
                                                  ELSE Meaning(file, env)[k]]_vars

\* A reader that runs beside a save, a crash of jobd and an edit gets a config
\* that was in effect while it read, never a mixture and never the defaults in
\* place of a file; an error only while the file is edited by hand.
AnswersAreWhole ==
  r.pc = "done" => r.conf \in since \/ (handed /\ r.conf = Error)

\* What was saved and synced is still in effect after crashes, starts with
\* other seeds and losses of power, until it is saved or edited again.
SavedIsDurable == kept # {} /\ editor = NoEdit => Meaning(file, env) \in kept
=============================================================================
