-------------------------- MODULE OpsConfigProofs ---------------------------
(* Theorems about OpsConfig, for every schema, every set of values and of    *)
(* texts, and every bound: the parser reads exactly what the writer renders, *)
(* a save keeps the rest, a reader gets a whole answer, and what was saved   *)
(* survives crashes and losses of power.                                     *)
EXTENDS OpsConfig, TLAPS

-----------------------------------------------------------------------------
(* Values and texts.                                                        *)

\* The schema has each key once, with a kind.
LEMMA SchemaKeys ==
  /\ DOMAIN Schema = 1..Len(Schema) /\ Len(Schema) \in Nat \ {0}
  /\ \A i \in DOMAIN Schema : Schema[i].key \in Keys /\ Schema[i].key \in STRING
  /\ \A k \in Keys : \E i \in DOMAIN Schema : Schema[i].key = k
  /\ \A k \in Keys : Kind(k) \in {"int", "bool", "token"}
<1>1. Schema \in Seq([key : STRING, kind : {"int", "bool", "token"}]) /\ Schema # <<>>
  BY SchemaAssumption
<1>2. DOMAIN Schema = 1..Len(Schema) /\ Len(Schema) \in Nat \ {0}
  BY <1>1
<1>3. \A i \in DOMAIN Schema : Schema[i] \in [key : STRING, kind : {"int", "bool", "token"}]
  <2> DEFINE R == [key : STRING, kind : {"int", "bool", "token"}]
  <2>1. Schema \in Seq(R)
    BY <1>1
  <2> HIDE DEF R
  <2>2. \A i \in DOMAIN Schema : Schema[i] \in R
    BY <2>1
  <2> QED BY <2>2 DEF R
<1>4. ASSUME NEW k \in Keys PROVE Kind(k) \in {"int", "bool", "token"}
  <2>1. PICK i \in DOMAIN Schema : Schema[i].key = k
    BY DEF Keys
  <2>2. LET n == CHOOSE n \in DOMAIN Schema : Schema[n].key = k
        IN  n \in DOMAIN Schema
    BY <2>1
  <2> QED BY <1>3, <2>2 DEF Kind
<1> QED BY <1>2, <1>3, <1>4 DEF Keys

\* A config has at least one key: no answer is both a config and an error.
LEMMA ErrorIsNoConfig == Error \notin Configs
<1>1. Keys # {}
  BY SchemaKeys
<1> QED BY <1>1 DEF Error, Configs

\* A valid string is one of the strings, and it is a string.
LEMMA AcceptedStrings ==
  ASSUME NEW k \in Keys, NEW v, Accepts(k, Text(v))
  PROVE  v \in Strings /\ v \in STRING
<1>1. CASE Kind(k) = "int"
  BY <1>1, StringAssumption DEF Accepts, Text, Strings
<1>2. CASE Kind(k) = "bool"
  <2>1. v \in Bools
    BY <1>2 DEF Accepts, Text
  <2> QED BY <2>1, StringAssumption DEF Strings
<1>3. CASE Kind(k) = "token"
  BY <1>3, StringAssumption DEF Accepts, Text, Strings
<1> QED BY <1>1, <1>2, <1>3, SchemaKeys

\* render: one line for each key, in the order of the schema.
LEMMA Rendered ==
  ASSUME NEW c \in Configs
  PROVE  /\ DOMAIN Render(c) = DOMAIN Schema
         /\ Render(c) \in Seq(Lines) /\ Render(c) # <<>>
         /\ \A i \in DOMAIN Schema : /\ Render(c)[i].key = Schema[i].key
                                     /\ Render(c)[i].val = c[Schema[i].key]
                                     /\ Render(c)[i].canon
<1>1. \A k \in Keys : c[k] \in STRING
  BY AcceptedStrings DEF Configs
<1>2. \A i \in DOMAIN Schema : Line(Schema[i].key, c[Schema[i].key]) \in Lines
  BY <1>1, SchemaKeys DEF Line, Lines
<1>3. Render(c) \in [1..Len(Schema) -> Lines]
  BY <1>2, SchemaKeys DEF Render
<1>4. Render(c) \in Seq(Lines) /\ Len(Render(c)) = Len(Schema)
  BY <1>3, SchemaKeys
<1>5. Render(c) # <<>>
  BY <1>4, SchemaKeys
<1> QED BY <1>4, <1>5, SchemaKeys DEF Render, Line

\* Reading the values back.
LEMMA SaidOfRendered ==
  ASSUME NEW c \in Configs
  PROVE  Said(Render(c)) = c
<1>1. ASSUME NEW k \in Keys PROVE Said(Render(c))[k] = c[k]
  <2> DEFINE i == CHOOSE n \in DOMAIN Render(c) : Render(c)[n].key = k
  <2>1. \E n \in DOMAIN Render(c) : Render(c)[n].key = k
    BY Rendered, SchemaKeys
  <2>2. i \in DOMAIN Schema /\ Render(c)[i].key = k
    BY <2>1, Rendered
  <2>3. Render(c)[i].val = c[k]
    BY <2>2, Rendered
  <2> QED BY <2>3 DEF Said
<1>2. c \in [Keys -> Strings]
  BY DEF Configs
<1> QED BY <1>1, <1>2 DEF Said

\* The parser accepts what render makes, and reads it back.
LEMMA ParsesRendered ==
  ASSUME NEW c \in Configs
  PROVE  Parsed(Render(c)) = c
<1> DEFINE text == Render(c)
<1>1. ASSUME NEW i \in DOMAIN text PROVE LineOK(text, i)
  <2>1. DOMAIN Schema = 1..Len(Schema) /\ Len(Schema) \in Nat
    BY SchemaKeys
  <2>2. \A j \in 1..(i - 1) : j \in DOMAIN Schema /\ j # i
    BY <2>1, Rendered
  <2>3. \A j \in 1..(i - 1) : text[j].key # text[i].key
    BY <2>2, Rendered, SchemaAssumption
  <2> QED BY <2>3, Rendered, SchemaKeys DEF LineOK
<1>2. InOrder(text)
  BY Rendered DEF InOrder
<1>3. ASSUME NEW i \in DOMAIN text PROVE Accepts(text[i].key, Text(text[i].val))
  <2>1. \A k \in Keys : Accepts(k, Text(c[k]))
    BY DEF Configs
  <2>2. i \in DOMAIN Schema /\ text[i].key = Schema[i].key /\ text[i].val = c[Schema[i].key]
    BY <1>3, Rendered
  <2> HIDE DEF text
  <2> QED BY <2>1, <2>2, SchemaKeys
<1>4. text # <<>>
  BY Rendered
<1> HIDE DEF text
<1>5. Parsed(text) = Said(text)
  BY <1>1, <1>2, <1>3, <1>4 DEF Parsed
<1> QED BY <1>5, SaidOfRendered DEF text

\* The parser accepts nothing else.
LEMMA ParsesOnlyRendered ==
  ASSUME NEW text \in Seq(Lines), Parsed(text) # Error
  PROVE  \E c \in Configs : text = Render(c)
<1> DEFINE c == Said(text)
<1>1. /\ InOrder(text)
      /\ \A i \in DOMAIN text : LineOK(text, i) /\ Accepts(text[i].key, Text(text[i].val))
  BY DEF Parsed
<1>2. DOMAIN text = DOMAIN Schema
  BY <1>1 DEF InOrder
<1>3. \A i \in DOMAIN Schema : text[i].key = Schema[i].key
  BY <1>1, <1>2 DEF InOrder
<1>4. ASSUME NEW i \in DOMAIN Schema PROVE c[Schema[i].key] = text[i].val
  <2> DEFINE n == CHOOSE m \in DOMAIN text : text[m].key = Schema[i].key
  <2>1. n \in DOMAIN Schema /\ text[n].key = Schema[i].key
    BY <1>2, <1>3, <1>4
  <2>2. n = i
    BY <1>3, <1>4, <2>1, SchemaAssumption
  <2> QED BY <2>2, SchemaKeys DEF Said
<1>5. \A i \in DOMAIN Schema : Accepts(Schema[i].key, Text(text[i].val))
  BY <1>1, <1>2, <1>3
<1>6. ASSUME NEW k \in Keys PROVE c[k] \in Strings /\ Accepts(k, Text(c[k]))
  <2>1. PICK i \in DOMAIN Schema : Schema[i].key = k
    BY SchemaKeys
  <2>2. c[k] = text[i].val /\ Accepts(k, Text(text[i].val))
    BY <1>4, <1>5, <2>1
  <2> HIDE DEF c
  <2> QED BY <2>2, AcceptedStrings
<1>7. c \in Configs
  <2>1. c = [k \in Keys |-> c[k]]
    BY DEF Said
  <2> HIDE DEF c
  <2> QED BY <1>6, <2>1 DEF Configs
<1>8. ASSUME NEW i \in DOMAIN Schema PROVE text[i] = Line(Schema[i].key, c[Schema[i].key])
  <2>1. text[i] \in Lines
    BY <1>2, <1>8
  <2>2. text[i].canon = TRUE
    BY <1>1, <1>2, <2>1 DEF LineOK, Lines
  <2>3. text[i] = [key |-> text[i].key, val |-> text[i].val, canon |-> text[i].canon]
    BY <2>1 DEF Lines
  <2> HIDE DEF c
  <2> QED BY <1>3, <1>4, <2>2, <2>3 DEF Line
<1>9. text = [i \in DOMAIN text |-> text[i]]
  OBVIOUS
<1>10. text = Render(c)
  <2> HIDE DEF c
  <2> QED BY <1>2, <1>8, <1>9 DEF Render
<1> QED BY <1>7, <1>10

\* parse_file and render agree: for every text, the parser returns the config
\* that render makes the text of, and an error for a text that it makes of none.
THEOREM ParseIsInverseOfRender ==
  ASSUME NEW text \in Seq(Lines), NEW e
  PROVE  Parsed(text) = Meaning(text, e)
<1>1. text # Absent
  BY EditsAssumption
<1>2. CASE text \in Texts
  <2>1. PICK c \in Configs : text = Render(c)
    BY <1>2 DEF Texts
  <2> QED BY <1>1, <1>2, <2>1, ParsesRendered, SaidOfRendered DEF Meaning
<1>3. CASE text \notin Texts
  <2>1. Parsed(text) = Error
    BY <1>3, ParsesOnlyRendered DEF Texts
  <2> QED BY <1>1, <1>3, <2>1 DEF Meaning
<1> QED BY <1>2, <1>3

\* What a config, the environment and a text mean.
LEMMA Meanings ==
  /\ \A c \in Configs : \A e : Meaning(Render(c), e) = c /\ Render(c) # Absent
  /\ \A e : FromEnv(e) \in Answers
  /\ \A text, e : Meaning(text, e) \in Answers
<1>1. ASSUME NEW c \in Configs, NEW e PROVE Meaning(Render(c), e) = c /\ Render(c) # Absent
  BY Rendered, SaidOfRendered, EditsAssumption DEF Meaning, Texts
<1>2. ASSUME NEW e PROVE FromEnv(e) \in Answers
  <2> DEFINE c == [k \in Keys |-> IF e[k] = Unset \/ (e[k] = "" /\ Kind(k) # "token")
                                  THEN Default(k) ELSE e[k]]
  <2>1. ASSUME \A k \in Keys : Accepts(k, Text(c[k])) PROVE c \in Configs
    <3>1. c = [k \in Keys |-> c[k]]
      OBVIOUS
    <3> HIDE DEF c
    <3> QED BY <2>1, <3>1, AcceptedStrings DEF Configs
  <2> QED BY <2>1 DEF FromEnv, Answers
<1>3. ASSUME NEW text, NEW e PROVE Meaning(text, e) \in Answers
  BY <1>2, SaidOfRendered DEF Meaning, Texts, Answers
<1> QED BY <1>1, <1>2, <1>3

\* merge of a config and a valid save.
LEMMA MergeIsConfig ==
  ASSUME NEW c \in Configs, NEW set, Valid(set)
  PROVE  Merged(c, set) \in Configs
<1>1. ASSUME NEW k \in Keys PROVE Accepts(k, Text(Merged(c, set)[k]))
  <2>1. CASE k \in DOMAIN set
    <3>1. Accepts(k, set[k])
      BY <2>1 DEF Valid
    <3>2. Accepts(k, Text(set[k].s))
      BY <3>1, SchemaKeys DEF Accepts, Text
    <3> QED BY <2>1, <3>2 DEF Merged
  <2>2. CASE k \notin DOMAIN set
    BY <2>2 DEF Merged, Configs
  <2> QED BY <2>1, <2>2
<1>2. Merged(c, set) = [k \in Keys |-> Merged(c, set)[k]]
  BY DEF Merged
<1> QED BY <1>1, <1>2, AcceptedStrings DEF Configs


-----------------------------------------------------------------------------
(* The inductive invariant.                                                 *)

\* The records of the writer and of the reader.
Writers ==
  [pc : {"idle", "look", "parse", "check", "fill", "replace", "sync"},
   conf : Answers, set : {Error} \cup Payloads, clash : BOOLEAN]
Readers == [pc : {"idle", "parse", "done"}, conf : Answers]
RecordsOK == w \in Writers /\ r \in Readers

\* What the name shows, and may show after a loss of power, is a text or
\* nothing; the editor has truncated the file it is about to fill.  With no
\* editor at work the history variable follows what the file means.
FileInv ==
  /\ disk \cup {file} \subseteq Seq(Lines) \cup {Absent}
  /\ editor \in Edits \cup {Absent}
  /\ editor # NoEdit => file = <<>>
  /\ editor = NoEdit => intended = Meaning(file, env)

\* Only saves that the validator lets pass are queued and run.
QueueInv ==
  /\ Valid(w.set)
  /\ \A i \in DOMAIN queue : Valid(queue[i])

\* A writer that nobody disturbed holds the save merged into the file as it
\* is now, and a seeder has found no file; what it has put there is still there.
WriterInv ==
  ~w.clash =>
    /\ w.pc \in {"check", "fill", "replace"} =>
         Meaning(file, env) # Error /\ w.conf = Merged(Meaning(file, env), w.set)
    /\ w.pc \in {"fill", "replace"} /\ sys = "boot" => file = Absent
    /\ w.pc = "sync" => file = Render(w.conf) /\ editor = NoEdit

\* A reader that has seen a file finds one later, unless it was edited.
ReaderInv ==
  /\ r.pc # "idle" => intended \in since
  /\ r.pc # "idle" /\ editor # NoEdit => handed
  /\ r.pc = "parse" /\ file = Absent => handed
  /\ AnswersAreWhole

\* Whatever the disk may show is one of the configs that must survive.
KeptInv ==
  kept # {} =>
    /\ editor = NoEdit
    /\ \A d \in disk \cup {file} : \E c \in kept : c \in Configs /\ d = Render(c)

IInv == TypeOK /\ RecordsOK /\ FileInv /\ QueueInv /\ WriterInv /\ ReaderInv /\ KeptInv


\* An empty file is a file.
LEMMA EmptyText == <<>> \in Seq(Lines) /\ Absent # <<>>
<1>1. <<>> \in Seq(Lines)
  OBVIOUS
<1> QED BY <1>1, EditsAssumption

\* Reading the file gives what it means, or an error when it is gone.
LEMMA ParsingMeans ==
  ASSUME FileInv
  PROVE  /\ Parsing(file) \in Answers
         /\ file # Absent => Parsing(file) = Meaning(file, env)
         /\ file = Absent => Parsing(file) = Error /\ FromEnv(env) = Meaning(file, env)
         /\ file = <<>> => Parsing(file) = Error
<1>1. CASE file = Absent
  BY <1>1, EmptyText DEF Parsing, Meaning, Answers
<1>2. CASE file # Absent
  <2>1. file \in Seq(Lines)
    BY <1>2 DEF FileInv
  <2>2. Parsing(file) = Meaning(file, env)
    BY <1>2, <2>1, ParseIsInverseOfRender DEF Parsing
  <2>3. file = <<>> => Parsing(file) = Error
    BY <1>2 DEF Parsing, Parsed
  <2> QED BY <1>2, <2>2, <2>3, Meanings
<1> QED BY <1>1, <1>2

\* Every initial state satisfies the invariant.
LEMMA InitInvariant == Init => IInv
<1> SUFFICES ASSUME Init PROVE IInv
  OBVIOUS
<1> USE DEF Init
<1>1. Valid(Error)
  BY DEF Valid, Error
<1>2. w = [pc |-> "look", conf |-> Error, set |-> Error, clash |-> FALSE]
  BY DEF Seeding, Idle
<1>3. r = [pc |-> "idle", conf |-> Error]
  BY DEF NoReader
<1>4. intended \in Answers
  BY Meanings
<1>5. TypeOK
  BY <1>2, <1>3, <1>4, BoundAssumption DEF TypeOK, Answers
<1>6. RecordsOK
  BY <1>2, <1>3 DEF RecordsOK, Writers, Readers, Answers
<1>7. FileInv
  BY EditsAssumption DEF FileInv, NoEdit
<1>8. QueueInv /\ WriterInv /\ ReaderInv /\ KeptInv
  BY <1>1, <1>2, <1>3 DEF QueueInv, WriterInv, ReaderInv, AnswersAreWhole, KeptInv
<1> QED BY <1>5, <1>6, <1>7, <1>8 DEF IInv


\* The records a process starts and ends with.
LEMMA FreshRecords == Idle \in Writers /\ Seeding \in Writers /\ NoReader \in Readers
<1>1. Error \in Answers
  BY DEF Answers
<1> QED BY <1>1 DEF Idle, Seeding, NoReader, Writers, Readers

\* What the writer and the reader hold.
LEMMA RecordsStep ==
  TypeOK /\ RecordsOK /\ FileInv /\ QueueInv /\ [Next]_vars => RecordsOK'
<1> SUFFICES ASSUME TypeOK, RecordsOK, FileInv, QueueInv, [Next]_vars PROVE RecordsOK'
  OBVIOUS
<1> USE DEF RecordsOK, vars, counters
<1>a. Idle \in Writers /\ Seeding \in Writers /\ NoReader \in Readers
  BY FreshRecords
<1>b. \A p \in {"idle", "look", "parse", "check", "fill", "replace", "sync"} :
         [w EXCEPT !.pc = p] \in Writers
  BY DEF Writers
<1>c. \A c \in Answers : [w EXCEPT !.pc = "check", !.conf = c] \in Writers
  BY DEF Writers
<1>d. \A x \in BOOLEAN : [w EXCEPT !.clash = x] \in Writers
  BY DEF Writers
<1>e. Parsing(file) \in Answers /\ FromEnv(env) \in Answers
  BY ParsingMeans, Meanings
<1>f. \A c \in Answers : c # Error => Merged(c, w.set) \in Answers
  BY MergeIsConfig DEF QueueInv, Answers
<1>g. \A p \in {"parse", "done"}, c \in Answers : [pc |-> p, conf |-> c] \in Readers
  BY DEF Readers
<1>h. Error \in Answers
  BY DEF Answers
<1>1. ASSUME WriterLooks PROVE RecordsOK'
  BY <1>1, <1>a, <1>b, <1>c, <1>e, <1>f DEF WriterLooks, Stops
<1>2. ASSUME WriterParses PROVE RecordsOK'
  BY <1>2, <1>a, <1>b, <1>c, <1>e, <1>f DEF WriterParses, Stops
<1>3. ASSUME WriterChecks PROVE RecordsOK'
  BY <1>3, <1>a, <1>b DEF WriterChecks, Stops, LeftAlone
<1>4. ASSUME WriterFills PROVE RecordsOK'
  BY <1>4, <1>b DEF WriterFills
<1>5. ASSUME WriterReplaces PROVE RecordsOK'
  BY <1>5, <1>b DEF WriterReplaces, OldOrNew, Intends
<1>6. ASSUME WriterSyncs PROVE RecordsOK'
  BY <1>6, <1>a DEF WriterSyncs, Stops
<1>7. ASSUME WriterFails PROVE RecordsOK'
  BY <1>7, <1>a DEF WriterFails, Stops
<1>8. ASSUME Submit PROVE RecordsOK'
  BY <1>8 DEF Submit
<1>9. ASSUME JobBegins PROVE RecordsOK'
  <2>1. Head(queue) \in Payloads
    BY <1>9 DEF JobBegins, TypeOK
  <2>2. \A s \in Payloads : [Idle EXCEPT !.pc = "look", !.set = s] \in Writers
    BY <1>a DEF Writers
  <2> QED BY <1>9, <2>1, <2>2 DEF JobBegins
<1>10. ASSUME JobdDies PROVE RecordsOK'
  BY <1>10, <1>a DEF JobdDies
<1>11. ASSUME ReaderBegins PROVE RecordsOK'
  BY <1>11, <1>e, <1>g, <1>h DEF ReaderBegins
<1>12. ASSUME ReaderParses PROVE RecordsOK'
  BY <1>12, <1>e, <1>g DEF ReaderParses
<1>13. ASSUME EditBegins PROVE RecordsOK'
  BY <1>13, <1>d DEF EditBegins, ByHand
<1>14. ASSUME EditEnds PROVE RecordsOK'
  BY <1>14, <1>d DEF EditEnds, Intends
<1>15. ASSUME Deletes PROVE RecordsOK'
  BY <1>15, <1>d DEF Deletes, ByHand, Intends
<1>16. ASSUME Boot PROVE RecordsOK'
  BY <1>16, <1>a DEF Boot
<1>17. CASE UNCHANGED vars
  BY <1>17
<1> QED BY <1>1, <1>2, <1>3, <1>4, <1>5, <1>6, <1>7, <1>8, <1>9, <1>10, <1>11,
     <1>12, <1>13, <1>14, <1>15, <1>16, <1>17 DEF Next

\* Types, and that a writer past the reading holds a config.
LEMMA TypeStep ==
  TypeOK /\ RecordsOK /\ FileInv /\ QueueInv /\ [Next]_vars => TypeOK'
<1> SUFFICES ASSUME TypeOK, RecordsOK, FileInv, QueueInv, [Next]_vars PROVE
     TypeOK'
  OBVIOUS
<1> USE DEF TypeOK, vars, counters
<1>a. RecordsOK'
  BY RecordsStep
<1>b. w' \in Writers /\ r'.pc \in {"idle", "parse", "done"} /\ r'.conf \in Answers
  BY <1>a DEF RecordsOK, Readers
<1>c. /\ w.pc \in {"idle", "look", "parse", "check", "fill", "replace", "sync"}
      /\ w = [pc |-> w.pc, conf |-> w.conf, set |-> w.set, clash |-> w.clash]
  BY DEF RecordsOK, Writers
<1>d. Parsing(file) \in Answers /\ FromEnv(env) \in Answers
  BY ParsingMeans, Meanings
<1>e. \A c \in Answers : c # Error => Merged(c, w.set) \in Configs
  BY MergeIsConfig DEF QueueInv, Answers
<1>f. \A c \in Configs : c \in Answers
  BY DEF Answers
<1>g. \A text, e : Meaning(text, e) \in Answers
  BY Meanings
<1>h. Idle.pc = "idle" /\ Seeding.pc = "look"
  BY DEF Idle, Seeding
<1>i. intended' \in Answers /\ since' \subseteq Answers
  <2>1. \A c \in Answers : Intends(c) => intended' \in Answers /\ since' \subseteq Answers
    BY DEF Intends
  <2>2. CASE WriterReplaces
    <3>1. w.conf \in Configs
      BY <2>2 DEF WriterReplaces
    <3> QED BY <2>1, <2>2, <3>1, <1>f DEF WriterReplaces
  <2>3. CASE EditEnds
    BY <2>1, <2>3, <1>g DEF EditEnds
  <2>4. CASE Deletes
    BY <2>1, <2>4, <1>d DEF Deletes
  <2>5. CASE ReaderBegins
    BY <2>5 DEF ReaderBegins
  <2>6. CASE Boot
    BY <2>6, <1>g DEF Boot
  <2>7. CASE UNCHANGED <<intended, since>>
    BY <2>7
  <2> QED BY <2>2, <2>3, <2>4, <2>5, <2>6, <2>7 DEF Next, WriterLooks, WriterParses,
      WriterChecks, WriterFills, WriterSyncs, WriterFails, Submit, JobBegins, JobdDies,
      ReaderParses, EditBegins
<1>1. ASSUME WriterLooks PROVE TypeOK'
  BY <1>1, <1>b, <1>c, <1>d, <1>e, <1>h, <1>i DEF WriterLooks, Stops
<1>2. ASSUME WriterParses PROVE TypeOK'
  BY <1>2, <1>b, <1>c, <1>d, <1>e, <1>h, <1>i DEF WriterParses, Stops
<1>3. ASSUME WriterChecks PROVE TypeOK'
  BY <1>3, <1>b, <1>c, <1>h, <1>i DEF WriterChecks, Stops, LeftAlone
<1>4. ASSUME WriterFills PROVE TypeOK'
  BY <1>4, <1>b, <1>c, <1>i DEF WriterFills
<1>5. ASSUME WriterReplaces PROVE TypeOK'
  BY <1>5, <1>b, <1>c, <1>i DEF WriterReplaces, OldOrNew, Intends
<1>6. ASSUME WriterSyncs PROVE TypeOK'
  BY <1>6, <1>b, <1>h, <1>i DEF WriterSyncs, Stops
<1>7. ASSUME WriterFails PROVE TypeOK'
  BY <1>7, <1>b, <1>h, <1>i DEF WriterFails, Stops
<1>8. ASSUME Submit PROVE TypeOK'
  <2>1. queue' \in Seq(Payloads)
    BY <1>8 DEF Submit
  <2>2. jobs' \in 0..MaxJobs
    BY <1>8, BoundAssumption DEF Submit
  <2> QED BY <1>8, <2>1, <2>2, <1>b, <1>i DEF Submit
<1>9. ASSUME JobBegins PROVE TypeOK'
  <2>1. w'.pc = "look"
    BY <1>9, <1>h DEF JobBegins, Idle
  <2>2. queue' \in Seq(Payloads)
    BY <1>9 DEF JobBegins
  <2> QED BY <1>9, <2>1, <2>2, <1>b, <1>i DEF JobBegins
<1>10. ASSUME JobdDies PROVE TypeOK'
  BY <1>10, <1>b, <1>h, <1>i DEF JobdDies
<1>11. ASSUME ReaderBegins PROVE TypeOK'
  BY <1>11, <1>b, <1>i DEF ReaderBegins
<1>12. ASSUME ReaderParses PROVE TypeOK'
  BY <1>12, <1>b, <1>i DEF ReaderParses
<1>13. ASSUME EditBegins PROVE TypeOK'
  BY <1>13, <1>b, <1>c, <1>i, BoundAssumption DEF EditBegins, ByHand
<1>14. ASSUME EditEnds PROVE TypeOK'
  BY <1>14, <1>b, <1>c, <1>i DEF EditEnds, Intends
<1>15. ASSUME Deletes PROVE TypeOK'
  BY <1>15, <1>b, <1>c, <1>i, BoundAssumption DEF Deletes, ByHand, Intends
<1>16. ASSUME Boot PROVE TypeOK'
  BY <1>16, <1>b, <1>h, <1>i, BoundAssumption DEF Boot
<1>17. CASE UNCHANGED vars
  BY <1>17
<1> QED BY <1>1, <1>2, <1>3, <1>4, <1>5, <1>6, <1>7, <1>8, <1>9, <1>10, <1>11,
     <1>12, <1>13, <1>14, <1>15, <1>16, <1>17 DEF Next

\* What the file and the disk may hold.
LEMMA FileStep ==
  TypeOK /\ RecordsOK /\ FileInv /\ QueueInv /\ [Next]_vars => FileInv'
<1> SUFFICES ASSUME TypeOK, RecordsOK, FileInv, QueueInv, [Next]_vars PROVE
     FileInv'
  OBVIOUS
<1> USE DEF FileInv, NoEdit, vars, counters
<1>a. w.pc = "replace" =>
        Render(w.conf) \in Seq(Lines) /\ Meaning(Render(w.conf), env) = w.conf
  BY Rendered, Meanings DEF TypeOK
<1>b. <<>> \in Seq(Lines) /\ Edits \subseteq Seq(Lines) /\ Absent \notin Seq(Lines)
  BY EditsAssumption
<1>c. FromEnv(env) = Meaning(Absent, env)
  BY DEF Meaning
<1>1. ASSUME WriterLooks PROVE FileInv'
  BY <1>1 DEF WriterLooks, Stops
<1>2. ASSUME WriterParses PROVE FileInv'
  BY <1>2 DEF WriterParses, Stops
<1>3. ASSUME WriterChecks PROVE FileInv'
  BY <1>3 DEF WriterChecks, Stops, LeftAlone
<1>4. ASSUME WriterFills PROVE FileInv'
  BY <1>4 DEF WriterFills
<1>5. ASSUME WriterReplaces PROVE FileInv'
  BY <1>5, <1>a DEF WriterReplaces, OldOrNew, Intends
<1>6. ASSUME WriterSyncs PROVE FileInv'
  BY <1>6 DEF WriterSyncs, Stops
<1>7. ASSUME WriterFails PROVE FileInv'
  BY <1>7 DEF WriterFails, Stops
<1>8. ASSUME Submit PROVE FileInv'
  BY <1>8 DEF Submit
<1>9. ASSUME JobBegins PROVE FileInv'
  BY <1>9 DEF JobBegins
<1>10. ASSUME JobdDies PROVE FileInv'
  BY <1>10 DEF JobdDies
<1>11. ASSUME ReaderBegins PROVE FileInv'
  BY <1>11 DEF ReaderBegins
<1>12. ASSUME ReaderParses PROVE FileInv'
  BY <1>12 DEF ReaderParses
<1>13. ASSUME EditBegins PROVE FileInv'
  BY <1>13, <1>b DEF EditBegins, ByHand
<1>14. ASSUME EditEnds PROVE FileInv'
  BY <1>14, <1>b DEF EditEnds, Intends
<1>15. ASSUME Deletes PROVE FileInv'
  BY <1>15, <1>b, <1>c DEF Deletes, ByHand, Intends
<1>16. ASSUME Boot PROVE FileInv'
  BY <1>16, <1>b DEF Boot
<1>17. CASE UNCHANGED vars
  BY <1>17
<1> QED BY <1>1, <1>2, <1>3, <1>4, <1>5, <1>6, <1>7, <1>8, <1>9, <1>10, <1>11,
     <1>12, <1>13, <1>14, <1>15, <1>16, <1>17 DEF Next

\* Only valid saves are queued and run.
LEMMA QueueStep ==
  TypeOK /\ RecordsOK /\ QueueInv /\ [Next]_vars => QueueInv'
<1> SUFFICES ASSUME TypeOK, RecordsOK, QueueInv, [Next]_vars PROVE QueueInv'
  OBVIOUS
<1> USE DEF QueueInv, vars, counters
<1>a. Valid(Error)
  BY DEF Valid, Error
<1>b. Idle.set = Error /\ Seeding.set = Error
  BY DEF Idle, Seeding
<1>c. w \in Writers
  BY DEF RecordsOK
<1>d. \A p : [w EXCEPT !.pc = p].set = w.set
  BY <1>c DEF Writers
<1>e. \A p, c : [w EXCEPT !.pc = p, !.conf = c].set = w.set
  BY <1>c DEF Writers
<1>f. \A x : [w EXCEPT !.clash = x].set = w.set
  BY <1>c DEF Writers
<1>1. ASSUME WriterLooks PROVE QueueInv'
  <2>1. w'.set \in {w.set, Idle.set}
    BY <1>1, <1>c DEF WriterLooks, Stops, Writers
  <2> QED BY <1>1, <2>1, <1>a, <1>b DEF WriterLooks
<1>2. ASSUME WriterParses PROVE QueueInv'
  <2>1. w'.set \in {w.set, Idle.set}
    BY <1>2, <1>c DEF WriterParses, Stops, Writers
  <2> QED BY <1>2, <2>1, <1>a, <1>b DEF WriterParses
<1>3. ASSUME WriterChecks PROVE QueueInv'
  BY <1>3, <1>a, <1>b, <1>d, <1>e, <1>f DEF WriterChecks, Stops, LeftAlone
<1>4. ASSUME WriterFills PROVE QueueInv'
  BY <1>4, <1>a, <1>b, <1>d, <1>e, <1>f DEF WriterFills
<1>5. ASSUME WriterReplaces PROVE QueueInv'
  BY <1>5, <1>a, <1>b, <1>d, <1>e, <1>f DEF WriterReplaces, OldOrNew, Intends
<1>6. ASSUME WriterSyncs PROVE QueueInv'
  BY <1>6, <1>a, <1>b, <1>d, <1>e, <1>f DEF WriterSyncs, Stops
<1>7. ASSUME WriterFails PROVE QueueInv'
  BY <1>7, <1>a, <1>b, <1>d, <1>e, <1>f DEF WriterFails, Stops
<1>8. ASSUME Submit PROVE QueueInv'
  <2>1. PICK set \in Payloads : Valid(set) /\ queue' = Append(queue, set)
    BY <1>8 DEF Submit
  <2>2. \A i \in DOMAIN queue' : Valid(queue'[i])
    BY <2>1 DEF TypeOK
  <2> QED BY <1>8, <2>2 DEF Submit
<1>9. ASSUME JobBegins PROVE QueueInv'
  <2>1. queue \in Seq(Payloads) /\ queue # <<>>
    BY <1>9 DEF JobBegins, TypeOK
  <2>2. Valid(Head(queue)) /\ w'.set = Head(queue)
    BY <1>9, <2>1 DEF JobBegins, Idle
  <2>3. \A i \in DOMAIN queue' : i + 1 \in DOMAIN queue /\ queue'[i] = queue[i + 1]
    BY <1>9, <2>1 DEF JobBegins
  <2> QED BY <2>2, <2>3
<1>10. ASSUME JobdDies PROVE QueueInv'
  BY <1>10, <1>a, <1>b, <1>d, <1>e, <1>f DEF JobdDies
<1>11. ASSUME ReaderBegins PROVE QueueInv'
  BY <1>11 DEF ReaderBegins
<1>12. ASSUME ReaderParses PROVE QueueInv'
  BY <1>12 DEF ReaderParses
<1>13. ASSUME EditBegins PROVE QueueInv'
  BY <1>13, <1>a, <1>b, <1>d, <1>e, <1>f DEF EditBegins, ByHand
<1>14. ASSUME EditEnds PROVE QueueInv'
  BY <1>14, <1>a, <1>b, <1>d, <1>e, <1>f DEF EditEnds, Intends
<1>15. ASSUME Deletes PROVE QueueInv'
  BY <1>15, <1>a, <1>b, <1>d, <1>e, <1>f DEF Deletes, ByHand, Intends
<1>16. ASSUME Boot PROVE QueueInv'
  <2>1. queue' = <<>> /\ w'.set = Error
    BY <1>16, <1>b DEF Boot
  <2> QED BY <2>1, <1>a
<1>17. CASE UNCHANGED vars
  BY <1>17
<1> QED BY <1>1, <1>2, <1>3, <1>4, <1>5, <1>6, <1>7, <1>8, <1>9, <1>10, <1>11,
     <1>12, <1>13, <1>14, <1>15, <1>16, <1>17 DEF Next

\* A writer that nobody disturbs.
LEMMA WriterStep ==
  TypeOK /\ RecordsOK /\ FileInv /\ QueueInv /\ WriterInv /\ [Next]_vars => WriterInv'
<1> SUFFICES ASSUME TypeOK, RecordsOK, FileInv, QueueInv, WriterInv,
     [Next]_vars PROVE WriterInv'
  OBVIOUS
<1> USE DEF WriterInv, vars, counters
<1>w. w = [pc |-> w.pc, conf |-> w.conf, set |-> w.set, clash |-> w.clash]
  BY DEF RecordsOK, Writers
<1>a. /\ file # Absent => Parsing(file) = Meaning(file, env)
      /\ file = Absent => FromEnv(env) = Meaning(file, env)
  BY ParsingMeans
<1>b. Idle.pc = "idle" /\ Seeding.pc = "look"
  BY DEF Idle, Seeding
<1>1. ASSUME WriterLooks PROVE WriterInv'
  <2>1. w'.pc \in {"check", "parse", "idle"}
    BY <1>1, <1>w, <1>b DEF WriterLooks, Stops
  <2>2. w'.pc = "check" => /\ file = Absent /\ FromEnv(env) # Error
                           /\ w'.conf = Merged(FromEnv(env), w.set) /\ w'.set = w.set
    BY <1>1, <1>w, <1>b DEF WriterLooks, Stops
  <2> QED BY <1>1, <2>1, <2>2, <1>a DEF WriterLooks
<1>2. ASSUME WriterParses PROVE WriterInv'
  <2>1. w'.pc \in {"check", "idle"}
    BY <1>2, <1>w, <1>b DEF WriterParses, Stops
  <2>2. w'.pc = "check" => /\ Parsing(file) # Error /\ file # Absent
                           /\ w'.conf = Merged(Parsing(file), w.set) /\ w'.set = w.set
    BY <1>2, <1>w, <1>b DEF WriterParses, Stops, Parsing
  <2> QED BY <1>2, <2>1, <2>2, <1>a DEF WriterParses
<1>3. ASSUME WriterChecks PROVE WriterInv'
  BY <1>3, <1>w, <1>b DEF WriterChecks, Stops, LeftAlone
<1>4. ASSUME WriterFills PROVE WriterInv'
  BY <1>4, <1>w DEF WriterFills
<1>5. ASSUME WriterReplaces PROVE WriterInv'
  BY <1>5, <1>w DEF WriterReplaces, OldOrNew, Intends
<1>6. ASSUME WriterSyncs PROVE WriterInv'
  BY <1>6, <1>b DEF WriterSyncs, Stops
<1>7. ASSUME WriterFails PROVE WriterInv'
  BY <1>7, <1>b DEF WriterFails, Stops
<1>8. ASSUME Submit PROVE WriterInv'
  BY <1>8 DEF Submit
<1>9. ASSUME JobBegins PROVE WriterInv'
  <2>1. w'.pc = "look"
    BY <1>9 DEF JobBegins, Idle
  <2> QED BY <2>1
<1>10. ASSUME JobdDies PROVE WriterInv'
  BY <1>10, <1>b DEF JobdDies
<1>11. ASSUME ReaderBegins PROVE WriterInv'
  BY <1>11 DEF ReaderBegins
<1>12. ASSUME ReaderParses PROVE WriterInv'
  BY <1>12 DEF ReaderParses
<1>13. ASSUME EditBegins PROVE WriterInv'
  BY <1>13, <1>w, <1>b DEF EditBegins, ByHand
<1>14. ASSUME EditEnds PROVE WriterInv'
  BY <1>14, <1>w, <1>b DEF EditEnds, Intends
<1>15. ASSUME Deletes PROVE WriterInv'
  BY <1>15, <1>w, <1>b DEF Deletes, ByHand, Intends
<1>16. ASSUME Boot PROVE WriterInv'
  BY <1>16, <1>b DEF Boot
<1>17. CASE UNCHANGED vars
  BY <1>17
<1> QED BY <1>1, <1>2, <1>3, <1>4, <1>5, <1>6, <1>7, <1>8, <1>9, <1>10, <1>11,
     <1>12, <1>13, <1>14, <1>15, <1>16, <1>17 DEF Next

\* What a reader sees.
LEMMA ReaderStep ==
  TypeOK /\ RecordsOK /\ FileInv /\ QueueInv /\ ReaderInv /\ [Next]_vars => ReaderInv'
<1> SUFFICES ASSUME TypeOK, RecordsOK, FileInv, QueueInv, ReaderInv,
     [Next]_vars PROVE ReaderInv'
  OBVIOUS
<1> USE DEF ReaderInv, AnswersAreWhole, NoEdit, vars, counters
<1>a. r = [pc |-> r.pc, conf |-> r.conf]
  BY DEF RecordsOK, Readers
<1>1. ASSUME WriterLooks PROVE ReaderInv'
  BY <1>1 DEF WriterLooks, Stops
<1>2. ASSUME WriterParses PROVE ReaderInv'
  BY <1>2 DEF WriterParses, Stops
<1>3. ASSUME WriterChecks PROVE ReaderInv'
  BY <1>3 DEF WriterChecks, Stops, LeftAlone
<1>4. ASSUME WriterFills PROVE ReaderInv'
  BY <1>4 DEF WriterFills
<1>5. ASSUME WriterReplaces PROVE ReaderInv'
  <2>1. file' # Absent
    BY <1>5, Meanings DEF WriterReplaces, TypeOK
  <2> QED BY <1>5, <2>1 DEF WriterReplaces, Intends
<1>6. ASSUME WriterSyncs PROVE ReaderInv'
  BY <1>6 DEF WriterSyncs, Stops
<1>7. ASSUME WriterFails PROVE ReaderInv'
  BY <1>7 DEF WriterFails, Stops
<1>8. ASSUME Submit PROVE ReaderInv'
  BY <1>8 DEF Submit
<1>9. ASSUME JobBegins PROVE ReaderInv'
  BY <1>9 DEF JobBegins
<1>10. ASSUME JobdDies PROVE ReaderInv'
  BY <1>10 DEF JobdDies
<1>11. ASSUME ReaderBegins PROVE ReaderInv'
  <2>1. CASE file = Absent
    <3>1. editor = NoEdit
      BY <2>1, ParsingMeans, EmptyText DEF FileInv
    <3>2. FromEnv(env) = intended
      BY <2>1, <3>1, ParsingMeans DEF FileInv
    <3> QED BY <1>11, <2>1, <3>1, <3>2 DEF ReaderBegins
  <2>2. CASE file # Absent
    BY <1>11, <2>2 DEF ReaderBegins
  <2> QED BY <2>1, <2>2
<1>12. ASSUME ReaderParses PROVE ReaderInv'
  <2>1. CASE editor # NoEdit
    BY <1>12, <2>1, ParsingMeans, EmptyText DEF ReaderParses, FileInv, Parsing
  <2>2. CASE editor = NoEdit /\ file = Absent
    BY <1>12, <2>2 DEF ReaderParses, Parsing
  <2>3. CASE editor = NoEdit /\ file # Absent
    <3>1. Parsing(file) = intended
      BY <2>3, ParsingMeans DEF FileInv
    <3> QED BY <1>12, <2>3, <3>1 DEF ReaderParses
  <2> QED BY <2>1, <2>2, <2>3
<1>13. ASSUME EditBegins PROVE ReaderInv'
  <2>1. file' # Absent
    BY <1>13, EmptyText DEF EditBegins
  <2> QED BY <1>13, <2>1 DEF EditBegins, ByHand
<1>14. ASSUME EditEnds PROVE ReaderInv'
  <2>1. file' # Absent
    BY <1>14, EditsAssumption DEF EditEnds, FileInv
  <2> QED BY <1>14, <2>1 DEF EditEnds, Intends
<1>15. ASSUME Deletes PROVE ReaderInv'
  BY <1>15 DEF Deletes, ByHand, Intends
<1>16. ASSUME Boot PROVE ReaderInv'
  <2>1. r'.pc = "idle"
    BY <1>16 DEF Boot, NoReader
  <2> QED BY <2>1
<1>17. CASE UNCHANGED vars
  BY <1>17
<1> QED BY <1>1, <1>2, <1>3, <1>4, <1>5, <1>6, <1>7, <1>8, <1>9, <1>10, <1>11,
     <1>12, <1>13, <1>14, <1>15, <1>16, <1>17 DEF Next

\* What must survive.
LEMMA KeptStep ==
  TypeOK /\ RecordsOK /\ FileInv /\ QueueInv /\ WriterInv /\ KeptInv /\ [Next]_vars => KeptInv'
<1> SUFFICES ASSUME TypeOK, RecordsOK, FileInv, QueueInv, WriterInv, KeptInv,
     [Next]_vars PROVE KeptInv'
  OBVIOUS
<1> USE DEF KeptInv, NoEdit, vars, counters
<1>1. ASSUME WriterLooks PROVE KeptInv'
  BY <1>1 DEF WriterLooks, Stops
<1>2. ASSUME WriterParses PROVE KeptInv'
  BY <1>2 DEF WriterParses, Stops
<1>3. ASSUME WriterChecks PROVE KeptInv'
  BY <1>3 DEF WriterChecks, Stops, LeftAlone
<1>4. ASSUME WriterFills PROVE KeptInv'
  BY <1>4 DEF WriterFills
<1>5. ASSUME WriterReplaces PROVE KeptInv'
  <2>1. w.conf \in Configs
    BY <1>5 DEF WriterReplaces, TypeOK
  <2> QED BY <1>5, <2>1 DEF WriterReplaces, OldOrNew
<1>6. ASSUME WriterSyncs PROVE KeptInv'
  <2>1. w.conf \in Configs
    BY <1>6 DEF WriterSyncs, TypeOK
  <2>2. ~w.clash => file = Render(w.conf) /\ editor = NoEdit
    BY <1>6 DEF WriterSyncs, WriterInv
  <2> QED BY <1>6, <2>1, <2>2 DEF WriterSyncs
<1>7. ASSUME WriterFails PROVE KeptInv'
  BY <1>7 DEF WriterFails, Stops
<1>8. ASSUME Submit PROVE KeptInv'
  BY <1>8 DEF Submit
<1>9. ASSUME JobBegins PROVE KeptInv'
  BY <1>9 DEF JobBegins
<1>10. ASSUME JobdDies PROVE KeptInv'
  BY <1>10 DEF JobdDies
<1>11. ASSUME ReaderBegins PROVE KeptInv'
  BY <1>11 DEF ReaderBegins
<1>12. ASSUME ReaderParses PROVE KeptInv'
  BY <1>12 DEF ReaderParses
<1>13. ASSUME EditBegins PROVE KeptInv'
  BY <1>13 DEF EditBegins, ByHand
<1>14. ASSUME EditEnds PROVE KeptInv'
  BY <1>14 DEF EditEnds, Intends
<1>15. ASSUME Deletes PROVE KeptInv'
  BY <1>15 DEF Deletes, ByHand, Intends
<1>16. ASSUME Boot PROVE KeptInv'
  BY <1>16 DEF Boot
<1>17. CASE UNCHANGED vars
  BY <1>17
<1> QED BY <1>1, <1>2, <1>3, <1>4, <1>5, <1>6, <1>7, <1>8, <1>9, <1>10, <1>11,
     <1>12, <1>13, <1>14, <1>15, <1>16, <1>17 DEF Next


-----------------------------------------------------------------------------
(* The theorems.                                                            *)

\* Every reachable state satisfies the inductive invariant.
THEOREM Invariance == Spec => []IInv
<1>1. IInv /\ [Next]_vars => IInv'
  BY RecordsStep, TypeStep, FileStep, QueueStep, WriterStep, ReaderStep, KeptStep DEF IInv
<1> QED BY InitInvariant, <1>1, PTL DEF Spec

\* What is read, merged and written is always a complete, valid config.
THEOREM TypeCorrect == Spec => []TypeOK
<1>1. IInv => TypeOK
  BY DEF IInv
<1> QED BY <1>1, Invariance, PTL

\* resolve against os.replace, an editor and a deletion: a reader gets a config
\* that was in effect while it read; an error only beside an edit by hand.
THEOREM ReadersGetWholeAnswers == Spec => []AnswersAreWhole
<1>1. IInv => AnswersAreWhole
  BY DEF IInv, ReaderInv
<1> QED BY <1>1, Invariance, PTL

\* fsync, replace, fsync of the directory: after crashes, new seeds and losses
\* of power the file still gives a config that was saved.
THEOREM SavesSurvive == Spec => []SavedIsDurable
<1>1. IInv => SavedIsDurable
  <2> SUFFICES ASSUME IInv, kept # {} PROVE Meaning(file, env) \in kept
    BY DEF SavedIsDurable
  <2>1. PICK c \in kept : c \in Configs /\ file = Render(c)
    BY DEF IInv, KeptInv
  <2> QED BY <2>1, Meanings
<1> QED BY <1>1, Invariance, PTL

\* seed_if_absent and merge: an undisturbed save changes the keys it names in
\* the file as it is then, and a seed only makes a file where there was none.
THEOREM SavesKeepTheRest == Spec => SaveKeepsTheRest
<1> DEFINE Keeps ==
      w.pc = "replace" /\ w'.pc = "sync" /\ ~w.clash =>
        IF sys = "boot" THEN file = Absent
        ELSE /\ Meaning(file, env) # Error
             /\ \A k \in Keys : Meaning(file', env)[k] =
                  IF k \in DOMAIN w.set THEN w.set[k].s ELSE Meaning(file, env)[k]
<1>1. IInv /\ [Next]_vars => [Keeps]_vars
  <2> SUFFICES ASSUME IInv, Next, w.pc = "replace", w'.pc = "sync", ~w.clash
               PROVE  Keeps
    BY DEF vars
  <2> HIDE DEF Keeps
  <2>a. /\ w \in Writers
        /\ w = [pc |-> w.pc, conf |-> w.conf, set |-> w.set, clash |-> w.clash]
    BY DEF IInv, RecordsOK, Writers
  <2>b. Idle.pc = "idle" /\ Seeding.pc = "look"
    BY DEF Idle, Seeding
  <2>1. WriterReplaces
    <3>1. CASE WriterFails \/ JobdDies \/ Boot
      BY <3>1, <2>b DEF WriterFails, JobdDies, Boot, Stops
    <3>2. CASE EditBegins \/ EditEnds \/ Deletes
      BY <3>2, <2>a DEF EditBegins, EditEnds, Deletes, ByHand
    <3> QED BY <3>1, <3>2 DEF Next, WriterLooks, WriterParses, WriterChecks, WriterFills,
        WriterSyncs, Submit, JobBegins, ReaderBegins, ReaderParses
  <2>2. /\ Meaning(file, env) # Error /\ w.conf = Merged(Meaning(file, env), w.set)
        /\ sys = "boot" => file = Absent
    BY DEF IInv, WriterInv
  <2>3. Meaning(file', env) = w.conf
    BY <2>1, Meanings DEF WriterReplaces, IInv, TypeOK
  <2> QED BY <2>2, <2>3 DEF Keeps, Merged
<1>2. Spec => [][Keeps]_vars
  BY <1>1, Invariance, PTL DEF Spec
<1> QED BY <1>2 DEF SaveKeepsTheRest
=============================================================================
