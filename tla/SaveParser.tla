----------------------------- MODULE SaveParser -----------------------------
(* The reader of the game's save files (palwarden_gvas): the compressed    *)
(* container, the header, then a tree of properties that is read with one  *)
(* cursor.  A property that cannot be read costs the container it is in;   *)
(* the extent of a container, known before its value is read, says where   *)
(* to go on.                                                               *)
(*                                                                         *)
(* A file is a sequence of cells: a property with its value, the header of *)
(* a container, an element count, an element, the "None" that ends a       *)
(* property list.  A damaged cell can hold anything: reading it fails, or  *)
(* it reads as something else, and from there on the cursor may be in the  *)
(* middle of a cell (lost), where any read may fail, succeed, and move it  *)
(* any distance forward.  Which properties are in the result is kept, not  *)
(* their values.  The call stack of the recursive descent is a sequence of *)
(* frames, one for each container that is being read; structs of a fixed   *)
(* layout are arrays of values here, maps and sets arrays of lists.        *)
EXTENDS Naturals, Sequences, FiniteSets, FiniteSetsExt

CONSTANTS
  Docs,       \* the files, as sequences of cells
  MaxDamage,  \* bound: damaged cells
  MaxErrors   \* MAX_ERRORS, after which one more line is recorded

\* "alien" is a property of an unknown type that follows the convention of the
\* scalars, "odd" one that does not; a "struct" holds one property list, "lists"
\* a count and so many of them, "values" a count and so many values, "opaque"
\* elements of an unknown type.  n is an extent in cells, or a count.
Leaf      == {"scalar", "alien", "odd"}
Container == {"struct", "lists", "values", "opaque"}
Cell == [k : Leaf \cup Container \cup {"none", "count", "value"}, n : Nat]

\* What a container (or the file, Root) of d holds, and what it holds directly.
Root == 0
ContainersOf(d) == {c \in 1..Len(d) : d[c].k \in Container}
Within(d, c)    == IF c = Root THEN 1..Len(d) ELSE (c + 1)..(c + d[c].n)
Directly(d, c)  == {p \in Within(d, c) : \A e \in ContainersOf(d) : p \in Within(d, e) => e <= c}
Nones(d, c)     == {p \in Directly(d, c) : d[p].k = "none"}

\* A file as the game writes it: containers in containers, a "None" at the end
\* of each property list, and counts that say how many elements follow.
Listed(d, c, last) ==
  /\ Nones(d, c) = {last}
  /\ \A p \in Directly(d, c) \ {last} : d[p].k \in Leaf \cup Container
Counted(d, c) ==
  /\ d[c].n > 0 /\ d[c + 1].k = "count"
  /\ d[c].k = "values" =>
       d[c + 1].n = d[c].n - 1 /\ \A p \in (c + 2)..(c + d[c].n) : d[p].k = "value"
  /\ d[c].k = "lists" =>
       /\ d[c + 1].n = Cardinality(Nones(d, c))
       /\ c + d[c].n \in Nones(d, c) \cup {c + 1}
       /\ \A p \in Directly(d, c) \ {c + 1} : d[p].k \in Leaf \cup Container \cup {"none"}
WellFormed(d) ==
  /\ d # <<>> /\ Listed(d, Root, Len(d))
  /\ \A c \in ContainersOf(d) :
       /\ c + d[c].n <= Len(d)
       /\ \A e \in ContainersOf(d) \cap Within(d, c) : Within(d, e) \subseteq Within(d, c)
       /\ d[c].k = "struct" => Listed(d, c, c + d[c].n)
       /\ d[c].k \in {"lists", "values"} => Counted(d, c)

ASSUME DocsAssumption == Docs \subseteq {d \in Seq(Cell) : WellFormed(d)}
ASSUME BoundAssumption == MaxDamage \in Nat /\ MaxErrors \in Nat

VARIABLES
  doc,      \* the file
  damaged,  \* the cells whose content is damaged
  pc,       \* "open", "header", "body", "done", "corrupt", "unavailable"
  pos,      \* the cursor
  lost,     \* the cursor may be in the middle of a cell
  stack,    \* the containers being read, the root first
  out,      \* the properties in the result so far, by their cells
  forged,   \* the containers that got a property the file does not have
  errors,   \* how many lines are recorded
  guessed   \* history: containers that a lost cursor closed in the right place

file   == <<doc, damaged>>
result == <<out, forged>>
vars == <<file, pc, pos, lost, stack, result, errors, guessed>>

Past == Len(doc) + 1
Inside(c) == Within(doc, c)

\* A frame: the container (Root also for a made-up one), whether it is in the
\* file, where its value has to end, its kind, whether its count is still to
\* come, and how many elements are left.
Frame(at, real, end, kind) ==
  [at |-> at, real |-> real, end |-> end, kind |-> kind,
   next |-> IF kind \in {"lists", "values"} THEN "count" ELSE "item", left |-> 1]
Top   == stack[Len(stack)]
Below == SubSeq(stack, 1, Len(stack) - 1)

Init ==
  /\ doc \in Docs
  /\ damaged \in {D \in SUBSET (1..Len(doc)) : Cardinality(D) <= MaxDamage}
  /\ pc = "open" /\ pos = 1 /\ lost = FALSE
  /\ stack = <<Frame(Root, TRUE, Past, "struct")>>
  /\ out = {} /\ forged = {} /\ errors = 0 /\ guessed = {}

-----------------------------------------------------------------------------
(* The compressed container and the header.                                *)

\* decompress_sav: magic, type and lengths have to agree; Oodle is optional.
Open ==
  /\ pc = "open" /\ pc' \in {"header", "corrupt", "unavailable"}
  /\ UNCHANGED <<file, pos, lost, stack, result, errors, guessed>>

Header ==
  /\ pc = "header" /\ pc' \in {"body", "corrupt"}
  /\ UNCHANGED <<file, pos, lost, stack, result, errors, guessed>>

-----------------------------------------------------------------------------
(* How a value ends.                                                       *)

\* _record.
\* Mutant: nothing is recorded.
Nothing == errors
Recorded == IF errors <= MaxErrors THEN errors + 1 ELSE errors

\* The innermost container of the file that is being read.
Owner == stack[Max({i \in DOMAIN stack : stack[i].real})].at

\* Where the reader goes on after a failure inside a value.
\* Mutants: where the failure was; where the value began.
WhereItFailed == pos
AtTheHeader == IF Top.real THEN Top.at ELSE Top.end
ReseekTo == Top.end

\* A _ParseError is caught by the innermost container: recorded, the value is
\* dropped, and the cursor is put where it should have ended.  At the root
\* nothing is kept.
Fail ==
  /\ errors' = Recorded
  /\ UNCHANGED guessed
  /\ IF Len(stack) = 1
     THEN /\ pc' = "done" /\ out' = {} /\ forged' = {}
          /\ UNCHANGED <<pos, lost, stack>>
     ELSE /\ pos' = ReseekTo /\ stack' = Below
          /\ lost' = (lost /\ ~Top.real)
          /\ out' = IF Top.real THEN out \ Inside(Top.at) ELSE out
          /\ forged' = IF Top.real THEN forged \ {Top.at} ELSE forged
          /\ UNCHANGED pc

\* A value that has been read up to q counts if that is where it has to end.
\* Mutant: the extent is not compared.
Whatever(q) == TRUE
InTime(q) == q = Top.end
Complete(q, astray) ==
  IF Len(stack) = 1
  THEN /\ pc' = "done" /\ pos' = q /\ lost' = astray
       /\ guessed' = IF astray THEN guessed \cup {Root} ELSE guessed
       /\ UNCHANGED <<stack, result, errors>>
  ELSE IF InTime(q)
  THEN /\ pos' = q /\ stack' = Below
       /\ lost' = (astray /\ ~Top.real)
       /\ out' = IF Top.real THEN out \cup {Top.at} ELSE out
       /\ guessed' = IF Top.real /\ astray THEN guessed \cup {Top.at} ELSE guessed
       /\ UNCHANGED <<pc, forged, errors>>
  ELSE Fail

\* An element, or the property list of a struct, ends at q.
NextItem(q, astray) ==
  IF Top.left = 1 THEN Complete(q, astray)
  ELSE /\ stack' = [stack EXCEPT ![Len(stack)].left = @ - 1]
       /\ pos' = q /\ lost' = astray
       /\ UNCHANGED <<pc, result, errors, guessed>>

Count(n, q, astray) ==
  IF n = 0 THEN Complete(q, astray)
  ELSE /\ stack' = [stack EXCEPT ![Len(stack)].left = n, ![Len(stack)].next = "item"]
       /\ pos' = q /\ lost' = astray
       /\ UNCHANGED <<pc, result, errors, guessed>>

\* One more container is entered at q.
Enter(f, q, astray) ==
  /\ stack' = Append(stack, f)
  /\ pos' = q /\ lost' = astray
  /\ UNCHANGED <<pc, result, errors, guessed>>

-----------------------------------------------------------------------------
(* Reading a cell that is what was written.                                *)

Wanted == IF Top.kind = "opaque" THEN {}
          ELSE IF Top.next = "count" THEN {"count"}
          ELSE IF Top.kind = "values" THEN {"value"}
          ELSE Leaf \cup Container \cup {"none"}
Good == ~lost /\ pos < Past /\ pos \notin damaged /\ doc[pos].k \in Wanted
Here(kinds) == pc = "body" /\ Good /\ doc[pos].k \in kinds

ReadScalar ==
  /\ Here({"scalar"})
  /\ out' = out \cup {pos} /\ pos' = pos + 1
  /\ UNCHANGED <<file, pc, lost, stack, forged, errors, guessed>>

\* An unknown type: a flag and the payload are skipped if the stream looks like
\* a property list afterwards, which a damaged cell need not do.
ReadAlien ==
  /\ Here({"alien"}) /\ UNCHANGED file
  /\ \/ /\ pos' = pos + 1 /\ errors' = Recorded
        /\ UNCHANGED <<pc, lost, stack, result, guessed>>
     \/ pos + 1 \in damaged /\ Fail

\* Skipping what does not follow the convention ends anywhere: it looks wrong,
\* or right by accident.
ReadOdd ==
  /\ Here({"odd"}) /\ UNCHANGED file
  /\ \/ Fail
     \/ /\ pos' \in (pos + 1)..Past /\ lost' = TRUE /\ errors' = Recorded
        /\ UNCHANGED <<pc, stack, result, guessed>>

ReadNone  == Here({"none"}) /\ NextItem(pos + 1, FALSE) /\ UNCHANGED file
ReadValue == Here({"value"}) /\ NextItem(pos + 1, FALSE) /\ UNCHANGED file
ReadCount == Here({"count"}) /\ Count(doc[pos].n, pos + 1, FALSE) /\ UNCHANGED file

ReadContainer ==
  /\ Here(Container) /\ UNCHANGED file
  /\ IF pos + 1 + doc[pos].n > Past THEN Fail
     ELSE Enter(Frame(pos, TRUE, pos + 1 + doc[pos].n, doc[pos].k), pos + 1, FALSE)

-----------------------------------------------------------------------------
(* Reading anything else: it fails, or it makes sense by accident.  A      *)
(* container made up from such bytes is read as a property list: a lost    *)
(* cursor can do there whatever it can do in one of another kind.          *)

Fails == pc = "body" /\ ~Good /\ Fail /\ UNCHANGED file

Misread ==
  /\ pc = "body" /\ ~Good /\ pos < Past /\ Top.kind # "opaque"
  /\ \E q \in (pos + 1)..Past :
       IF Top.next = "count" THEN \E n \in 0..(Past - q) : Count(n, q, TRUE)
       ELSE IF Top.kind = "values" THEN NextItem(q, TRUE)
       ELSE \/ NextItem(q, TRUE)
            \/ \E end \in q..Past : Enter(Frame(Root, FALSE, end, "struct"), q, TRUE)
            \/ /\ pos' = q /\ lost' = TRUE
               /\ \/ forged' = forged \cup {Owner} /\ UNCHANGED errors
                  \/ errors' = Recorded /\ UNCHANGED forged
               /\ UNCHANGED <<pc, stack, out, guessed>>
  /\ UNCHANGED file

-----------------------------------------------------------------------------
Next ==
  \/ Open \/ Header
  \/ ReadScalar \/ ReadAlien \/ ReadOdd \/ ReadNone \/ ReadValue \/ ReadCount
  \/ ReadContainer \/ Fails \/ Misread

Spec == Init /\ [][Next]_vars

\* The parser is one loop of one thread.
FairSpec == Spec /\ WF_vars(Next)

-----------------------------------------------------------------------------
(* Properties.                                                             *)

Ended == pc \in {"done", "corrupt", "unavailable"}

Containers == ContainersOf(doc)
Readable   == {p \in 1..Len(doc) : doc[p].k \in {"scalar", "struct", "lists", "values"}}
\* The container a cell is directly in.
Home(d) == Max({Root} \cup {c \in Containers : d \in Inside(c)})
Harmed == {Home(d) : d \in damaged \cup {p \in 1..Len(doc) : doc[p].k = "odd"}}
Opaque == {c \in Containers : doc[c].k = "opaque"}
Spoilt == UNION {Inside(c) \cup {c} : c \in Harmed \cup Opaque}

\* "Every sibling survives" (module docstring): whatever a damaged or unknown
\* property makes the reader do, only the container it is directly in suffers.
\* Everything outside is in the result, and nothing is there that the file does
\* not have.
DamageIsContained ==
  pc = "done" /\ Root \notin Harmed =>
    out \ Spoilt = Readable \ Spoilt /\ forged \subseteq Harmed

\* A file that is reported to be fine has been read completely, except where a
\* misread value happened to end in the right place.
NothingLostSilently ==
  pc = "done" /\ errors = 0 /\ guessed = {} => out = Readable /\ forged = {}

\* Every file is read to an end, although the cursor moves back when a value
\* has run past its extent.
ParserEnds == <>Ended

\* "Root level has no containing extent to reseek to; keep the partial"
\* (parse_gvas): a failure at the root keeps what was read before it.
PartialIsKept == [][pc = "body" /\ pc' = "done" => out \subseteq out']_vars
=============================================================================
