-------------------------- MODULE SaveParserProofs --------------------------
(* Theorems about SaveParser: what a damaged or an unknown property costs, *)
(* for every well-formed file, every set of damaged cells and every way in *)
(* which damaged cells can be misread.                                     *)
EXTENDS SaveParser, FiniteSetTheorems, SequenceTheorems, TLAPS

-----------------------------------------------------------------------------
(* The inductive invariant.                                                *)

Frames == [at : Nat, real : BOOLEAN, end : Nat, kind : Container,
           next : {"count", "item"}, left : Nat \ {0}]
Running == pc \in {"open", "header", "body"}

Typed ==
  /\ doc \in Docs /\ damaged \in SUBSET (1..Len(doc))
  /\ pc \in {"open", "header", "body", "done", "corrupt", "unavailable"}
  /\ pos \in 1..Past /\ lost \in BOOLEAN
  /\ stack \in Seq(Frames) /\ stack # <<>>
  /\ out \in SUBSET (1..Len(doc)) /\ forged \in SUBSET Nat /\ errors \in Nat
  /\ guessed \in SUBSET Nat

\* The reader of frame f has read everything before q and nothing after it.
Aligned(d, f, q) ==
  f.kind # "opaque" =>
    /\ q \in Directly(d, f.at)
    /\ f.kind = "struct" => f.next = "item" /\ f.left = 1
    /\ f.next = "count" => q = f.at + 1
    /\ f.kind \in {"lists", "values"} /\ f.next = "item" => q > f.at + 1
    /\ f.kind = "values" /\ f.next = "item" => f.left = f.end - q
    /\ f.kind = "lists" /\ f.next = "item" =>
         f.left = Cardinality({p \in Nones(d, f.at) : p >= q})

\* Where a container of d ends.
End(d, c) == IF c = Root THEN Len(d) + 1 ELSE c + 1 + d[c].n
Places(d) == ContainersOf(d) \cup {Root}

\* A frame of the file describes a container of it.
Describes(d, f) ==
  /\ f.at \in Places(d) /\ f.end = End(d, f.at)
  /\ f.kind = IF f.at = Root THEN "struct" ELSE d[f.at].k

\* The containers that are being read are nested, the made-up ones innermost,
\* and each waits where the one inside it ends.
Nested(d, s) ==
  /\ s[1].real /\ s[1].at = Root
  /\ \E r \in DOMAIN s : \A i \in DOMAIN s : s[i].real <=> i <= r
  /\ \A i \in DOMAIN s : s[i].end \in 1..(Len(d) + 1)
  /\ \A i \in DOMAIN s : s[i].real => Describes(d, s[i])
  /\ \A i \in 2..Len(s) : s[i].real =>
       /\ s[i].at \in Directly(d, s[i - 1].at) /\ Aligned(d, s[i - 1], s[i].end)
       /\ \A j \in 1..(i - 1) : s[j].at < s[i].at
StackInv == Nested(doc, stack)

\* A cursor that is not lost is where the innermost container goes on.
CursorInv ==
  Running => /\ ~Top.real => lost
             /\ ~lost => Aligned(doc, Top, pos) /\ pos > Top.at

\* The containers of the file that are being read, and the innermost of them.
OpenedIn(s) == {s[i].at : i \in {j \in DOMAIN s : s[j].real}}
OwnerIn(s)  == s[Max({i \in DOMAIN s : s[i].real})]
Opened      == OpenedIn(stack)
\* Up to here everything has been read, or is in the container that got lost.
Front == IF lost THEN OwnerIn(stack).end ELSE pos

\* Unless the root itself is harmed, what is in front of the cursor and not in
\* a spoilt container is in the result.
ContainedInv ==
  Root \notin Harmed =>
    /\ Running /\ lost => Owner \in Harmed
    /\ forged \subseteq Harmed /\ out \ Spoilt \subseteq Readable
    /\ Running => {p \in Readable \ Spoilt : p < Front} \subseteq out \cup Opened

\* Without errors and guesses, the result is what has been read.
CleanInv ==
  Running /\ errors = 0 /\ guessed = {} /\ ~lost =>
    forged = {} /\ out = {p \in Readable : p < pos} \ Opened

IInv ==
  /\ Typed /\ StackInv /\ CursorInv /\ ContainedInv /\ CleanInv
  /\ DamageIsContained /\ NothingLostSilently

-----------------------------------------------------------------------------
(* Greatest elements.                                                      *)

\* Max is what it is called.
LEMMA MaxIs ==
  ASSUME NEW S \in SUBSET Nat, NEW x \in S, \A y \in S : y <= x
  PROVE  Max(S) = x
<1>1. Max(S) \in S /\ \A y \in S : Max(S) >= y
  BY DEF Max
<1>2. Max(S) \in Nat /\ x \in Nat /\ Max(S) >= x /\ Max(S) <= x
  BY <1>1
<1> QED BY <1>2

-----------------------------------------------------------------------------
(* What a well-formed file looks like from one of its cells.               *)

\* What a file is.
LEMMA Files ==
  ASSUME NEW d \in Docs
  PROVE  /\ d \in Seq(Cell) /\ Len(d) \in Nat \ {0} /\ WellFormed(d)
         /\ \A p \in 1..Len(d) : d[p].n \in Nat
         /\ \A p \in 1..Len(d) : d[p].k \in Leaf \cup Container \cup {"none", "count", "value"}
<1>1. d \in Seq(Cell) /\ WellFormed(d)
  BY DocsAssumption
<1>2. d # <<>>
  BY <1>1 DEF WellFormed
<1>3. \A p \in 1..Len(d) : d[p] \in Cell
  BY <1>1
<1> QED BY <1>1, <1>2, <1>3 DEF Cell

\* Where a container is and ends.
LEMMA Ranges ==
  ASSUME NEW d \in Docs, NEW c \in Places(d)
  PROVE  /\ c \in Nat /\ End(d, c) \in Nat /\ c < End(d, c) /\ End(d, c) <= Len(d) + 1
         /\ Within(d, c) = (c + 1)..(End(d, c) - 1)
         /\ Within(d, c) \subseteq 1..Len(d)
         /\ \A e \in Places(d) : e \in Within(d, c) => Within(d, e) \subseteq Within(d, c)
<1>1. Len(d) \in Nat \ {0} /\ WellFormed(d) /\ \A p \in 1..Len(d) : d[p].n \in Nat
  BY Files
<1>2. \A e \in ContainersOf(d) : e \in 1..Len(d) /\ e + d[e].n <= Len(d)
  BY <1>1 DEF WellFormed, ContainersOf
<1>3. \A e \in ContainersOf(d) : /\ Within(d, e) = (e + 1)..(e + d[e].n)
                                 /\ e # Root /\ d[e].n \in Nat
  BY <1>1, <1>2 DEF Within, Root
<1>4. CASE c = Root
  BY <1>1, <1>2, <1>3, <1>4 DEF Within, Root, End, Places
<1>5. CASE c \in ContainersOf(d)
  <2>1. \A e \in ContainersOf(d) : e \in Within(d, c) => Within(d, e) \subseteq Within(d, c)
    BY <1>1, <1>5 DEF WellFormed
  <2>2. End(d, c) = c + 1 + d[c].n /\ c \in 1..Len(d) /\ d[c].n \in Nat /\ c + d[c].n <= Len(d)
    BY <1>2, <1>3, <1>5 DEF End
  <2>3. Within(d, c) = (c + 1)..(End(d, c) - 1)
    <3>1. End(d, c) - 1 = c + d[c].n
      BY <2>2
    <3> QED BY <1>3, <1>5, <3>1
  <2>4. Root \notin Within(d, c)
    BY <2>2, <2>3 DEF Root
  <2>5. Within(d, c) \subseteq 1..Len(d)
    BY <1>1, <2>2, <2>3
  <2>6. c \in Nat /\ End(d, c) \in Nat /\ c < End(d, c) /\ End(d, c) <= Len(d) + 1
    BY <1>1, <2>2
  <2> QED BY <2>1, <2>3, <2>4, <2>5, <2>6 DEF Places
<1> QED BY <1>4, <1>5 DEF Places

\* What is directly in a container, in terms of the containers around it.
LEMMA Direct ==
  ASSUME NEW d \in Docs, NEW c \in Places(d), NEW p
  PROVE  p \in Directly(d, c) <=>
           p \in Within(d, c) /\ \A e \in ContainersOf(d) : p \in Within(d, e) => e <= c
  BY DEF Directly

\* The first cell.
LEMMA FirstIn ==
  ASSUME NEW d \in Docs, NEW c \in Places(d), c + 1 < End(d, c)
  PROVE  c + 1 \in Directly(d, c)
<1>1. c + 1 \in Within(d, c)
  BY Ranges
<1>2. \A e \in ContainersOf(d) : c + 1 \in Within(d, e) => e <= c
  BY Ranges DEF Places
<1> QED BY <1>1, <1>2, Direct

\* The cell after one that is no container.
LEMMA NextIn ==
  ASSUME NEW d \in Docs, NEW c \in Places(d), NEW p \in Directly(d, c),
         p \notin ContainersOf(d), p + 1 < End(d, c)
  PROVE  p + 1 \in Directly(d, c)
<1>1. p \in Within(d, c) /\ c \in Nat /\ p \in Nat
  BY Direct, Ranges
<1>2. p + 1 \in Within(d, c)
  BY <1>1, Ranges
<1>3. ASSUME NEW e \in ContainersOf(d), p + 1 \in Within(d, e) PROVE e <= c
  <2>1. e # p
    OBVIOUS
  <2>2. p \in Within(d, e)
    BY <1>1, <1>3, <2>1, Ranges DEF Places
  <2> QED BY <2>2, Direct
<1> QED BY <1>2, <1>3, Direct

\* The cell after a container.
LEMMA AfterIn ==
  ASSUME NEW d \in Docs, NEW c \in Places(d), NEW p \in Directly(d, c),
         p \in ContainersOf(d), End(d, p) < End(d, c)
  PROVE  End(d, p) \in Directly(d, c)
<1>1. p \in Within(d, c) /\ c \in Nat /\ p \in Nat /\ p \in Places(d)
  BY Direct, Ranges DEF Places
<1>2. End(d, p) \in Within(d, c)
  BY <1>1, Ranges
<1>3. ASSUME NEW e \in ContainersOf(d), End(d, p) \in Within(d, e) PROVE e <= c
  <2>1. e \in Places(d) /\ e \in Nat
    BY Ranges DEF Places
  <2>2. e # p
    BY <1>1, <1>3, Ranges
  <2>3. ASSUME e \in Within(d, p) PROVE FALSE
    <3>1. Within(d, e) \subseteq Within(d, p)
      BY <1>1, <2>1, <2>3, Ranges
    <3>2. End(d, p) \in (p + 1)..(End(d, p) - 1)
      BY <1>1, <1>3, <3>1, Ranges
    <3>3. End(d, p) \in Nat /\ p \in Nat
      BY <1>1, Ranges
    <3> QED BY <3>2, <3>3
  <2>4. p \in Within(d, e)
    BY <1>1, <1>3, <2>1, <2>2, <2>3, Ranges
  <2> QED BY <2>4, Direct
<1> QED BY <1>2, <1>3, Direct

\* A container ends inside the one it is directly in, with a cell to spare.
LEMMA EndsInside ==
  ASSUME NEW d \in Docs, NEW c \in Places(d), NEW p \in Directly(d, c),
         p \in ContainersOf(d), End(d, c) - 1 \in Directly(d, c) \ ContainersOf(d)
  PROVE  End(d, p) < End(d, c)
<1>1. p \in Within(d, c) /\ c \in Nat /\ p \in Nat /\ p \in Places(d) /\ c < p
  BY Direct, Ranges DEF Places
<1>2. End(d, c) - 1 \notin Within(d, p)
  BY <1>1, Direct
<1>3. p # End(d, c) - 1
  OBVIOUS
<1> QED BY <1>1, <1>2, <1>3, Ranges

-----------------------------------------------------------------------------
(* A reader that is aligned stays aligned.                                 *)

\* The frame of a container, in terms of the file.
LEMMA FrameIs ==
  ASSUME doc \in Docs, NEW f \in Frames, Describes(doc, f)
  PROVE  /\ f.at \in Places(doc) /\ f.end = End(doc, f.at)
         /\ f.kind = "struct" => Listed(doc, f.at, f.end - 1)
         /\ f.kind \in {"lists", "values"} => f.at \in ContainersOf(doc) /\ Counted(doc, f.at)
         /\ f.at \in ContainersOf(doc) => f.kind = doc[f.at].k
<1>1. Len(doc) \in Nat \ {0} /\ WellFormed(doc) /\ \A p \in 1..Len(doc) : doc[p].n \in Nat
  BY Files
<1>2. f.at \in Places(doc) /\ f.end = End(doc, f.at)
      /\ f.kind = IF f.at = Root THEN "struct" ELSE doc[f.at].k
  BY DEF Describes
<1>3. CASE f.at = Root
  <2>1. f.kind = "struct" /\ f.end = Len(doc) + 1 /\ Root \notin ContainersOf(doc)
    BY <1>2, <1>3 DEF ContainersOf, Root, End
  <2>2. f.end - 1 = Len(doc)
    BY <1>1, <2>1
  <2> QED BY <1>1, <1>2, <1>3, <2>1, <2>2 DEF WellFormed
<1>4. CASE f.at # Root
  <2>1. f.at \in ContainersOf(doc) /\ f.kind = doc[f.at].k /\ f.end = f.at + 1 + doc[f.at].n
    BY <1>2, <1>4 DEF Places, End
  <2>2. f.at \in 1..Len(doc) /\ f.end - 1 = f.at + doc[f.at].n
    BY <1>1, <2>1 DEF ContainersOf
  <2> QED BY <1>1, <1>2, <1>4, <2>1, <2>2 DEF WellFormed
<1> QED BY <1>3, <1>4

\* The kinds that a frame wants next.
WantedBy(f) == IF f.kind = "opaque" THEN {}
               ELSE IF f.next = "count" THEN {"count"}
               ELSE IF f.kind = "values" THEN {"value"}
               ELSE Leaf \cup Container \cup {"none"}

\* Where the reader goes on there is a cell of the container, of a kind that it
\* wants.
LEMMA AlignedCell ==
  ASSUME doc \in Docs, NEW f \in Frames, Describes(doc, f), NEW p, Aligned(doc, f, p),
         f.kind # "opaque"
  PROVE  /\ p \in Directly(doc, f.at) /\ p \in Nat /\ f.at < p /\ p < f.end
         /\ p \in 1..Len(doc) /\ doc[p].k \in WantedBy(f)
<1>1. /\ p \in Directly(doc, f.at) /\ f.at \in Places(doc) /\ f.end = End(doc, f.at)
      /\ f.at \in Nat /\ f.end \in Nat
  BY FrameIs DEF Aligned, Frames
<1>2. p \in Nat /\ f.at < p /\ p < f.end /\ p \in 1..Len(doc)
  BY <1>1, Ranges, Direct
<1>3. CASE f.kind = "struct"
  BY <1>1, <1>2, <1>3, FrameIs DEF Aligned, Listed, Nones, WantedBy
<1>4. CASE f.kind = "values"
  <2>1. Counted(doc, f.at) /\ f.kind = doc[f.at].k /\ doc[f.at].n \in Nat
        /\ f.end = f.at + 1 + doc[f.at].n
    BY <1>1, <1>4, FrameIs, Files DEF End, ContainersOf, Root
  <2>2. CASE f.next = "count"
    BY <1>1, <1>2, <1>4, <2>1, <2>2 DEF Aligned, Counted, WantedBy
  <2>3. CASE f.next = "item"
    <3>1. p \in (f.at + 2)..(f.at + doc[f.at].n)
      BY <1>1, <1>2, <1>4, <2>1, <2>3 DEF Aligned
    <3>2. doc[p].k = "value"
      BY <1>4, <2>1, <3>1 DEF Counted
    <3> QED BY <1>1, <1>2, <1>4, <2>3, <3>2 DEF WantedBy
  <2> QED BY <1>1, <1>2, <2>2, <2>3 DEF Frames
<1>5. CASE f.kind = "lists"
  <2>1. Counted(doc, f.at) /\ f.kind = doc[f.at].k
    BY <1>5, FrameIs
  <2>2. CASE f.next = "count"
    BY <1>1, <1>2, <1>5, <2>1, <2>2 DEF Aligned, Counted, WantedBy
  <2>3. CASE f.next = "item"
    <3>1. p # f.at + 1
      BY <1>1, <1>2, <1>5, <2>3 DEF Aligned
    <3>2. doc[p].k \in Leaf \cup Container \cup {"none"}
      BY <1>1, <1>5, <2>1, <3>1 DEF Counted
    <3> QED BY <1>1, <1>2, <1>5, <2>3, <3>2 DEF WantedBy
  <2> QED BY <2>2, <2>3 DEF Frames
<1> QED BY <1>1, <1>2, <1>3, <1>4, <1>5 DEF Frames, Container

\* The last cell of a list of properties, or of lists that has some, is a "None".
LEMMA LastCell ==
  ASSUME doc \in Docs, NEW f \in Frames, Describes(doc, f), NEW p, Aligned(doc, f, p),
         f.kind \in {"struct", "lists"}, f.next = "item"
  PROVE  f.end - 1 \in Nones(doc, f.at)
<1>1. f.kind = "struct" => f.end - 1 \in Nones(doc, f.at)
  BY FrameIs DEF Listed
<1>2. CASE f.kind = "lists"
  <2>1. Counted(doc, f.at) /\ f.kind = doc[f.at].k /\ f.end = f.at + 1 + doc[f.at].n
        /\ f.at \in Nat /\ doc[f.at].n \in Nat
    BY <1>2, FrameIs, Files DEF End, ContainersOf, Root, Frames
  <2>2. f.end - 1 \in Nones(doc, f.at) \cup {f.at + 1}
    BY <1>2, <2>1 DEF Counted
  <2>3. p \in Nat /\ p < f.end /\ p > f.at + 1 /\ f.end \in Nat
    BY <1>2, AlignedCell DEF Aligned, Frames
  <2> QED BY <2>1, <2>2, <2>3
<1> QED BY <1>1, <1>2

\* The lists that are still to come after a cell that ends none.
LEMMA SameNones ==
  ASSUME doc \in Docs, NEW c \in Places(doc), NEW p \in Nat, NEW q \in Nat, p <= q,
         \A x \in Nones(doc, c) : x >= p => x >= q
  PROVE  {x \in Nones(doc, c) : x >= q} = {x \in Nones(doc, c) : x >= p}
<1>1. \A x \in Nones(doc, c) : x \in Nat
  BY Ranges, Direct DEF Nones
<1> QED BY <1>1

\* After a property.
LEMMA AlignedLeaf ==
  ASSUME doc \in Docs, NEW f \in Frames, Describes(doc, f), NEW p, Aligned(doc, f, p),
         f.kind # "opaque", doc[p].k \in Leaf
  PROVE  Aligned(doc, f, p + 1) /\ p + 1 < f.end
<1>1. /\ p \in Directly(doc, f.at) /\ p \in Nat /\ f.at < p /\ p < f.end
      /\ p \in 1..Len(doc) /\ doc[p].k \in WantedBy(f)
  BY AlignedCell
<1>2. f.kind \in {"struct", "lists"} /\ f.next = "item"
  BY <1>1 DEF WantedBy, Leaf, Frames, Container
<1>3. f.at \in Places(doc) /\ f.end = End(doc, f.at) /\ f.end \in Nat /\ f.at \in Nat
  BY FrameIs DEF Frames
<1>4. p # f.end - 1
  BY <1>2, LastCell DEF Nones, Leaf
<1>5. p + 1 < f.end /\ p \notin ContainersOf(doc)
  BY <1>1, <1>3, <1>4 DEF ContainersOf, Leaf, Container
<1>6. p + 1 \in Directly(doc, f.at)
  BY <1>1, <1>3, <1>5, NextIn
<1>7. {x \in Nones(doc, f.at) : x >= p + 1} = {x \in Nones(doc, f.at) : x >= p}
  <2>1. \A x \in Nones(doc, f.at) : x # p /\ x \in Nat
    BY <1>3, Ranges, Direct DEF Nones, Leaf
  <2> QED BY <1>1, <1>3, <2>1, SameNones
<1>8. f.kind = "lists" => f.left = Cardinality({x \in Nones(doc, f.at) : x >= p + 1})
  BY <1>2, <1>7 DEF Aligned
<1>9. p + 1 > f.at + 1 /\ f.kind # "values"
  BY <1>1, <1>2, <1>3
<1>10. f.kind = "struct" => f.left = 1
  BY <1>2 DEF Aligned
<1> QED BY <1>2, <1>5, <1>6, <1>8, <1>9, <1>10 DEF Aligned

\* After a container.
LEMMA AlignedContainer ==
  ASSUME doc \in Docs, NEW f \in Frames, Describes(doc, f), NEW p, Aligned(doc, f, p),
         f.kind # "opaque", doc[p].k \in Container
  PROVE  /\ p \in Containers /\ f.kind \in {"struct", "lists"}
         /\ Aligned(doc, f, End(doc, p)) /\ End(doc, p) < f.end
<1>1. /\ p \in Directly(doc, f.at) /\ p \in Nat /\ f.at < p /\ p < f.end
      /\ p \in 1..Len(doc) /\ doc[p].k \in WantedBy(f)
  BY AlignedCell
<1>2. f.kind \in {"struct", "lists"} /\ f.next = "item"
  BY <1>1 DEF WantedBy, Container, Frames
<1>3. f.at \in Places(doc) /\ f.end = End(doc, f.at) /\ f.end \in Nat /\ f.at \in Nat
  BY FrameIs DEF Frames
<1>4. p \in ContainersOf(doc) /\ p \in Places(doc)
  BY <1>1 DEF ContainersOf, Places
<1>5. f.end - 1 \in Directly(doc, f.at) \ ContainersOf(doc)
  BY <1>2, LastCell DEF Nones, ContainersOf, Container
<1>6. End(doc, p) < f.end
  BY <1>1, <1>3, <1>4, <1>5, EndsInside
<1>7. End(doc, p) \in Directly(doc, f.at)
  BY <1>1, <1>3, <1>4, <1>6, AfterIn
<1>8. End(doc, p) \in Nat /\ p < End(doc, p)
  BY <1>4, Ranges
<1>9. {x \in Nones(doc, f.at) : x >= End(doc, p)} = {x \in Nones(doc, f.at) : x >= p}
  <2>1. ASSUME NEW x \in Nones(doc, f.at), x >= p PROVE x >= End(doc, p)
    <3>1. x \in Directly(doc, f.at) /\ x # p
      BY <1>4 DEF Nones, ContainersOf, Container
    <3>3. x \in Nat
      BY <1>3, <3>1, Ranges, Direct
    <3>2. x \notin Within(doc, p)
      BY <1>1, <1>3, <1>4, <3>1, Direct
    <3> QED BY <1>1, <1>4, <1>8, <2>1, <3>3, <3>1, <3>2, Ranges
  <2> QED BY <1>1, <1>3, <1>8, <2>1, SameNones
<1>10. f.kind = "lists" =>
         f.left = Cardinality({x \in Nones(doc, f.at) : x >= End(doc, p)})
  BY <1>2, <1>9 DEF Aligned
<1>11. End(doc, p) > f.at + 1 /\ f.kind # "values"
  BY <1>1, <1>2, <1>3, <1>8
<1>12. f.kind = "struct" => f.left = 1
  BY <1>2 DEF Aligned
<1> QED BY <1>2, <1>4, <1>6, <1>7, <1>10, <1>11, <1>12 DEF Aligned, Containers

\* After the end of an element.
LEMMA AlignedItem ==
  ASSUME doc \in Docs, NEW f \in Frames, Describes(doc, f), NEW p, Aligned(doc, f, p),
         f.kind # "opaque", doc[p].k \in {"none", "value"}
  PROVE  /\ f.left \in Nat \ {0}
         /\ f.left = 1 => p + 1 = f.end
         /\ f.left # 1 => Aligned(doc, [f EXCEPT !.left = @ - 1], p + 1) /\ p + 1 < f.end
<1>1. /\ p \in Directly(doc, f.at) /\ p \in Nat /\ f.at < p /\ p < f.end
      /\ p \in 1..Len(doc) /\ doc[p].k \in WantedBy(f)
  BY AlignedCell
<1>2. f.next = "item"
  BY <1>1 DEF WantedBy, Container, Leaf, Frames
<1>3. f.at \in Places(doc) /\ f.end = End(doc, f.at) /\ f.end \in Nat /\ f.at \in Nat
      /\ f.left \in Nat
  BY FrameIs DEF Frames
<1>4. p \notin ContainersOf(doc)
  BY DEF ContainersOf, Container
<1>5. p + 1 < f.end => p + 1 \in Directly(doc, f.at)
  BY <1>1, <1>3, <1>4, NextIn
<1> DEFINE g == [f EXCEPT !.left = @ - 1]
<1>6. g.at = f.at /\ g.end = f.end /\ g.kind = f.kind /\ g.next = f.next /\ g.left = f.left - 1
  BY DEF Frames
<1>7. CASE f.kind = "values"
  <2>1. f.left = f.end - p
    BY <1>2, <1>7 DEF Aligned
  <2>2. p + 1 > f.at + 1
    BY <1>1, <1>3
  <2>3. f.left # 1 => p + 1 < f.end /\ g.left = g.end - (p + 1)
    BY <1>1, <1>3, <1>6, <2>1
  <2> HIDE DEF g
  <2>4. f.left # 1 => Aligned(doc, g, p + 1)
    BY <1>2, <1>5, <1>6, <1>7, <2>2, <2>3 DEF Aligned
  <2> QED BY <1>1, <1>3, <2>1, <2>3, <2>4 DEF g
<1>8. CASE f.kind \in {"struct", "lists"}
  <2>1. doc[p].k = "none" /\ p \in Nones(doc, f.at)
    BY <1>1, <1>2, <1>8 DEF WantedBy, Leaf, Container, Nones
  <2>2. f.end - 1 \in Nones(doc, f.at)
    BY <1>2, <1>8, LastCell
  <2>3. CASE f.kind = "struct"
    <3>1. f.left = 1 /\ Nones(doc, f.at) = {f.end - 1}
      BY <2>3, FrameIs DEF Aligned, Listed
    <3> QED BY <1>1, <1>3, <2>1, <3>1
  <2>4. CASE f.kind = "lists"
    <3> DEFINE R(q) == {x \in Nones(doc, f.at) : x >= q}
    <3>1. Nones(doc, f.at) \subseteq 1..Len(doc) /\ Len(doc) \in Nat
      BY <1>3, Ranges, Direct, Files DEF Nones
    <3>2. IsFiniteSet(R(p)) /\ p \in R(p)
      <4>1. IsFiniteSet(1..Len(doc)) /\ R(p) \in SUBSET (1..Len(doc))
        BY <3>1, FS_Interval
      <4>2. p \in R(p)
        BY <1>1, <2>1
      <4> HIDE DEF R
      <4> QED BY <4>1, <4>2, FS_Subset
    <3>3. R(p + 1) = R(p) \ {p}
      BY <1>1, <3>1
    <3>4. f.left = Cardinality(R(p))
      BY <1>2, <2>4 DEF Aligned
    <3>5. Cardinality(R(p + 1)) = f.left - 1 /\ f.left \in Nat \ {0} /\ IsFiniteSet(R(p + 1))
      <4> HIDE DEF R
      <4>1. Cardinality(R(p)) \in Nat /\ Cardinality(R(p)) # 0
        BY <3>2, FS_CardinalityType, FS_EmptySet
      <4> QED BY <3>2, <3>3, <3>4, <4>1, FS_RemoveElement
    <3>6. f.left = 1 => p + 1 = f.end
      <4>1. f.left = 1 => R(p + 1) = {}
        <5> HIDE DEF R
        <5> QED BY <3>5, FS_EmptySet
      <4>2. p + 1 # f.end => f.end - 1 \in R(p + 1)
        BY <1>1, <1>3, <2>2
      <4> QED BY <4>1, <4>2
    <3>7. f.left # 1 => p + 1 < f.end
      <4>1. ASSUME f.left # 1, p + 1 = f.end PROVE FALSE
        <5>1. \A x \in Nones(doc, f.at) : x < f.end
          BY <1>3, Ranges, Direct DEF Nones
        <5>2. R(p + 1) = {}
          BY <1>1, <3>1, <4>1, <5>1
        <5> HIDE DEF R
        <5> QED BY <3>5, <4>1, <5>2, FS_EmptySet
      <4> QED BY <1>1, <1>3, <4>1
    <3>8. p + 1 > f.at + 1
      BY <1>1, <1>3
    <3>9. g.left = Cardinality({x \in Nones(doc, g.at) : x >= p + 1})
      BY <1>6, <3>5
    <3> HIDE DEF g, R
    <3>10. f.left # 1 => Aligned(doc, g, p + 1)
      BY <1>2, <1>5, <1>6, <2>4, <3>7, <3>8, <3>9 DEF Aligned
    <3> QED BY <3>5, <3>6, <3>7, <3>10 DEF g
  <2> QED BY <1>8, <2>3, <2>4
<1> QED BY <1>7, <1>8 DEF Frames, Container

\* After the count.
LEMMA AlignedCount ==
  ASSUME doc \in Docs, NEW f \in Frames, Describes(doc, f), NEW p, Aligned(doc, f, p),
         f.kind # "opaque", doc[p].k = "count"
  PROVE  /\ doc[p].n \in Nat
         /\ doc[p].n = 0 => p + 1 = f.end
         /\ doc[p].n # 0 => /\ Aligned(doc, [f EXCEPT !.left = doc[p].n, !.next = "item"], p + 1)
                            /\ p + 1 < f.end
<1>1. /\ p \in Directly(doc, f.at) /\ p \in Nat /\ f.at < p /\ p < f.end
      /\ p \in 1..Len(doc) /\ doc[p].k \in WantedBy(f)
  BY AlignedCell
<1>2. f.next = "count" /\ p = f.at + 1 /\ f.kind \in {"lists", "values"}
  BY <1>1 DEF WantedBy, Container, Leaf, Frames, Aligned
<1>3. f.at \in Places(doc) /\ f.end = End(doc, f.at) /\ f.end \in Nat /\ f.at \in Nat
      /\ f.at \in ContainersOf(doc) /\ Counted(doc, f.at) /\ f.kind = doc[f.at].k
  BY <1>2, FrameIs DEF Frames
<1>4. doc[p].n \in Nat /\ doc[f.at].n \in Nat /\ f.end = f.at + 1 + doc[f.at].n
  BY <1>1, <1>3, Files DEF End, ContainersOf, Root
<1>5. p \notin ContainersOf(doc)
  BY DEF ContainersOf, Container
<1>6. p + 1 < f.end => p + 1 \in Directly(doc, f.at)
  BY <1>1, <1>3, <1>5, NextIn
<1> DEFINE g == [f EXCEPT !.left = doc[p].n, !.next = "item"]
<1>7. g.at = f.at /\ g.end = f.end /\ g.kind = f.kind /\ g.next = "item" /\ g.left = doc[p].n
  BY DEF Frames
<1>8. p + 1 > f.at + 1
  BY <1>2, <1>3
<1>9. CASE f.kind = "values"
  <2>1. doc[p].n = f.end - (p + 1)
    BY <1>2, <1>3, <1>4, <1>9 DEF Counted
  <2>2. doc[p].n # 0 => p + 1 < f.end
    BY <1>1, <1>3, <1>4, <2>1
  <2> HIDE DEF g
  <2>3. doc[p].n # 0 => Aligned(doc, g, p + 1)
    BY <1>6, <1>7, <1>8, <1>9, <2>1, <2>2 DEF Aligned
  <2> QED BY <1>1, <1>3, <1>4, <2>1, <2>2, <2>3 DEF g
<1>10. CASE f.kind = "lists"
  <2>1. /\ doc[p].n = Cardinality(Nones(doc, f.at))
        /\ f.end - 1 \in Nones(doc, f.at) \cup {p}
    <3>1. f.end - 1 = f.at + doc[f.at].n
      BY <1>3, <1>4
    <3> QED BY <1>2, <1>3, <1>10, <3>1 DEF Counted
  <2>2. \A x \in Nones(doc, f.at) : x \in Nat /\ x >= p + 1 /\ x < f.end
    <3>1. \A x \in Nones(doc, f.at) : x # p /\ x \in Within(doc, f.at)
      BY <1>3, Direct DEF Nones
    <3> QED BY <1>2, <1>3, <3>1, Ranges
  <2>3. {x \in Nones(doc, f.at) : x >= p + 1} = Nones(doc, f.at)
    BY <2>2
  <2>4. IsFiniteSet(Nones(doc, f.at))
    <3>1. Nones(doc, f.at) \in SUBSET (1..Len(doc)) /\ Len(doc) \in Nat
      BY <1>3, Ranges, Direct, Files DEF Nones
    <3>2. IsFiniteSet(1..Len(doc))
      BY <3>1, FS_Interval
    <3> QED BY <3>1, <3>2, FS_Subset
  <2>5. doc[p].n = 0 => p + 1 = f.end
    <3>1. doc[p].n = 0 => Nones(doc, f.at) = {}
      BY <2>1, <2>4, FS_EmptySet
    <3> QED BY <1>1, <1>3, <2>1, <3>1
  <2>6. doc[p].n # 0 => p + 1 < f.end
    <3>1. doc[p].n # 0 => Nones(doc, f.at) # {}
      BY <2>1, FS_EmptySet
    <3> QED BY <1>1, <1>3, <2>2, <3>1
  <2>7. g.left = Cardinality({x \in Nones(doc, g.at) : x >= p + 1})
    BY <1>7, <2>1, <2>3
  <2> HIDE DEF g
  <2>8. doc[p].n # 0 => Aligned(doc, g, p + 1)
    BY <1>6, <1>7, <1>8, <1>10, <2>6, <2>7 DEF Aligned
  <2> QED BY <1>4, <2>5, <2>6, <2>8 DEF g
<1> QED BY <1>2, <1>9, <1>10

\* On entering a container.
LEMMA AlignedFirst ==
  ASSUME doc \in Docs, NEW c \in Containers
  PROVE  LET f == Frame(c, TRUE, End(doc, c), doc[c].k)
         IN  f \in Frames /\ Describes(doc, f) /\ Aligned(doc, f, c + 1)
<1> DEFINE f == Frame(c, TRUE, End(doc, c), doc[c].k)
<1>1. /\ c \in Places(doc) /\ c \in 1..Len(doc) /\ c # Root /\ doc[c].k \in Container
      /\ doc[c].n \in Nat
  BY Files DEF Containers, ContainersOf, Places, Root
<1>2. End(doc, c) \in Nat /\ End(doc, c) = c + 1 + doc[c].n /\ c \in Nat
  BY <1>1, Ranges DEF End
<1>3. /\ f.at = c /\ f.real = TRUE /\ f.end = End(doc, c) /\ f.kind = doc[c].k /\ f.left = 1
      /\ f.next = IF doc[c].k \in {"lists", "values"} THEN "count" ELSE "item"
  BY DEF Frame
<1>4. f \in Frames
  BY <1>1, <1>2 DEF Frame, Frames
<1> HIDE DEF f
<1>5. Describes(doc, f)
  BY <1>1, <1>2, <1>3 DEF Describes
<1>6. doc[c].k # "opaque" => c + 1 < End(doc, c)
  <2>1. doc[c].k = "struct" => c + doc[c].n \in Within(doc, c)
    <3>1. f.end - 1 = c + doc[c].n
      BY <1>1, <1>2, <1>3
    <3>2. doc[c].k = "struct" => f.end - 1 \in Nones(doc, c)
      BY <1>3, <1>4, <1>5, FrameIs DEF Listed
    <3> QED BY <3>1, <3>2 DEF Nones, Directly
  <2>2. doc[c].k \in {"lists", "values"} => doc[c].n > 0
    BY <1>3, <1>4, <1>5, FrameIs DEF Counted
  <2>3. doc[c].k = "struct" => doc[c].n # 0
    BY <1>1, <1>2, <2>1, Ranges
  <2> QED BY <1>1, <1>2, <2>2, <2>3 DEF Container
<1>7. doc[c].k # "opaque" => c + 1 \in Directly(doc, c)
  BY <1>1, <1>6, FirstIn
<1>8. Aligned(doc, f, c + 1)
  BY <1>3, <1>7 DEF Aligned
<1> QED BY <1>4, <1>5, <1>8 DEF f

-----------------------------------------------------------------------------
(* The stack.                                                              *)

\* Places in a sequence of length n.
LEMMA Indices ==
  ASSUME NEW n \in Nat \ {0}
  PROVE  /\ \A i \in 1..(n - 1) : i \in 1..n /\ i # n
         /\ \A i \in 2..n : /\ i \in 1..n /\ i - 1 \in 1..(n - 1)
                            /\ \A j \in 1..(i - 1) : j \in 1..(n - 1)
  OBVIOUS

\* All but the last of a sequence.
LEMMA ButLast ==
  ASSUME NEW S, NEW s \in Seq(S), Len(s) > 1, NEW t, t = SubSeq(s, 1, Len(s) - 1)
  PROVE  /\ t \in Seq(S) /\ Len(t) = Len(s) - 1
         /\ \A i \in 1..(Len(s) - 1) : t[i] = s[i]
<1>1. Len(s) \in Nat /\ Len(s) > 1 /\ \A i \in 1..(Len(s) - 1) : s[i] \in S
  OBVIOUS
<1>2. /\ t \in Seq(S) /\ Len(t) = Len(s) - 1
      /\ \A i \in 1..(Len(s) - 1) : t[i] = s[1 + i - 1]
  BY <1>1, SubSeqProperties
<1> QED BY <1>1, <1>2

\* The innermost container of the file is the last of the frames of the file.
LEMMA Innermost ==
  ASSUME NEW s \in Seq(Frames), NEW r \in DOMAIN s, \A i \in DOMAIN s : s[i].real <=> i <= r
  PROVE  OwnerIn(s) = s[r] /\ OpenedIn(s) = {s[i].at : i \in 1..r}
<1>1. DOMAIN s = 1..Len(s) /\ Len(s) \in Nat
  OBVIOUS
<1> DEFINE R == {i \in DOMAIN s : s[i].real}
<1>2. R = 1..r /\ R \in SUBSET Nat /\ r \in R /\ \A y \in R : y <= r
  BY <1>1
<1>3. Max(R) = r
  <2> HIDE DEF R
  <2> QED BY <1>2, MaxIs
<1> QED BY <1>2, <1>3 DEF OwnerIn, OpenedIn

\* What every nested stack is like.
LEMMA Outermost ==
  ASSUME NEW d \in Docs, NEW s \in Seq(Frames), s # <<>>, Nested(d, s)
  PROVE  /\ Len(s) \in Nat \ {0} /\ DOMAIN s = 1..Len(s)
         /\ \A i \in DOMAIN s : s[i] \in Frames
         /\ \E r \in DOMAIN s : \A i \in DOMAIN s : s[i].real <=> i <= r
         /\ Len(s) = 1 => s[Len(s)].real /\ s[Len(s)].at = Root /\ OpenedIn(s) = {Root}
         /\ s[Len(s)].real => OwnerIn(s) = s[Len(s)]
<1>1. Len(s) \in Nat \ {0} /\ DOMAIN s = 1..Len(s) /\ \A i \in DOMAIN s : s[i] \in Frames
  OBVIOUS
<1>2. PICK r \in DOMAIN s : \A i \in DOMAIN s : s[i].real <=> i <= r
  BY DEF Nested
<1>3. OwnerIn(s) = s[r] /\ OpenedIn(s) = {s[i].at : i \in 1..r}
  BY <1>2, Innermost
<1>4. s[1].real /\ s[1].at = Root
  BY DEF Nested
<1>5. Len(s) = 1 => OpenedIn(s) = {Root}
  <2>1. Len(s) = 1 => r = 1
    BY <1>1
  <2>2. 1..1 = {1}
    OBVIOUS
  <2>3. r = 1 => OpenedIn(s) = {s[i].at : i \in {1}}
    BY <1>3, <2>2
  <2> QED BY <1>4, <2>1, <2>3
<1>6. s[Len(s)].real => r = Len(s)
  BY <1>1, <1>2
<1> QED BY <1>1, <1>2, <1>3, <1>4, <1>5, <1>6

\* Everything that is open is a container of the file, and none is behind the
\* innermost one.
LEMMA OpenIn ==
  ASSUME NEW d \in Docs, NEW s \in Seq(Frames), s # <<>>, Nested(d, s)
  PROVE  /\ OpenedIn(s) \subseteq Places(d)
         /\ s[Len(s)].real => \A c \in OpenedIn(s) : c <= s[Len(s)].at
<1>1. Len(s) \in Nat \ {0} /\ DOMAIN s = 1..Len(s) /\ \A i \in DOMAIN s : s[i] \in Frames
  BY Outermost
<1>2. \A c \in OpenedIn(s) : \E i \in DOMAIN s : s[i].real /\ c = s[i].at
  BY DEF OpenedIn
<1>3. \A i \in DOMAIN s : s[i].real => s[i].at \in Places(d)
  BY DEF Nested, Describes
<1>4. ASSUME s[Len(s)].real, NEW i \in DOMAIN s PROVE s[i].at <= s[Len(s)].at
  <2>1. CASE i = Len(s)
    <3>1. s[i] \in Frames
      BY <1>1
    <3>2. s[i].at \in Nat
      BY <3>1 DEF Frames
    <3> QED BY <2>1, <3>2
  <2>2. CASE i # Len(s)
    <3>1. Len(s) \in 2..Len(s) /\ i \in 1..(Len(s) - 1)
      BY <1>1, <2>2
    <3>2. s[i].at < s[Len(s)].at
      BY <1>4, <3>1 DEF Nested
    <3>3. s[i] \in Frames /\ s[Len(s)] \in Frames
      BY <1>1, <1>4
    <3>4. s[i].at \in Nat /\ s[Len(s)].at \in Nat
      BY <3>3 DEF Frames
    <3> QED BY <3>2, <3>4
  <2> QED BY <2>1, <2>2
<1> QED BY <1>2, <1>3, <1>4

\* Leaving the innermost container.
LEMMA Popped ==
  ASSUME NEW d \in Docs, NEW s \in Seq(Frames), s # <<>>, Nested(d, s), Len(s) # 1,
         NEW t \in Seq(Frames), Len(t) = Len(s) - 1, \A i \in 1..(Len(s) - 1) : t[i] = s[i],
         NEW f, f = s[Len(s)]
  PROVE  /\ t # <<>> /\ Nested(d, t)
         /\ f.end \in 1..(Len(d) + 1)
         /\ ~f.real => OpenedIn(t) = OpenedIn(s) /\ OwnerIn(t) = OwnerIn(s)
         /\ f.real => /\ OpenedIn(s) = OpenedIn(t) \cup {f.at} /\ f.at \notin OpenedIn(t)
                      /\ t[Len(t)].real /\ Aligned(d, t[Len(t)], f.end)
                      /\ t[Len(t)].at < f.at /\ f.at < f.end
                      /\ f.at \in ContainersOf(d) /\ f.kind = d[f.at].k
                      /\ Within(d, f.at) = (f.at + 1)..(f.end - 1)
<1>1. Len(s) \in Nat /\ Len(s) > 1 /\ DOMAIN s = 1..Len(s) /\ \A i \in DOMAIN s : s[i] \in Frames
  <2>1. Len(s) \in Nat \ {0} /\ DOMAIN s = 1..Len(s) /\ \A i \in DOMAIN s : s[i] \in Frames
    BY Outermost
  <2> QED BY <2>1
<1>2. /\ t \in Seq(Frames) /\ Len(t) = Len(s) - 1 /\ DOMAIN t = 1..Len(t)
      /\ \A i \in DOMAIN t : t[i] = s[i]
  OBVIOUS
<1>3. PICK r \in DOMAIN s : \A i \in DOMAIN s : s[i].real <=> i <= r
  BY Outermost
<1>4. t # <<>> /\ Len(t) \in DOMAIN s /\ Len(s) \in DOMAIN s /\ Len(s) \in 2..Len(s)
      /\ Len(t) \in DOMAIN t /\ \A i \in DOMAIN t : i \in DOMAIN s
  <2>1. Len(t) > 0 /\ Len(t) \in Nat /\ Len(t) < Len(s)
    BY <1>1, <1>2
  <2>2. t # <<>>
    <3>1. Len(<<>>) = 0
      OBVIOUS
    <3> QED BY <2>1, <3>1
  <2>3. Len(t) \in 1..Len(t) /\ Len(t) \in 1..Len(s) /\ Len(s) \in 1..Len(s)
        /\ Len(s) \in 2..Len(s) /\ \A i \in 1..Len(t) : i \in 1..Len(s)
    BY <1>1, <2>1
  <2> QED BY <1>1, <1>2, <2>2, <2>3
<1>5. r # Len(s) => r \in DOMAIN t /\ \A i \in DOMAIN t : t[i].real <=> i <= r
  BY <1>1, <1>2, <1>3
<1>6. r = Len(s) => \A i \in DOMAIN t : t[i].real <=> i <= Len(t)
  BY <1>1, <1>2, <1>3
<1>7. Nested(d, t)
  <2>1. t[1].real /\ t[1].at = Root
    <3>1. t[1] = s[1]
      BY <1>1, <1>2
    <3> QED BY <3>1 DEF Nested
  <2>2. \E q \in DOMAIN t : \A i \in DOMAIN t : t[i].real <=> i <= q
    <3>1. Len(t) \in DOMAIN t
      BY <1>1, <1>2
    <3> QED BY <1>5, <1>6, <3>1
  <2>3. /\ \A i \in DOMAIN t : t[i].end \in 1..(Len(d) + 1)
        /\ \A i \in DOMAIN t : t[i].real => Describes(d, t[i])
    BY <1>1, <1>2, <1>4 DEF Nested
  <2>4. ASSUME NEW i \in 2..Len(t), t[i].real
        PROVE  /\ t[i].at \in Directly(d, t[i - 1].at) /\ Aligned(d, t[i - 1], t[i].end)
               /\ \A j \in 1..(i - 1) : t[j].at < t[i].at
    <3>1. i \in 2..Len(s) /\ t[i] = s[i] /\ t[i - 1] = s[i - 1]
          /\ \A j \in 1..(i - 1) : t[j] = s[j]
      BY <1>1, <1>2
    <3> QED BY <2>4, <3>1 DEF Nested
  <2> QED BY <2>1, <2>2, <2>3, <2>4 DEF Nested
<1>8. f.end \in 1..(Len(d) + 1)
  BY <1>4 DEF Nested
<1>9. ASSUME ~f.real PROVE OpenedIn(t) = OpenedIn(s) /\ OwnerIn(t) = OwnerIn(s)
  <2>1. r # Len(s) /\ r \in DOMAIN t
    BY <1>1, <1>3, <1>5, <1>9
  <2>2. OwnerIn(s) = s[r] /\ OpenedIn(s) = {s[i].at : i \in 1..r}
    BY <1>3, Innermost
  <2>3. OwnerIn(t) = t[r] /\ OpenedIn(t) = {t[i].at : i \in 1..r}
    BY <1>2, <1>5, <2>1, Innermost
  <2>4. \A i \in 1..r : t[i] = s[i]
    BY <1>1, <1>2, <2>1
  <2> QED BY <1>2, <2>1, <2>2, <2>3, <2>4
<1>10. ASSUME f.real
       PROVE  /\ OpenedIn(s) = OpenedIn(t) \cup {f.at} /\ f.at \notin OpenedIn(t)
              /\ t[Len(t)].real /\ Aligned(d, t[Len(t)], f.end)
              /\ t[Len(t)].at < f.at /\ f.at < f.end
              /\ f.at \in ContainersOf(d) /\ f.kind = d[f.at].k
              /\ Within(d, f.at) = (f.at + 1)..(f.end - 1)
  <2>1. r = Len(s)
    BY <1>1, <1>3, <1>4, <1>10
  <2>2. t[Len(t)].real /\ t[Len(t)] = s[Len(s) - 1]
    <3>1. t[Len(t)].real
      BY <1>1, <1>4, <1>6, <2>1, <1>2
    <3>2. t[Len(t)] = s[Len(t)]
      BY <1>2, <1>4
    <3> QED BY <1>2, <3>1, <3>2
  <2>3. OpenedIn(s) = {s[i].at : i \in 1..Len(s)}
    BY <1>3, <2>1, Innermost
  <2>4. OpenedIn(t) = {s[i].at : i \in 1..(Len(s) - 1)}
    <3>1. Len(t) \in DOMAIN t
      BY <1>1, <1>2
    <3>2. OpenedIn(t) = {t[i].at : i \in 1..Len(t)}
      BY <1>2, <1>6, <2>1, <3>1, Innermost
    <3> QED BY <1>2, <3>2
  <2>5. 1..Len(s) = 1..(Len(s) - 1) \cup {Len(s)}
    BY <1>1
  <2>6. OpenedIn(s) = OpenedIn(t) \cup {f.at}
    BY <2>3, <2>4, <2>5
  <2>7. /\ f.at \in Directly(d, s[Len(s) - 1].at) /\ Aligned(d, s[Len(s) - 1], f.end)
        /\ \A j \in 1..(Len(s) - 1) : s[j].at < f.at
    BY <1>4, <1>10 DEF Nested
  <2>8. f.at \in Nat /\ \A i \in DOMAIN s : s[i].at \in Nat
    BY <1>1, <1>4 DEF Frames
  <2>9. f.at \notin OpenedIn(t)
    <3>1. \A i \in 1..(Len(s) - 1) : s[i].at \in Nat
      BY <1>1, <2>8
    <3>2. \A i \in 1..(Len(s) - 1) : s[i].at # f.at
      BY <2>7, <2>8, <3>1
    <3> QED BY <2>4, <3>2
  <2>10. t[Len(t)].at < f.at
    BY <1>1, <2>2, <2>7
  <2>11. Describes(d, f)
    BY <1>4, <1>10 DEF Nested
  <2>12. f.at # Root
    <3>1. 1 \in 1..(Len(s) - 1) /\ s[1].at = Root
      BY <1>1 DEF Nested
    <3>2. Root < f.at
      BY <2>7, <3>1
    <3> QED BY <2>8, <3>2 DEF Root
  <2>13. f.at \in ContainersOf(d) /\ f.kind = d[f.at].k
    BY <2>11, <2>12 DEF Describes, Places
  <2>14. f.at < f.end /\ Within(d, f.at) = (f.at + 1)..(f.end - 1)
    BY <2>11, <2>13, Ranges DEF Describes, Places
  <2> QED BY <2>2, <2>6, <2>7, <2>9, <2>10, <2>13, <2>14
<1> QED BY <1>2, <1>4, <1>7, <1>8, <1>9, <1>10

\* Entering a container, a made-up one or the one at the cursor.
LEMMA Pushed ==
  ASSUME NEW d \in Docs, NEW s \in Seq(Frames), s # <<>>, Nested(d, s),
         NEW f \in Frames, f.end \in 1..(Len(d) + 1),
         NEW t \in Seq(Frames), Len(t) = Len(s) + 1, t[Len(t)] = f,
         \A i \in 1..Len(s) : t[i] = s[i],
         f.real => /\ s[Len(s)].real /\ Describes(d, f) /\ s[Len(s)].at < f.at
                   /\ f.at \in Directly(d, s[Len(s)].at) /\ Aligned(d, s[Len(s)], f.end)
  PROVE  /\ t # <<>> /\ Nested(d, t)
         /\ ~f.real => OpenedIn(t) = OpenedIn(s) /\ OwnerIn(t) = OwnerIn(s)
         /\ f.real => OpenedIn(t) = OpenedIn(s) \cup {f.at}
<1>1. Len(s) \in Nat /\ Len(s) > 0 /\ DOMAIN s = 1..Len(s) /\ \A i \in DOMAIN s : s[i] \in Frames
  BY Outermost
<1>2. /\ t # <<>> /\ Len(t) = Len(s) + 1 /\ DOMAIN t = 1..Len(t)
      /\ \A i \in 1..Len(s) : t[i] = s[i]
      /\ t[Len(t)] = f
  <2>1. Len(<<>>) = 0
    OBVIOUS
  <2> QED BY <1>1, <2>1
<1>3. PICK r \in DOMAIN s : \A i \in DOMAIN s : s[i].real <=> i <= r
  BY Outermost
<1>4. CASE ~f.real
  <2>1. r \in DOMAIN t /\ \A i \in DOMAIN t : t[i].real <=> i <= r
    BY <1>1, <1>2, <1>3, <1>4
  <2>2. OwnerIn(s) = s[r] /\ OpenedIn(s) = {s[i].at : i \in 1..r}
    BY <1>3, Innermost
  <2>3. OwnerIn(t) = t[r] /\ OpenedIn(t) = {t[i].at : i \in 1..r}
    BY <1>2, <2>1, Innermost
  <2>4. \A i \in 1..r : t[i] = s[i]
    BY <1>1, <1>2, <1>3
  <2>5. OpenedIn(t) = OpenedIn(s) /\ OwnerIn(t) = OwnerIn(s)
    BY <1>1, <1>2, <2>2, <2>3, <2>4
  <2>6. t[1].real /\ t[1].at = Root
    BY <1>1, <1>2 DEF Nested
  <2>7. /\ \A i \in DOMAIN t : t[i].end \in 1..(Len(d) + 1)
        /\ \A i \in DOMAIN t : t[i].real => Describes(d, t[i])
    <3>1. \A i \in DOMAIN t : t[i] = f \/ (i \in DOMAIN s /\ t[i] = s[i])
      BY <1>1, <1>2
    <3>2. \A i \in DOMAIN s : s[i].end \in 1..(Len(d) + 1) /\ (s[i].real => Describes(d, s[i]))
      BY DEF Nested
    <3> QED BY <1>4, <3>1, <3>2
  <2>8. ASSUME NEW i \in 2..Len(t), t[i].real
        PROVE  /\ t[i].at \in Directly(d, t[i - 1].at) /\ Aligned(d, t[i - 1], t[i].end)
               /\ \A j \in 1..(i - 1) : t[j].at < t[i].at
    <3>1. i \in 2..Len(s) /\ t[i] = s[i] /\ t[i - 1] = s[i - 1]
          /\ \A j \in 1..(i - 1) : t[j] = s[j]
      BY <1>1, <1>2, <1>4, <2>8
    <3> QED BY <2>8, <3>1 DEF Nested
  <2>9. Nested(d, t)
    BY <2>1, <2>6, <2>7, <2>8 DEF Nested
  <2> QED BY <1>2, <1>4, <2>5, <2>9
<1>5. CASE f.real
  <2>1. r = Len(s)
    BY <1>1, <1>3, <1>5
  <2>2. Len(t) \in DOMAIN t /\ \A i \in DOMAIN t : t[i].real <=> i <= Len(t)
    BY <1>1, <1>2, <1>3, <1>5, <2>1
  <2>3. OpenedIn(s) = {s[i].at : i \in 1..Len(s)}
    BY <1>3, <2>1, Innermost
  <2>4. OpenedIn(t) = {t[i].at : i \in 1..Len(t)}
    BY <1>2, <2>2, Innermost
  <2>5. OpenedIn(t) = OpenedIn(s) \cup {f.at}
    <3>1. 1..Len(t) = 1..Len(s) \cup {Len(t)}
      BY <1>1, <1>2
    <3> QED BY <1>2, <2>3, <2>4, <3>1
  <2>6. t[1].real /\ t[1].at = Root
    BY <1>1, <1>2 DEF Nested
  <2>7. /\ \A i \in DOMAIN t : t[i].end \in 1..(Len(d) + 1)
        /\ \A i \in DOMAIN t : t[i].real => Describes(d, t[i])
    <3>1. \A i \in DOMAIN t : t[i] = f \/ (i \in DOMAIN s /\ t[i] = s[i])
      BY <1>1, <1>2
    <3>2. \A i \in DOMAIN s : s[i].end \in 1..(Len(d) + 1) /\ (s[i].real => Describes(d, s[i]))
      BY DEF Nested
    <3> QED BY <1>5, <3>1, <3>2
  <2>8. ASSUME NEW i \in 2..Len(t), t[i].real
        PROVE  /\ t[i].at \in Directly(d, t[i - 1].at) /\ Aligned(d, t[i - 1], t[i].end)
               /\ \A j \in 1..(i - 1) : t[j].at < t[i].at
    <3>1. CASE i # Len(t)
      <4>1. i \in 2..Len(s) /\ t[i] = s[i] /\ t[i - 1] = s[i - 1]
            /\ \A j \in 1..(i - 1) : t[j] = s[j]
        BY <1>1, <1>2, <3>1
      <4> QED BY <2>8, <4>1 DEF Nested
    <3>2. CASE i = Len(t)
      <4>1. t[i] = f /\ i - 1 = Len(s) /\ t[i - 1] = s[Len(s)]
            /\ \A j \in 1..(i - 1) : t[j] = s[j]
        <5>1. i - 1 = Len(s) /\ Len(s) \in 1..Len(s)
          BY <1>1, <1>2, <3>2
        <5>2. t[Len(s)] = s[Len(s)] /\ \A j \in 1..Len(s) : t[j] = s[j]
          BY <1>2, <5>1
        <5>3. t[i] = f
          BY <1>2, <3>2
        <5> QED BY <5>1, <5>2, <5>3
      <4>2. \A j \in 1..Len(s) : s[j].at < f.at
        <5>1. \A j \in DOMAIN s : s[j].at \in OpenedIn(s)
          BY <1>1, <2>3
        <5>2. \A j \in DOMAIN s : s[j].at <= s[Len(s)].at
          BY <1>5, <5>1, OpenIn
        <5>3. \A j \in DOMAIN s : s[j].at \in Nat
          BY <1>1 DEF Frames
        <5>4. f.at \in Nat /\ Len(s) \in DOMAIN s
          BY <1>1 DEF Frames
        <5> QED BY <1>1, <1>5, <5>2, <5>3, <5>4
      <4> QED BY <1>5, <4>1, <4>2
    <3> QED BY <3>1, <3>2
  <2>9. Nested(d, t)
    BY <2>2, <2>6, <2>7, <2>8 DEF Nested
  <2> QED BY <1>2, <1>5, <2>5, <2>9
<1> QED BY <1>4, <1>5

\* The innermost frame goes on.
LEMMA Swapped ==
  ASSUME NEW d \in Docs, NEW s \in Seq(Frames), s # <<>>, Nested(d, s),
         NEW f, f = s[Len(s)], NEW g \in Frames,
         g.at = f.at, g.real = f.real, g.end = f.end, g.kind = f.kind,
         NEW t \in Seq(Frames), Len(t) = Len(s), t[Len(s)] = g,
         \A i \in 1..(Len(s) - 1) : t[i] = s[i]
  PROVE  /\ t # <<>> /\ Nested(d, t)
         /\ OpenedIn(t) = OpenedIn(s)
         /\ OwnerIn(t).at = OwnerIn(s).at /\ OwnerIn(t).end = OwnerIn(s).end
<1>1. Len(s) \in Nat /\ Len(s) > 0 /\ DOMAIN s = 1..Len(s) /\ \A i \in DOMAIN s : s[i] \in Frames
  BY Outermost
<1>2. /\ t # <<>> /\ Len(t) = Len(s) /\ DOMAIN t = 1..Len(s)
      /\ \A i \in 1..(Len(s) - 1) : t[i] = s[i]
      /\ t[Len(s)] = g
  <2>1. Len(<<>>) = 0
    OBVIOUS
  <2> QED BY <1>1, <2>1
<1>3. \A i \in DOMAIN s : /\ t[i].at = s[i].at /\ t[i].real = s[i].real
                          /\ t[i].end = s[i].end /\ t[i].kind = s[i].kind
  BY <1>1, <1>2
<1>4. PICK r \in DOMAIN s : \A i \in DOMAIN s : s[i].real <=> i <= r
  BY Outermost
<1>5. r \in DOMAIN t /\ \A i \in DOMAIN t : t[i].real <=> i <= r
  BY <1>1, <1>2, <1>3, <1>4
<1>6. /\ OwnerIn(s) = s[r] /\ OpenedIn(s) = {s[i].at : i \in 1..r}
      /\ OwnerIn(t) = t[r] /\ OpenedIn(t) = {t[i].at : i \in 1..r}
  BY <1>2, <1>4, <1>5, Innermost
<1>7. \A i \in 1..r : i \in DOMAIN s
  BY <1>1, <1>4
<1>8. OpenedIn(t) = OpenedIn(s)
  <2>1. \A i \in 1..r : t[i].at = s[i].at
    BY <1>3, <1>7
  <2>2. \A c : (\E i \in 1..r : c = t[i].at) <=> (\E i \in 1..r : c = s[i].at)
    BY <2>1
  <2> QED BY <1>6, <2>2
<1>9. OwnerIn(t).at = OwnerIn(s).at /\ OwnerIn(t).end = OwnerIn(s).end
  BY <1>3, <1>4, <1>6
<1>10. t[1].real /\ t[1].at = Root
  BY <1>1, <1>3 DEF Nested
<1>11. /\ \A i \in DOMAIN t : t[i].end \in 1..(Len(d) + 1)
       /\ \A i \in DOMAIN t : t[i].real => Describes(d, t[i])
  <2>1. \A i \in DOMAIN s : s[i].end \in 1..(Len(d) + 1) /\ (s[i].real => Describes(d, s[i]))
    BY DEF Nested
  <2>2. DOMAIN t = DOMAIN s
    BY <1>1, <1>2
  <2> QED BY <1>3, <2>1, <2>2 DEF Describes
<1>12. ASSUME NEW i \in 2..Len(t), t[i].real
       PROVE  /\ t[i].at \in Directly(d, t[i - 1].at) /\ Aligned(d, t[i - 1], t[i].end)
              /\ \A j \in 1..(i - 1) : t[j].at < t[i].at
  <2>1. /\ i \in 2..Len(s) /\ i \in DOMAIN s /\ t[i - 1] = s[i - 1]
        /\ \A j \in 1..(i - 1) : t[j] = s[j]
    <3>1. i \in 2..Len(s) /\ i \in 1..Len(s) /\ i - 1 \in 1..(Len(s) - 1)
          /\ \A j \in 1..(i - 1) : j \in 1..(Len(s) - 1)
      BY <1>1, <1>2, Indices
    <3> QED BY <1>1, <1>2, <3>1
  <2>2. t[i].at = s[i].at /\ t[i].end = s[i].end /\ s[i].real
    BY <1>3, <1>12, <2>1
  <2> QED BY <2>1, <2>2 DEF Nested
<1>13. Nested(d, t)
  BY <1>5, <1>10, <1>11, <1>12 DEF Nested
<1> QED BY <1>2, <1>8, <1>9, <1>13

-----------------------------------------------------------------------------
(* What holds of the state.                                                *)

\* What depends on the file only.
LEMMA FileKeeps ==
  ASSUME UNCHANGED file
  PROVE  /\ doc' = doc /\ damaged' = damaged /\ Past' = Past
         /\ Harmed' = Harmed /\ Spoilt' = Spoilt /\ Readable' = Readable
<1>1. doc' = doc /\ damaged' = damaged
  BY DEF file
<1>2. Harmed' = Harmed /\ Readable' = Readable /\ Past' = Past
  BY <1>1 DEF Harmed, Home, Readable, Past, Containers, Inside
<1>3. Opaque' = Opaque
  BY <1>1 DEF Opaque, Containers
<1> QED BY <1>1, <1>2, <1>3 DEF Spoilt, Inside

\* A recorded line.
LEMMA Lines ==
  ASSUME Typed
  PROVE  Recorded \in Nat \ {0}
BY BoundAssumption DEF Typed, Recorded

\* The innermost frame, and the innermost container of the file.
LEMMA TopIs ==
  ASSUME Typed, StackInv
  PROVE  /\ Len(stack) \in Nat \ {0} /\ Top \in Frames /\ Top.end \in 1..Past
         /\ Top.real => OwnerIn(stack) = Top /\ Describes(doc, Top)
         /\ Len(stack) = 1 => Top.real /\ Top.at = Root /\ Opened = {Root}
         /\ Owner = OwnerIn(stack).at /\ Owner \in Places(doc) /\ Owner \in Nat
         /\ OwnerIn(stack).end = End(doc, Owner)
<1>1. doc \in Docs /\ stack \in Seq(Frames) /\ stack # <<>> /\ Nested(doc, stack)
  BY DEF Typed, StackInv
<1>2. /\ Len(stack) \in Nat \ {0} /\ DOMAIN stack = 1..Len(stack)
      /\ \A i \in DOMAIN stack : stack[i] \in Frames
      /\ Len(stack) = 1 => Top.real /\ Top.at = Root /\ Opened = {Root}
      /\ Top.real => OwnerIn(stack) = Top
  BY <1>1, Outermost DEF Top, Opened
<1>3. PICK r \in DOMAIN stack : \A i \in DOMAIN stack : stack[i].real <=> i <= r
  BY <1>1, Outermost
<1>4. OwnerIn(stack) = stack[r]
  BY <1>1, <1>3, Innermost
<1>5. stack[r].real
  BY <1>2, <1>3
<1>6. Len(stack) \in DOMAIN stack
  BY <1>2
<1>7. Top \in Frames /\ Top.end \in 1..Past /\ (Top.real => Describes(doc, Top))
  BY <1>1, <1>2, <1>6 DEF Nested, Top, Past
<1>8. Describes(doc, stack[r])
  BY <1>1, <1>5 DEF Nested
<1>9. Owner = OwnerIn(stack).at
  BY DEF Owner, OwnerIn
<1>10. Owner \in Places(doc) /\ OwnerIn(stack).end = End(doc, Owner)
  BY <1>4, <1>8, <1>9 DEF Describes
<1>11. Owner \in Nat
  BY <1>1, <1>10, Ranges
<1> QED BY <1>2, <1>7, <1>9, <1>10, <1>11

\* Where the cursor is when it is not lost.
LEMMA NotLost ==
  ASSUME Typed, StackInv, CursorInv, Running, ~lost
  PROVE  Top.real /\ Describes(doc, Top) /\ Aligned(doc, Top, pos) /\ pos > Top.at
BY TopIs DEF CursorInv

\* Damage, or a property that is odd, harms the container it is directly in.
LEMMA Harms ==
  ASSUME doc \in Docs, NEW c \in Places(doc), NEW p \in Directly(doc, c),
         p \in damaged \/ doc[p].k = "odd"
  PROVE  c \in Harmed
<1> DEFINE S == {Root} \cup {e \in Containers : p \in Inside(e)}
<1>1. p \in 1..Len(doc) /\ p \in Within(doc, c) /\ c \in Nat
  BY Ranges, Direct
<1>2. S \in SUBSET Nat
  BY Ranges DEF Places, Containers, Root
<1>3. c \in S
  BY <1>1 DEF Places, Containers, Inside
<1>4. \A e \in S : e <= c
  BY <1>1, Direct DEF Containers, Inside, Root
<1>5. Max(S) = c
  <2> HIDE DEF S
  <2> QED BY <1>2, <1>3, <1>4, MaxIs
<1>6. Home(p) = c
  BY <1>5 DEF Home
<1> QED BY <1>1, <1>6 DEF Harmed

\* Reading what is not what was written has its reason in the container.
LEMMA NotGood ==
  ASSUME Typed, StackInv, CursorInv, ContainedInv, pc = "body", ~Good, Root \notin Harmed
  PROVE  /\ Top.kind # "opaque" => Owner \in Harmed
         /\ Top.real => Top.at \in Harmed \cup Opaque
<1>1. CASE lost
  BY <1>1, TopIs DEF ContainedInv, Running
<1>2. CASE ~lost
  <2>1. Top.real /\ Describes(doc, Top) /\ Aligned(doc, Top, pos) /\ Top \in Frames
        /\ Owner = Top.at /\ doc \in Docs /\ Top.at \in Places(doc)
    BY <1>2, NotLost, TopIs DEF Running, Typed, Describes
  <2>2. CASE Top.kind = "opaque"
    <3>1. Top.at \in Opaque
      BY <2>1, <2>2 DEF Describes, Places, Opaque, Containers
    <3> QED BY <2>2, <3>1
  <2>3. CASE Top.kind # "opaque"
    <3>1. pos \in Directly(doc, Top.at) /\ pos \in 1..Len(doc) /\ doc[pos].k \in WantedBy(Top)
      BY <2>1, <2>3, AlignedCell
    <3>2. pos < Past /\ doc[pos].k \in Wanted
      BY <2>1, <3>1, Files DEF Past, Wanted, WantedBy
    <3>3. pos \in damaged
      BY <1>2, <3>2 DEF Good
    <3>4. Top.at \in Harmed
      BY <2>1, <3>1, <3>3, Harms
    <3> QED BY <2>1, <3>4
  <2> QED BY <2>2, <2>3
<1> QED BY <1>1, <1>2

\* In front of the end of a container that suffers, all is in the result.
LEMMA Cover ==
  ASSUME Typed, StackInv, CursorInv, ContainedInv, Running, Root \notin Harmed,
         Owner \in Harmed \cup Opaque
  PROVE  {p \in Readable \ Spoilt : p < OwnerIn(stack).end} \subseteq out \cup Opened
<1> SUFFICES ASSUME NEW p \in Readable \ Spoilt, p < OwnerIn(stack).end
             PROVE  p \in out \cup Opened
  OBVIOUS
<1>1. /\ Owner \in Places(doc) /\ Owner \in Nat /\ doc \in Docs
      /\ OwnerIn(stack).end = End(doc, Owner) /\ Owner = OwnerIn(stack).at
  BY TopIs DEF Typed
<1>2. p \in Nat /\ End(doc, Owner) \in Nat
      /\ Inside(Owner) = (Owner + 1)..(End(doc, Owner) - 1)
  BY <1>1, Ranges DEF Readable, Inside
<1>3. Inside(Owner) \cup {Owner} \subseteq Spoilt
  BY DEF Spoilt
<1>4. p < Owner
  BY <1>1, <1>2, <1>3
<1>5. p < Front
  <2>1. CASE lost
    BY <2>1 DEF Front
  <2>2. CASE ~lost
    <3>1. pos > Owner
      BY <2>2, NotLost, TopIs
    <3>2. pos \in Nat
      BY Files DEF Typed, Past
    <3> QED BY <1>1, <1>2, <1>4, <2>2, <3>1, <3>2 DEF Front
  <2> QED BY <2>1, <2>2
<1> QED BY <1>5 DEF ContainedInv

\* Leaving the innermost container.
LEMMA Leaves ==
  ASSUME Typed, StackInv, Len(stack) # 1, stack' = Below, UNCHANGED file
  PROVE  /\ stack' \in Seq(Frames) /\ stack' # <<>> /\ StackInv'
         /\ ~Top.real => Opened' = Opened /\ OwnerIn(stack)' = OwnerIn(stack) /\ Owner' = Owner
         /\ Top.real => /\ Opened = Opened' \cup {Top.at} /\ Top.at \notin Opened'
                        /\ Top'.real /\ Aligned(doc, Top', Top.end) /\ Top.end > Top'.at
                        /\ Top.at \in Nat /\ Top.end \in Nat /\ Top.at < Top.end
                        /\ Top.at \in Containers /\ Top.kind = doc[Top.at].k
                        /\ Inside(Top.at) = (Top.at + 1)..(Top.end - 1)
<1>1. /\ doc \in Docs /\ stack \in Seq(Frames) /\ stack # <<>> /\ Nested(doc, stack)
      /\ doc' = doc
  BY FileKeeps DEF Typed, StackInv
<1>2. Len(stack) \in Nat \ {0} /\ DOMAIN stack = 1..Len(stack)
      /\ \A i \in DOMAIN stack : stack[i] \in Frames
  BY <1>1, Outermost
<1>3. /\ stack' \in Seq(Frames) /\ Len(stack') = Len(stack) - 1
      /\ \A i \in 1..(Len(stack) - 1) : stack'[i] = stack[i]
  <2>1. Len(stack) > 1 /\ stack' = SubSeq(stack, 1, Len(stack) - 1)
    BY <1>2 DEF Below
  <2> QED BY <1>1, <2>1, ButLast
<1> DEFINE t == stack'
<1>4. /\ t # <<>> /\ Nested(doc, t)
      /\ Top.end \in 1..(Len(doc) + 1)
      /\ ~Top.real => OpenedIn(t) = OpenedIn(stack) /\ OwnerIn(t) = OwnerIn(stack)
      /\ Top.real => /\ OpenedIn(stack) = OpenedIn(t) \cup {Top.at} /\ Top.at \notin OpenedIn(t)
                     /\ t[Len(t)].real /\ Aligned(doc, t[Len(t)], Top.end)
                     /\ t[Len(t)].at < Top.at /\ Top.at < Top.end
                     /\ Top.at \in ContainersOf(doc) /\ Top.kind = doc[Top.at].k
                     /\ Within(doc, Top.at) = (Top.at + 1)..(Top.end - 1)
  <2> HIDE DEF t
  <2> QED BY <1>1, <1>2, <1>3, Popped DEF Top, t
<1>5. Owner = OwnerIn(stack).at /\ Owner' = OwnerIn(stack').at
  BY DEF Owner, OwnerIn
<1>6. Top' \in Frames /\ Top \in Frames
  <2>1. Len(t) \in 1..Len(t) /\ Len(stack) \in DOMAIN stack
    BY <1>2, <1>3
  <2> QED BY <1>2, <1>3, <2>1 DEF Top
<1>7. Top.at \in Nat /\ Top.end \in Nat /\ Top'.at \in Nat
  BY <1>6 DEF Frames
<1>8. Top' = t[Len(t)] /\ Opened' = OpenedIn(t) /\ StackInv' = Nested(doc', t)
  BY DEF Top, Opened, StackInv
<1> HIDE DEF t
<1>9. Top.real => Top.end > Top'.at
  BY <1>4, <1>7, <1>8
<1> QED BY <1>1, <1>3, <1>4, <1>5, <1>7, <1>8, <1>9 DEF t, Opened, Containers, Inside

\* The innermost frame goes on, with another count of elements that are left.
LEMMA GoesOn ==
  ASSUME Typed, StackInv, UNCHANGED file, NEW g \in Frames,
         g.at = Top.at, g.real = Top.real, g.end = Top.end, g.kind = Top.kind,
         stack' \in Seq(Frames), Len(stack') = Len(stack), stack'[Len(stack)] = g,
         \A i \in 1..(Len(stack) - 1) : stack'[i] = stack[i]
  PROVE  /\ stack' # <<>> /\ StackInv' /\ Top' = g
         /\ Opened' = Opened /\ Owner' = Owner
         /\ OwnerIn(stack)'.end = OwnerIn(stack).end
<1>1. /\ doc \in Docs /\ stack \in Seq(Frames) /\ stack # <<>> /\ Nested(doc, stack)
      /\ doc' = doc
  BY FileKeeps DEF Typed, StackInv
<1> DEFINE t == stack'
<1>2. /\ t # <<>> /\ Nested(doc, t) /\ OpenedIn(t) = OpenedIn(stack)
      /\ OwnerIn(t).at = OwnerIn(stack).at /\ OwnerIn(t).end = OwnerIn(stack).end
  <2> HIDE DEF t
  <2> QED BY <1>1, Swapped DEF Top, t
<1>3. Owner = OwnerIn(stack).at /\ Owner' = OwnerIn(stack').at
  BY DEF Owner, OwnerIn
<1>4. Top' = t[Len(t)] /\ Opened' = OpenedIn(t) /\ StackInv' = Nested(doc', t)
  BY DEF Top, Opened, StackInv
<1> QED BY <1>1, <1>2, <1>3, <1>4 DEF Opened

\* One more container.
LEMMA Enters ==
  ASSUME Typed, StackInv, UNCHANGED file, NEW f \in Frames, f.end \in 1..Past,
         stack' = Append(stack, f),
         f.real => /\ Top.real /\ Describes(doc, f) /\ Top.at < f.at
                   /\ f.at \in Directly(doc, Top.at) /\ Aligned(doc, Top, f.end)
  PROVE  /\ stack' \in Seq(Frames) /\ stack' # <<>> /\ StackInv' /\ Top' = f
         /\ ~f.real => Opened' = Opened /\ OwnerIn(stack)' = OwnerIn(stack) /\ Owner' = Owner
         /\ f.real => Opened' = Opened \cup {f.at}
<1>1. /\ doc \in Docs /\ stack \in Seq(Frames) /\ stack # <<>> /\ Nested(doc, stack)
      /\ doc' = doc
  BY FileKeeps DEF Typed, StackInv
<1>2. /\ stack' \in Seq(Frames) /\ Len(stack') = Len(stack) + 1 /\ stack'[Len(stack) + 1] = f
      /\ \A i \in 1..Len(stack) : stack'[i] = stack[i]
  BY <1>1, AppendProperties
<1> DEFINE t == stack'
<1>3. /\ t # <<>> /\ Nested(doc, t)
      /\ ~f.real => OpenedIn(t) = OpenedIn(stack) /\ OwnerIn(t) = OwnerIn(stack)
      /\ f.real => OpenedIn(t) = OpenedIn(stack) \cup {f.at}
  <2>1. t \in Seq(Frames) /\ Len(t) = Len(stack) + 1 /\ t[Len(t)] = f
        /\ \A i \in 1..Len(stack) : t[i] = stack[i]
    BY <1>2
  <2> HIDE DEF t
  <2> QED BY <1>1, <2>1, Pushed DEF Top, Past
<1>4. Owner = OwnerIn(stack).at /\ Owner' = OwnerIn(stack').at
  BY DEF Owner, OwnerIn
<1>5. Top' = t[Len(t)] /\ Opened' = OpenedIn(t) /\ StackInv' = Nested(doc', t)
  BY DEF Top, Opened, StackInv
<1> QED BY <1>1, <1>2, <1>3, <1>4, <1>5 DEF Opened

-----------------------------------------------------------------------------
(* The steps.                                                              *)

\* A cursor that goes astray in a container that is harmed.
LEMMA Strays ==
  ASSUME IInv, pc = "body", pc' = "body", UNCHANGED file, lost', pos' \in 1..Past,
         lost' \in BOOLEAN,
         stack' \in Seq(Frames), stack' # <<>>, StackInv',
         Opened' = Opened, Owner' = Owner, OwnerIn(stack)'.end = OwnerIn(stack).end,
         out' = out, forged' \subseteq forged \cup {Owner},
         errors' \in Nat, guessed' = guessed, Root \notin Harmed => Owner \in Harmed
  PROVE  IInv'
<1>1. /\ doc' = doc /\ damaged' = damaged /\ Past' = Past
      /\ Harmed' = Harmed /\ Spoilt' = Spoilt /\ Readable' = Readable
  BY FileKeeps
<1>2. Owner \in Nat
  BY TopIs DEF IInv
<1>3. Typed'
  BY <1>1, <1>2 DEF IInv, Typed
<1>4. CursorInv' /\ CleanInv' /\ DamageIsContained' /\ NothingLostSilently'
  BY DEF CursorInv, CleanInv, DamageIsContained, NothingLostSilently
<1>5. ContainedInv'
  <2>1. SUFFICES ASSUME Root \notin Harmed
                 PROVE  /\ Owner' \in Harmed
                        /\ forged' \subseteq Harmed /\ out' \ Spoilt \subseteq Readable
                        /\ {p \in Readable \ Spoilt : p < Front'} \subseteq out' \cup Opened'
    BY <1>1 DEF ContainedInv
  <2>2. Owner \in Harmed
    BY <2>1
  <2>3. {p \in Readable \ Spoilt : p < OwnerIn(stack).end} \subseteq out \cup Opened
    BY <2>1, <2>2, Cover DEF IInv, Running
  <2>4. Front' = OwnerIn(stack).end
    BY DEF Front
  <2>5. forged \subseteq Harmed /\ out \ Spoilt \subseteq Readable
    BY <2>1 DEF IInv, ContainedInv
  <2> QED BY <2>2, <2>3, <2>4, <2>5
<1> QED BY <1>3, <1>4, <1>5 DEF IInv

\* A cell that is read as what it is.
LEMMA Forward ==
  ASSUME IInv, pc = "body", pc' = "body", UNCHANGED file, ~lost, lost' = FALSE,
         pos \in 1..Len(doc), pos' = pos + 1,
         stack' \in Seq(Frames), stack' # <<>>, StackInv', Opened' = Opened,
         Top'.real, Aligned(doc, Top', pos + 1), Top'.at = Top.at,
         out' = out \cup ({pos} \cap Readable), forged' = forged,
         errors' \in Nat, errors' = errors \/ errors' # 0, guessed' = guessed
  PROVE  IInv'
<1>1. /\ doc' = doc /\ damaged' = damaged /\ Past' = Past
      /\ Harmed' = Harmed /\ Spoilt' = Spoilt /\ Readable' = Readable
  BY FileKeeps
<1>2. /\ Top.real /\ pos > Top.at /\ Top \in Frames /\ Len(doc) \in Nat /\ pos \in Nat
      /\ doc \in Docs /\ stack \in Seq(Frames) /\ stack # <<>> /\ Nested(doc, stack)
  BY NotLost, TopIs, Files DEF IInv, Running, Typed, StackInv
<1>3. Readable \subseteq 1..Len(doc)
  BY DEF Readable
<1>4. Typed'
  <2>1. pos' \in 1..Past'
    BY <1>1, <1>2 DEF Past
  <2> QED BY <1>1, <1>3, <2>1 DEF IInv, Typed
<1>5. CursorInv'
  <2>1. Top.at \in Nat
    BY <1>2 DEF Frames
  <2> QED BY <1>1, <1>2, <2>1 DEF CursorInv
<1>6. DamageIsContained' /\ NothingLostSilently'
  BY DEF DamageIsContained, NothingLostSilently
<1>7. \A p \in Readable : p < pos + 1 <=> p < pos \/ p = pos
  BY <1>2, <1>3
<1>8. ContainedInv'
  <2>1. SUFFICES ASSUME Root \notin Harmed
                 PROVE  /\ forged' \subseteq Harmed /\ out' \ Spoilt \subseteq Readable
                        /\ {p \in Readable \ Spoilt : p < Front'} \subseteq out' \cup Opened'
    BY <1>1 DEF ContainedInv
  <2>2. /\ forged \subseteq Harmed /\ out \ Spoilt \subseteq Readable
        /\ {p \in Readable \ Spoilt : p < pos} \subseteq out \cup Opened
    BY <2>1 DEF IInv, ContainedInv, Running, Front
  <2>3. Front' = pos + 1
    BY DEF Front
  <2>4. {p \in Readable \ Spoilt : p < pos + 1} \subseteq out' \cup Opened'
    BY <1>7, <2>2
  <2> QED BY <2>2, <2>3, <2>4
<1>9. CleanInv'
  <2>1. SUFFICES ASSUME errors = 0, guessed = {}
                 PROVE  forged' = {} /\ out' = {p \in Readable : p < pos + 1} \ Opened
    BY <1>1 DEF CleanInv
  <2>2. forged = {} /\ out = {p \in Readable : p < pos} \ Opened
    BY <2>1 DEF IInv, CleanInv, Running
  <2>3. pos \notin Opened
    <3>1. \A c \in Opened : c \in Nat /\ c <= Top.at
      BY <1>2, OpenIn, Ranges DEF Opened, Top
    <3>2. Top.at \in Nat
      BY <1>2 DEF Frames
    <3> QED BY <1>2, <3>1, <3>2
  <2> QED BY <1>7, <2>2, <2>3
<1> QED BY <1>4, <1>5, <1>6, <1>8, <1>9 DEF IInv

\* A value that cannot be read, in a container that suffers.
LEMMA FailStep ==
  ASSUME IInv, pc = "body", UNCHANGED file, Fail,
         Root \notin Harmed /\ Top.real => Top.at \in Harmed \cup Opaque
  PROVE  IInv'
<1>1. /\ doc' = doc /\ damaged' = damaged /\ Past' = Past
      /\ Harmed' = Harmed /\ Spoilt' = Spoilt /\ Readable' = Readable
  BY FileKeeps
<1>2. Typed /\ StackInv /\ CursorInv /\ ContainedInv /\ Running
  BY DEF IInv, Running
<1>3. errors' \in Nat \ {0} /\ guessed' = guessed
  BY <1>2, Lines DEF Fail
<1>4. CleanInv' /\ NothingLostSilently'
  BY <1>3 DEF CleanInv, NothingLostSilently
<1>5. CASE Len(stack) = 1
  <2>1. pc' = "done" /\ out' = {} /\ forged' = {} /\ pos' = pos /\ lost' = lost /\ stack' = stack
    BY <1>5 DEF Fail
  <2>2. Typed' /\ StackInv' /\ CursorInv'
    BY <1>1, <1>2, <1>3, <2>1 DEF Typed, StackInv, CursorInv, Running
  <2>3. Root \in Harmed
    <3>1. Top.real /\ Top.at = Root
      BY <1>2, <1>5, TopIs
    <3>2. Root \notin Opaque
      BY DEF Opaque, Containers, ContainersOf, Root
    <3> QED BY <3>1, <3>2
  <2>4. ContainedInv' /\ DamageIsContained'
    BY <1>1, <2>3 DEF ContainedInv, DamageIsContained
  <2> QED BY <1>4, <2>2, <2>4 DEF IInv
<1>6. CASE Len(stack) # 1 /\ ~Top.real
  <2>1. /\ pos' = Top.end /\ stack' = Below /\ lost' = lost /\ out' = out
        /\ forged' = forged /\ pc' = pc
    BY <1>6 DEF Fail, ReseekTo, IInv, Typed
  <2>2. /\ stack' \in Seq(Frames) /\ stack' # <<>> /\ StackInv'
        /\ Opened' = Opened /\ OwnerIn(stack)' = OwnerIn(stack) /\ Owner' = Owner
    BY <1>2, <1>6, <2>1, Leaves
  <2>3. lost /\ Top.end \in 1..Past
    BY <1>2, <1>6, TopIs DEF CursorInv
  <2>4. Root \notin Harmed => Owner \in Harmed
    BY <1>2, <2>3 DEF ContainedInv
  <2>5. lost' /\ pos' \in 1..Past /\ lost' \in BOOLEAN /\ pc' = "body"
    BY <1>2, <2>1, <2>3 DEF Typed
  <2> QED BY <1>3, <2>1, <2>2, <2>4, <2>5, Strays
<1>7. CASE Len(stack) # 1 /\ Top.real
  <2>1. /\ pos' = Top.end /\ stack' = Below /\ lost' = FALSE
        /\ out' = out \ Inside(Top.at) /\ forged' = forged \ {Top.at} /\ pc' = pc
    BY <1>7 DEF Fail, ReseekTo
  <2>2. /\ stack' \in Seq(Frames) /\ stack' # <<>> /\ StackInv'
        /\ Opened = Opened' \cup {Top.at} /\ Top.at \notin Opened'
        /\ Top'.real /\ Aligned(doc, Top', Top.end) /\ Top.end > Top'.at
        /\ Top.at \in Nat /\ Top.end \in Nat /\ Top.at < Top.end
        /\ Inside(Top.at) = (Top.at + 1)..(Top.end - 1)
    BY <1>2, <1>7, <2>1, Leaves
  <2>3. Typed'
    <3>1. Top.end \in 1..Past
      BY <1>2, TopIs
    <3> QED BY <1>1, <1>2, <1>3, <2>1, <2>2, <3>1 DEF Typed
  <2>4. CursorInv'
    BY <1>1, <2>1, <2>2 DEF CursorInv
  <2>5. ContainedInv'
    <3>1. SUFFICES ASSUME Root \notin Harmed
                   PROVE  /\ forged' \subseteq Harmed /\ out' \ Spoilt \subseteq Readable
                          /\ {p \in Readable \ Spoilt : p < Top.end} \subseteq out' \cup Opened'
      BY <1>1, <2>1 DEF ContainedInv, Front
    <3>2. forged \subseteq Harmed /\ out \ Spoilt \subseteq Readable
      BY <1>2, <3>1 DEF ContainedInv
    <3>3. Owner = Top.at /\ OwnerIn(stack).end = Top.end /\ Top.at \in Harmed \cup Opaque
      BY <1>2, <1>7, <3>1, TopIs
    <3>4. {p \in Readable \ Spoilt : p < Top.end} \subseteq out \cup Opened
      BY <1>2, <3>1, <3>3, Cover
    <3>5. Inside(Top.at) \cup {Top.at} \subseteq Spoilt
      BY <3>3 DEF Spoilt
    <3> QED BY <2>1, <2>2, <3>2, <3>4, <3>5
  <2>6. DamageIsContained'
    BY <2>1 DEF DamageIsContained
  <2> QED BY <1>4, <2>2, <2>3, <2>4, <2>5, <2>6 DEF IInv
<1> QED BY <1>5, <1>6, <1>7

\* A value that is complete.
LEMMA CompleteStep ==
  ASSUME IInv, pc = "body", UNCHANGED file, NEW q \in 1..Past, NEW astray \in BOOLEAN,
         Complete(q, astray), Top.kind # "opaque",
         Root \notin Harmed /\ astray => Owner \in Harmed,
         ~astray => ~lost /\ q = pos + 1 /\ q = Top.end /\ pos \notin Readable
  PROVE  IInv'
<1>1. /\ doc' = doc /\ damaged' = damaged /\ Past' = Past
      /\ Harmed' = Harmed /\ Spoilt' = Spoilt /\ Readable' = Readable
  BY FileKeeps
<1>2. Typed /\ StackInv /\ CursorInv /\ ContainedInv /\ CleanInv /\ Running
  BY DEF IInv, Running
<1>3. Readable \subseteq 1..Len(doc) /\ Len(doc) \in Nat /\ pos \in Nat /\ Past = Len(doc) + 1
  BY <1>2, Files DEF Readable, Typed, Past
<1>4. \A p \in Readable : p # pos /\ p < pos + 1 => p < pos
  BY <1>3
<1>5. CASE Len(stack) = 1
  <2>1. /\ pc' = "done" /\ pos' = q /\ lost' = astray
        /\ guessed' = IF astray THEN guessed \cup {Root} ELSE guessed
        /\ stack' = stack /\ out' = out /\ forged' = forged /\ errors' = errors
    BY <1>5 DEF Complete, result
  <2>2. Top.real /\ Top.at = Root /\ Opened = {Root} /\ Owner = Root /\ Top.end = Past
    BY <1>2, <1>5, TopIs DEF Describes, End, Past
  <2>3. Typed' /\ StackInv'
    BY <1>1, <1>2, <2>1 DEF Typed, StackInv, Root
  <2>4. CursorInv' /\ CleanInv'
    BY <2>1 DEF CursorInv, CleanInv, Running
  <2>5. ContainedInv'
    BY <1>1, <1>2, <2>1 DEF ContainedInv, Running
  <2>6. \A p \in Readable : ~astray => p < pos /\ p \notin Opened
    BY <1>3, <1>4, <2>2 DEF Root
  <2>7. DamageIsContained'
    <3>1. SUFFICES ASSUME Root \notin Harmed
                   PROVE  out \ Spoilt = Readable \ Spoilt /\ forged \subseteq Harmed
      BY <1>1, <2>1 DEF DamageIsContained
    <3>2. ~astray /\ ~lost
      BY <2>2, <3>1
    <3>3. /\ forged \subseteq Harmed /\ out \ Spoilt \subseteq Readable
          /\ {p \in Readable \ Spoilt : p < pos} \subseteq out \cup Opened
      BY <1>2, <3>1, <3>2 DEF ContainedInv, Front
    <3> QED BY <2>6, <3>2, <3>3
  <2>8. NothingLostSilently'
    <3>1. SUFFICES ASSUME errors = 0, ~astray, guessed = {}
                   PROVE  out = Readable /\ forged = {}
      BY <1>1, <2>1 DEF NothingLostSilently
    <3>2. forged = {} /\ out = {p \in Readable : p < pos} \ Opened
      BY <1>2, <3>1 DEF CleanInv
    <3> QED BY <2>6, <3>1, <3>2
  <2> QED BY <2>3, <2>4, <2>5, <2>7, <2>8 DEF IInv
<1>6. CASE Len(stack) # 1 /\ q # Top.end
  <2>1. astray /\ Fail
    BY <1>6 DEF Complete, InTime
  <2>2. Root \notin Harmed /\ Top.real => Top.at \in Harmed \cup Opaque
    BY <1>2, <2>1, TopIs
  <2> QED BY <2>1, <2>2, FailStep
<1>7. CASE Len(stack) # 1 /\ q = Top.end /\ ~Top.real
  <2>1. /\ pos' = q /\ stack' = Below /\ lost' = astray /\ out' = out
        /\ guessed' = guessed /\ pc' = pc /\ forged' = forged /\ errors' = errors
    BY <1>7 DEF Complete, InTime
  <2>2. /\ stack' \in Seq(Frames) /\ stack' # <<>> /\ StackInv'
        /\ Opened' = Opened /\ OwnerIn(stack)' = OwnerIn(stack) /\ Owner' = Owner
    BY <1>2, <1>7, <2>1, Leaves
  <2>3. astray
    BY <1>2, <1>7 DEF CursorInv
  <2>4. lost' /\ lost' \in BOOLEAN /\ pc' = "body" /\ errors' \in Nat
    BY <1>2, <2>1, <2>3 DEF Typed
  <2> QED BY <2>1, <2>2, <2>3, <2>4, Strays
<1>8. CASE Len(stack) # 1 /\ q = Top.end /\ Top.real
  <2>1. /\ pos' = Top.end /\ stack' = Below /\ lost' = FALSE /\ out' = out \cup {Top.at}
        /\ guessed' = IF astray THEN guessed \cup {Top.at} ELSE guessed
        /\ pc' = pc /\ forged' = forged /\ errors' = errors
    BY <1>8 DEF Complete, InTime
  <2>2. /\ stack' \in Seq(Frames) /\ stack' # <<>> /\ StackInv'
        /\ Opened = Opened' \cup {Top.at} /\ Top.at \notin Opened'
        /\ Top'.real /\ Aligned(doc, Top', Top.end) /\ Top.end > Top'.at
        /\ Top.at \in Nat /\ Top.end \in Nat /\ Top.at < Top.end
        /\ Top.at \in Containers /\ Top.kind = doc[Top.at].k
        /\ Inside(Top.at) = (Top.at + 1)..(Top.end - 1)
    BY <1>2, <1>8, <2>1, Leaves
  <2>3. Top.at \in Readable
    BY <2>2 DEF Readable, Containers, ContainersOf, Container
  <2>4. Typed'
    BY <1>1, <1>2, <1>3, <1>8, <2>1, <2>2, <2>3 DEF Typed
  <2>5. CursorInv'
    BY <1>1, <2>1, <2>2 DEF CursorInv
  <2>6. ContainedInv'
    <3>1. SUFFICES ASSUME Root \notin Harmed
                   PROVE  /\ forged' \subseteq Harmed /\ out' \ Spoilt \subseteq Readable
                          /\ {p \in Readable \ Spoilt : p < Top.end} \subseteq out' \cup Opened'
      BY <1>1, <2>1 DEF ContainedInv, Front
    <3>2. forged \subseteq Harmed /\ out \ Spoilt \subseteq Readable
      BY <1>2, <3>1 DEF ContainedInv
    <3>3. {p \in Readable \ Spoilt : p < Top.end} \subseteq out \cup Opened
      <4>1. CASE astray
        <5>1. Owner \in Harmed /\ OwnerIn(stack).end = Top.end
          BY <1>2, <1>8, <3>1, <4>1, TopIs
        <5> QED BY <1>2, <3>1, <5>1, Cover
      <4>2. CASE ~astray
        <5>1. {p \in Readable \ Spoilt : p < pos} \subseteq out \cup Opened
          BY <1>2, <3>1, <4>2 DEF ContainedInv, Front
        <5> QED BY <1>4, <1>8, <4>2, <5>1
      <4> QED BY <4>1, <4>2
    <3> QED BY <2>1, <2>2, <2>3, <3>2, <3>3
  <2>7. CleanInv'
    <3>1. SUFFICES ASSUME errors = 0, ~astray, guessed = {}
                   PROVE  forged = {} /\ out' = {p \in Readable : p < Top.end} \ Opened'
      BY <1>1, <2>1 DEF CleanInv
    <3>2. forged = {} /\ out = {p \in Readable : p < pos} \ Opened
      BY <1>2, <3>1 DEF CleanInv
    <3>3. {p \in Readable : p < Top.end} = {p \in Readable : p < pos}
      <4>1. Top.end = pos + 1
        BY <1>8, <3>1
      <4>2. \A p \in Readable : p < Top.end <=> p < pos
        BY <1>3, <1>4, <3>1, <4>1
      <4> QED BY <4>2
    <3>4. Top.at < pos
      BY <1>3, <1>8, <2>2, <2>3, <3>1
    <3> QED BY <2>1, <2>2, <2>3, <3>2, <3>3, <3>4
  <2>8. DamageIsContained' /\ NothingLostSilently'
    BY <2>1 DEF DamageIsContained, NothingLostSilently
  <2> QED BY <2>2, <2>4, <2>5, <2>6, <2>7, <2>8 DEF IInv
<1> QED BY <1>5, <1>6, <1>7, <1>8

\* The innermost frame, changed.
LEMMA TopBecomes ==
  ASSUME Typed, NEW g \in Frames, stack' = [stack EXCEPT ![Len(stack)] = g]
  PROVE  /\ stack' \in Seq(Frames) /\ Len(stack') = Len(stack) /\ stack'[Len(stack)] = g
         /\ \A i \in 1..(Len(stack) - 1) : stack'[i] = stack[i]
<1>1. stack \in Seq(Frames) /\ Len(stack) \in Nat \ {0}
  BY DEF Typed
<1>2. /\ stack' \in Seq(Frames) /\ Len(stack') = Len(stack)
      /\ \A i \in 1..Len(stack) : stack'[i] = IF i = Len(stack) THEN g ELSE stack[i]
  BY <1>1, ExceptSeq
<1>3. Len(stack) \in 1..Len(stack)
      /\ \A i \in 1..(Len(stack) - 1) : i \in 1..Len(stack) /\ i # Len(stack)
  BY <1>1, Indices
<1> QED BY <1>2, <1>3

\* The innermost container goes on with g.
LEMMA GoOn ==
  ASSUME IInv, pc = "body", UNCHANGED file, NEW q \in 1..Past, NEW astray \in BOOLEAN,
         NEW g \in Frames, stack' = [stack EXCEPT ![Len(stack)] = g],
         g.at = Top.at, g.real = Top.real, g.end = Top.end, g.kind = Top.kind,
         pos' = q, lost' = astray, UNCHANGED <<pc, result, errors, guessed>>,
         Root \notin Harmed /\ astray => Owner \in Harmed,
         ~astray => /\ ~lost /\ q = pos + 1 /\ pos \in 1..Len(doc) /\ pos \notin Readable
                    /\ Aligned(doc, g, q)
  PROVE  IInv'
<1>1. Typed /\ StackInv /\ CursorInv /\ Running /\ errors \in Nat
  BY DEF IInv, Running, Typed
<1>2. /\ stack' \in Seq(Frames) /\ stack' # <<>> /\ StackInv' /\ Top' = g
      /\ Opened' = Opened /\ Owner' = Owner
      /\ OwnerIn(stack)'.end = OwnerIn(stack).end
  BY <1>1, TopBecomes, GoesOn
<1>3. /\ pc' = "body" /\ out' = out /\ forged' = forged /\ errors' = errors
      /\ guessed' = guessed /\ errors' \in Nat
  BY <1>1 DEF result
<1>4. CASE astray
  BY <1>2, <1>3, <1>4, Strays
<1>5. CASE ~astray
  <2>1. Top.real
    BY <1>1, <1>5, NotLost
  <2>2. out' = out \cup ({pos} \cap Readable)
    BY <1>3, <1>5
  <2> QED BY <1>2, <1>3, <1>5, <2>1, <2>2, Forward
<1> QED BY <1>4, <1>5

\* The end of an element.
LEMMA ItemStep ==
  ASSUME IInv, pc = "body", UNCHANGED file, NEW q \in 1..Past, NEW astray \in BOOLEAN,
         NextItem(q, astray), Top.kind # "opaque",
         Root \notin Harmed /\ astray => Owner \in Harmed,
         ~astray => ~lost /\ q = pos + 1 /\ doc[pos].k \in {"none", "value"}
  PROVE  IInv'
<1>1. Typed /\ StackInv /\ CursorInv /\ Running /\ Top \in Frames /\ doc \in Docs
  BY TopIs DEF IInv, Running, Typed
<1> DEFINE g == [Top EXCEPT !.left = @ - 1]
<1>2. ASSUME ~astray
      PROVE  /\ pos \in 1..Len(doc) /\ pos \notin Readable
             /\ Top.left = 1 => q = Top.end
             /\ Top.left # 1 => Aligned(doc, g, q)
  <2>1. Describes(doc, Top) /\ Aligned(doc, Top, pos)
    BY <1>1, <1>2, NotLost
  <2>2. pos \in 1..Len(doc)
    BY <1>1, <2>1, AlignedCell
  <2>3. pos \notin Readable
    BY <1>2 DEF Readable
  <2>4. /\ Top.left = 1 => pos + 1 = Top.end
        /\ Top.left # 1 => Aligned(doc, g, pos + 1)
    BY <1>1, <1>2, <2>1, AlignedItem
  <2> QED BY <1>2, <2>2, <2>3, <2>4
<1>3. CASE Top.left = 1
  <2>1. Complete(q, astray)
    BY <1>3 DEF NextItem
  <2> HIDE DEF g
  <2> QED BY <1>2, <1>3, <2>1, CompleteStep
<1>4. CASE Top.left # 1
  <2>1. /\ stack' = [stack EXCEPT ![Len(stack)] = g] /\ pos' = q /\ lost' = astray
        /\ UNCHANGED <<pc, result, errors, guessed>>
    BY <1>4 DEF NextItem, Top
  <2>2. /\ g \in Frames /\ g.at = Top.at /\ g.real = Top.real /\ g.end = Top.end
        /\ g.kind = Top.kind
    BY <1>1, <1>4 DEF Frames
  <2> HIDE DEF g
  <2> QED BY <1>2, <1>4, <2>1, <2>2, GoOn
<1> QED BY <1>3, <1>4

\* A count.
LEMMA CountStep ==
  ASSUME IInv, pc = "body", UNCHANGED file, NEW q \in 1..Past, NEW astray \in BOOLEAN,
         NEW n \in Nat, Count(n, q, astray), Top.kind # "opaque",
         Root \notin Harmed /\ astray => Owner \in Harmed,
         ~astray => ~lost /\ q = pos + 1 /\ doc[pos].k = "count" /\ n = doc[pos].n
  PROVE  IInv'
<1>1. Typed /\ StackInv /\ CursorInv /\ Running /\ Top \in Frames /\ doc \in Docs
  BY TopIs DEF IInv, Running, Typed
<1> DEFINE g == [Top EXCEPT !.left = n, !.next = "item"]
<1>2. ASSUME ~astray
      PROVE  /\ pos \in 1..Len(doc) /\ pos \notin Readable
             /\ n = 0 => q = Top.end
             /\ n # 0 => Aligned(doc, g, q)
  <2>1. Describes(doc, Top) /\ Aligned(doc, Top, pos)
    BY <1>1, <1>2, NotLost
  <2>2. pos \in 1..Len(doc)
    BY <1>1, <2>1, AlignedCell
  <2>3. pos \notin Readable
    BY <1>2 DEF Readable
  <2>4. /\ n = 0 => pos + 1 = Top.end
        /\ n # 0 => Aligned(doc, g, pos + 1)
    BY <1>1, <1>2, <2>1, AlignedCount
  <2> QED BY <1>2, <2>2, <2>3, <2>4
<1>3. CASE n = 0
  <2>1. Complete(q, astray)
    BY <1>3 DEF Count
  <2> HIDE DEF g
  <2> QED BY <1>2, <1>3, <2>1, CompleteStep
<1>4. CASE n # 0
  <2>1. /\ stack' = [stack EXCEPT ![Len(stack)] = g] /\ pos' = q /\ lost' = astray
        /\ UNCHANGED <<pc, result, errors, guessed>>
    <3>1. stack \in Seq(Frames) /\ Len(stack) \in DOMAIN stack
      BY <1>1 DEF Typed
    <3> QED BY <1>4, <3>1 DEF Count, Top
  <2>2. /\ g \in Frames /\ g.at = Top.at /\ g.real = Top.real /\ g.end = Top.end
        /\ g.kind = Top.kind
    BY <1>1, <1>4 DEF Frames
  <2> HIDE DEF g
  <2> QED BY <1>2, <1>4, <2>1, <2>2, GoOn
<1> QED BY <1>3, <1>4

\* What is known when a cell is read as what it is.
LEMMA GoodCell ==
  ASSUME IInv, NEW K, Here(K)
  PROVE  /\ pc = "body" /\ ~lost /\ doc[pos].k \in K /\ Top.kind # "opaque"
         /\ pos \in 1..Len(doc) /\ pos \in Nat /\ pos + 1 \in 1..Past /\ pos < Top.end
         /\ Top.real /\ Top \in Frames /\ Describes(doc, Top) /\ Aligned(doc, Top, pos)
         /\ pos > Top.at /\ Owner = Top.at /\ Top.at \in Places(doc)
         /\ pos \in Directly(doc, Top.at) /\ doc \in Docs /\ Top.end \in 1..Past
         /\ Typed /\ StackInv
<1>1. pc = "body" /\ ~lost /\ doc[pos].k \in K /\ Top.kind # "opaque"
  BY DEF Here, Good, Wanted
<1>2. Typed /\ StackInv /\ CursorInv /\ Running /\ doc \in Docs
  BY <1>1 DEF IInv, Running, Typed
<1>3. /\ Top.real /\ Describes(doc, Top) /\ Aligned(doc, Top, pos) /\ pos > Top.at
      /\ Top \in Frames /\ Owner = Top.at /\ Top.end \in 1..Past
  BY <1>1, <1>2, NotLost, TopIs
<1>4. pos \in Directly(doc, Top.at) /\ pos \in 1..Len(doc) /\ pos \in Nat /\ pos < Top.end
  BY <1>1, <1>2, <1>3, AlignedCell
<1>5. pos + 1 \in 1..Past
  BY <1>2, <1>4, Files DEF Past
<1>6. Top.at \in Places(doc)
  BY <1>3 DEF Describes
<1> QED BY <1>1, <1>2, <1>3, <1>4, <1>5, <1>6

\* A property that takes one cell.
LEMMA LeafStep ==
  ASSUME IInv, NEW K \in SUBSET Leaf, Here(K), UNCHANGED <<file, pc, lost, stack>>,
         pos' = pos + 1, out' = out \cup ({pos} \cap Readable), forged' = forged,
         errors' \in Nat, errors' = errors \/ errors' # 0, guessed' = guessed
  PROVE  IInv'
<1>1. /\ pc = "body" /\ ~lost /\ doc[pos].k \in Leaf /\ Top.kind # "opaque"
      /\ pos \in 1..Len(doc) /\ Top.real /\ Top \in Frames /\ Describes(doc, Top)
      /\ Aligned(doc, Top, pos) /\ doc \in Docs /\ Typed /\ StackInv
  BY GoodCell
<1>2. Aligned(doc, Top, pos + 1)
  BY <1>1, AlignedLeaf
<1>3. UNCHANGED file /\ pc' = "body" /\ lost' = FALSE /\ stack' = stack /\ doc' = doc
  BY <1>1, FileKeeps DEF Typed
<1>4. /\ stack' \in Seq(Frames) /\ stack' # <<>> /\ StackInv' /\ Opened' = Opened
      /\ Top' = Top
  BY <1>1, <1>3 DEF Typed, StackInv, Opened, Top
<1>5. Aligned(doc, Top', pos + 1)
  BY <1>2, <1>4
<1> QED BY <1>1, <1>3, <1>4, <1>5, Forward

\* A property of an unknown type.  What fails behind it is damaged.
LEMMA AlienStep ==
  ASSUME IInv, ReadAlien
  PROVE  IInv'
<1>1. Here({"alien"}) /\ UNCHANGED file
  BY DEF ReadAlien
<1>2. /\ pc = "body" /\ ~lost /\ doc[pos].k \in {"alien"} /\ Top.kind # "opaque"
      /\ pos \in 1..Len(doc) /\ Top.real /\ Top \in Frames /\ Describes(doc, Top)
      /\ Aligned(doc, Top, pos) /\ doc \in Docs /\ Typed /\ Top.at \in Places(doc)
  BY <1>1, GoodCell
<1>3. CASE pos' = pos + 1 /\ errors' = Recorded /\ UNCHANGED <<pc, lost, stack, result, guessed>>
  <2>1. pos \notin Readable
    BY <1>2 DEF Readable
  <2>2. out' = out \cup ({pos} \cap Readable) /\ forged' = forged
    BY <1>3, <2>1 DEF result
  <2>3. errors' \in Nat \ {0}
    BY <1>2, <1>3, Lines
  <2>4. {"alien"} \in SUBSET Leaf
    BY DEF Leaf
  <2> QED BY <1>1, <1>3, <2>2, <2>3, <2>4, LeafStep
<1>4. CASE pos + 1 \in damaged /\ Fail
  <2>1. Aligned(doc, Top, pos + 1)
    BY <1>2, AlignedLeaf DEF Leaf
  <2>2. pos + 1 \in Directly(doc, Top.at)
    BY <1>2, <2>1 DEF Aligned
  <2>3. Top.at \in Harmed
    BY <1>2, <1>4, <2>2, Harms
  <2> QED BY <1>1, <1>2, <1>4, <2>3, FailStep
<1> QED BY <1>3, <1>4 DEF ReadAlien

\* A property that does not follow the convention.
LEMMA OddStep ==
  ASSUME IInv, ReadOdd
  PROVE  IInv'
<1>1. Here({"odd"}) /\ UNCHANGED file
  BY DEF ReadOdd
<1>2. /\ pc = "body" /\ ~lost /\ doc[pos].k \in {"odd"} /\ Top.kind # "opaque"
      /\ pos \in 1..Len(doc) /\ Top.real /\ Owner = Top.at /\ Top.at \in Places(doc)
      /\ pos \in Directly(doc, Top.at) /\ doc \in Docs /\ Typed /\ StackInv
  BY <1>1, GoodCell
<1>3. Top.at \in Harmed
  BY <1>2, Harms
<1>4. CASE Fail
  BY <1>1, <1>2, <1>3, <1>4, FailStep
<1>5. CASE /\ pos' \in (pos + 1)..Past /\ lost' = TRUE /\ errors' = Recorded
           /\ UNCHANGED <<pc, stack, result, guessed>>
  <2>1. doc' = doc
    BY <1>1, FileKeeps
  <2>2. /\ stack' = stack /\ out' = out /\ forged' = forged /\ pc' = "body"
        /\ guessed' = guessed /\ lost' /\ lost' \in BOOLEAN
    BY <1>2, <1>5 DEF result
  <2>3. pos' \in 1..Past
    BY <1>2, <1>5, Files DEF Past
  <2>4. errors' \in Nat
    BY <1>2, <1>5, Lines
  <2>5. /\ stack' \in Seq(Frames) /\ stack' # <<>> /\ StackInv' /\ Opened' = Opened
        /\ Owner' = Owner /\ OwnerIn(stack)'.end = OwnerIn(stack).end
    BY <1>2, <2>1, <2>2 DEF Typed, StackInv, Opened, Owner
  <2> QED BY <1>1, <1>2, <1>3, <2>2, <2>3, <2>4, <2>5, Strays
<1> QED BY <1>1, <1>4, <1>5 DEF ReadOdd

\* The header of a container.
LEMMA ContainerStep ==
  ASSUME IInv, ReadContainer
  PROVE  IInv'
<1>1. Here(Container) /\ UNCHANGED file
  BY DEF ReadContainer
<1>2. /\ pc = "body" /\ ~lost /\ doc[pos].k \in Container /\ Top.kind # "opaque"
      /\ pos \in 1..Len(doc) /\ pos \in Nat /\ pos + 1 \in 1..Past
      /\ Top.real /\ Top \in Frames /\ Describes(doc, Top) /\ Aligned(doc, Top, pos)
      /\ pos > Top.at /\ pos \in Directly(doc, Top.at) /\ doc \in Docs /\ Top.end \in 1..Past
      /\ Typed /\ StackInv
  BY <1>1, GoodCell
<1>3. /\ pos \in Containers /\ Aligned(doc, Top, End(doc, pos)) /\ End(doc, pos) < Top.end
  BY <1>2, AlignedContainer
<1>4. /\ End(doc, pos) \in Nat /\ End(doc, pos) = pos + 1 + doc[pos].n /\ pos < End(doc, pos)
      /\ Past = Len(doc) + 1 /\ Len(doc) \in Nat
  BY <1>2, <1>3, Ranges, Files DEF Places, Containers, End, Root, Past
<1>5. End(doc, pos) \in 1..Past
  BY <1>2, <1>3, <1>4
<1> DEFINE f == Frame(pos, TRUE, End(doc, pos), doc[pos].k)
<1>6. f \in Frames /\ Describes(doc, f) /\ Aligned(doc, f, pos + 1)
  BY <1>2, <1>3, AlignedFirst
<1>7. f.at = pos /\ f.real = TRUE /\ f.end = End(doc, pos)
  BY DEF Frame
<1>8. Enter(f, pos + 1, FALSE)
  <2>1. ~(pos + 1 + doc[pos].n > Past)
    BY <1>4, <1>5
  <2> QED BY <1>4, <2>1 DEF ReadContainer
<1>9. /\ stack' = Append(stack, f) /\ pos' = pos + 1 /\ lost' = FALSE
      /\ pc' = "body" /\ out' = out /\ forged' = forged /\ errors' = errors
      /\ guessed' = guessed
  <2> HIDE DEF f
  <2> QED BY <1>2, <1>8 DEF Enter, result
<1> HIDE DEF f
<1>10. /\ stack' \in Seq(Frames) /\ stack' # <<>> /\ StackInv' /\ Top' = f
       /\ Opened' = Opened \cup {pos}
  <2>1. Top.at < pos
    BY <1>2 DEF Frames
  <2> QED BY <1>1, <1>2, <1>3, <1>5, <1>6, <1>7, <1>9, <2>1, Enters
<1>11. /\ doc' = doc /\ damaged' = damaged /\ Past' = Past
       /\ Harmed' = Harmed /\ Spoilt' = Spoilt /\ Readable' = Readable
  BY <1>1, FileKeeps
<1>12. Typed'
  BY <1>2, <1>9, <1>10, <1>11 DEF Typed
<1>13. CursorInv'
  BY <1>2, <1>6, <1>7, <1>9, <1>10, <1>11 DEF CursorInv
<1>14. \A p \in Readable : p < pos + 1 <=> p < pos \/ p = pos
  BY <1>2, <1>4 DEF Readable
<1>15. ContainedInv'
  <2>1. SUFFICES ASSUME Root \notin Harmed
                 PROVE  /\ forged \subseteq Harmed /\ out \ Spoilt \subseteq Readable
                        /\ {p \in Readable \ Spoilt : p < pos + 1} \subseteq out \cup Opened'
    BY <1>9, <1>11 DEF ContainedInv, Front
  <2>2. /\ forged \subseteq Harmed /\ out \ Spoilt \subseteq Readable
        /\ {p \in Readable \ Spoilt : p < pos} \subseteq out \cup Opened
    BY <1>2, <2>1 DEF IInv, ContainedInv, Running, Front
  <2> QED BY <1>10, <1>14, <2>2
<1>16. CleanInv'
  <2>1. SUFFICES ASSUME errors = 0, guessed = {}
                 PROVE  forged = {} /\ out = {p \in Readable : p < pos + 1} \ Opened'
    BY <1>9, <1>11 DEF CleanInv
  <2>2. forged = {} /\ out = {p \in Readable : p < pos} \ Opened
    BY <1>2, <2>1 DEF IInv, CleanInv, Running
  <2>3. ~(pos < pos)
    BY <1>2
  <2> QED BY <1>10, <1>14, <2>2, <2>3
<1>17. DamageIsContained' /\ NothingLostSilently'
  BY <1>9 DEF DamageIsContained, NothingLostSilently
<1> QED BY <1>10, <1>12, <1>13, <1>15, <1>16, <1>17 DEF IInv

\* What is not what was written makes sense by accident.
LEMMA MisreadStep ==
  ASSUME IInv, Misread
  PROVE  IInv'
<1>1. pc = "body" /\ ~Good /\ pos < Past /\ Top.kind # "opaque" /\ UNCHANGED file
  BY DEF Misread
<1>2. Typed /\ StackInv /\ CursorInv /\ ContainedInv /\ Running
  BY <1>1 DEF IInv, Running
<1>3. Root \notin Harmed => Owner \in Harmed
  BY <1>1, <1>2, NotGood
<1>4. pos \in Nat /\ Past \in Nat /\ doc \in Docs
  BY <1>2, Files DEF Typed, Past
<1>5. PICK q \in (pos + 1)..Past :
        IF Top.next = "count" THEN \E n \in 0..(Past - q) : Count(n, q, TRUE)
        ELSE IF Top.kind = "values" THEN NextItem(q, TRUE)
        ELSE \/ NextItem(q, TRUE)
             \/ \E end \in q..Past : Enter(Frame(Root, FALSE, end, "struct"), q, TRUE)
             \/ /\ pos' = q /\ lost' = TRUE
                /\ \/ forged' = forged \cup {Owner} /\ UNCHANGED errors
                   \/ errors' = Recorded /\ UNCHANGED forged
                /\ UNCHANGED <<pc, stack, out, guessed>>
  BY DEF Misread
<1>6. q \in 1..Past
  BY <1>4, <1>5
<1>7. CASE NextItem(q, TRUE)
  BY <1>1, <1>3, <1>6, <1>7, ItemStep
<1>8. CASE \E n \in 0..(Past - q) : Count(n, q, TRUE)
  <2>1. PICK n \in 0..(Past - q) : Count(n, q, TRUE)
    BY <1>8
  <2>2. n \in Nat
    OBVIOUS
  <2> QED BY <1>1, <1>3, <1>6, <2>1, <2>2, CountStep
<1>9. CASE \E end \in q..Past : Enter(Frame(Root, FALSE, end, "struct"), q, TRUE)
  <2>1. PICK end \in q..Past : Enter(Frame(Root, FALSE, end, "struct"), q, TRUE)
    BY <1>9
  <2> DEFINE f == Frame(Root, FALSE, end, "struct")
  <2>2. end \in Nat /\ end \in 1..Past
    BY <1>4, <1>6
  <2>3. f \in Frames /\ f.real = FALSE /\ f.end = end
    BY <2>2 DEF Frame, Frames, Container, Root
  <2> HIDE DEF f
  <2>4. /\ stack' = Append(stack, f) /\ pos' = q /\ lost' = TRUE /\ pc' = pc
        /\ out' = out /\ forged' = forged /\ errors' = errors /\ guessed' = guessed
    BY <2>1 DEF f, Enter, result
  <2>5. /\ stack' \in Seq(Frames) /\ stack' # <<>> /\ StackInv'
        /\ Opened' = Opened /\ OwnerIn(stack)' = OwnerIn(stack) /\ Owner' = Owner
    BY <1>1, <1>2, <2>2, <2>3, <2>4, Enters
  <2>6. errors' \in Nat
    BY <1>2, <2>4 DEF Typed
  <2> QED BY <1>1, <1>3, <1>6, <2>4, <2>5, <2>6, Strays
<1>10. CASE /\ pos' = q /\ lost' = TRUE
            /\ \/ forged' = forged \cup {Owner} /\ UNCHANGED errors
               \/ errors' = Recorded /\ UNCHANGED forged
            /\ UNCHANGED <<pc, stack, out, guessed>>
  <2>1. doc' = doc
    BY <1>1, FileKeeps
  <2>2. errors' \in Nat
    BY <1>2, <1>10, Lines DEF Typed
  <2>3. /\ stack' \in Seq(Frames) /\ stack' # <<>> /\ StackInv' /\ Opened' = Opened
        /\ Owner' = Owner /\ OwnerIn(stack)'.end = OwnerIn(stack).end
    BY <1>2, <1>10, <2>1 DEF Typed, StackInv, Opened, Owner
  <2>4. forged' \subseteq forged \cup {Owner} /\ pc' = "body" /\ out' = out /\ guessed' = guessed
    BY <1>1, <1>10
  <2> QED BY <1>1, <1>3, <1>6, <1>10, <2>2, <2>3, <2>4, Strays
<1> QED BY <1>5, <1>7, <1>8, <1>9, <1>10

\* A step that only says how far the reader is.
LEMMA SameBody ==
  ASSUME IInv, UNCHANGED <<file, pos, lost, stack, result, errors, guessed>>,
         pc' \in {"open", "header", "body", "done", "corrupt", "unavailable"},
         pc' = pc \/ (Running /\ pc' # "done")
  PROVE  IInv'
<1>1. /\ doc' = doc /\ damaged' = damaged /\ Past' = Past
      /\ Harmed' = Harmed /\ Spoilt' = Spoilt /\ Readable' = Readable
  BY FileKeeps
<1>2. /\ pos' = pos /\ lost' = lost /\ stack' = stack /\ out' = out /\ forged' = forged
      /\ errors' = errors /\ guessed' = guessed
  BY DEF result
<1>3. Top' = Top /\ Owner' = Owner /\ Opened' = Opened /\ Front' = Front
  BY <1>2 DEF Top, Owner, Opened, Front
<1>4. Running' => Running
  BY DEF Running
<1>5. Typed' /\ StackInv' /\ CursorInv'
  BY <1>1, <1>2, <1>3, <1>4 DEF IInv, Typed, StackInv, CursorInv
<1>6. ContainedInv' /\ CleanInv'
  BY <1>1, <1>2, <1>3, <1>4 DEF IInv, ContainedInv, CleanInv
<1>7. DamageIsContained' /\ NothingLostSilently'
  BY <1>1, <1>2 DEF IInv, DamageIsContained, NothingLostSilently
<1> QED BY <1>5, <1>6, <1>7 DEF IInv

\* At the start, the cursor is at the first cell of the root.
LEMMA InitInv ==
  ASSUME Init
  PROVE  IInv
<1>1. /\ doc \in Docs /\ damaged \in SUBSET (1..Len(doc)) /\ pc = "open" /\ pos = 1
      /\ lost = FALSE /\ stack = <<Frame(Root, TRUE, Past, "struct")>>
      /\ out = {} /\ forged = {} /\ errors = 0 /\ guessed = {}
  BY DEF Init
<1> DEFINE f == Frame(Root, TRUE, Past, "struct")
<1>2. Len(doc) \in Nat \ {0} /\ Past = Len(doc) + 1 /\ Past \in Nat
  BY <1>1, Files DEF Past
<1>3. /\ f \in Frames /\ f.at = Root /\ f.real /\ f.end = Past /\ f.kind = "struct"
      /\ f.next = "item" /\ f.left = 1
  BY <1>2 DEF Frame, Frames, Container, Root
<1> HIDE DEF f
<1>4. stack = <<f>>
  BY <1>1 DEF f
<1>5. stack \in Seq(Frames) /\ stack # <<>> /\ Len(stack) = 1 /\ stack[1] = f /\ Top = f
      /\ DOMAIN stack = {1}
  BY <1>3, <1>4 DEF Top
<1>6. Typed
  <2>1. pos \in 1..Past /\ errors \in Nat
    <3>1. 1 \in 1..Past
      BY <1>2
    <3> QED BY <1>1, <3>1
  <2>3. lost \in BOOLEAN
    BY <1>1
  <2>2. out \in SUBSET (1..Len(doc)) /\ forged \in SUBSET Nat /\ guessed \in SUBSET Nat
    BY <1>1
  <2> QED BY <1>1, <1>5, <2>1, <2>2, <2>3 DEF Typed
<1>7. Describes(doc, f)
  BY <1>2, <1>3 DEF Describes, Places, End
<1>8. StackInv
  <2>1. \A i \in 2..Len(stack) : FALSE
    BY <1>5
  <2>2. \E r \in DOMAIN stack : \A i \in DOMAIN stack : stack[i].real <=> i <= r
    BY <1>3, <1>5
  <2> QED BY <1>2, <1>3, <1>5, <1>7, <2>1, <2>2 DEF StackInv, Nested
<1>9. Aligned(doc, f, 1)
  <2>1. Root + 1 < End(doc, Root) /\ Root \in Places(doc) /\ Root + 1 = 1
    BY <1>2 DEF End, Root, Places
  <2>2. 1 \in Directly(doc, Root)
    BY <1>1, <2>1, FirstIn
  <2> QED BY <1>3, <2>2 DEF Aligned
<1>10. CursorInv
  BY <1>1, <1>3, <1>5, <1>9 DEF CursorInv, Root
<1>11. \A p \in Readable : ~(p < 1)
  BY <1>2 DEF Readable
<1>12. ContainedInv /\ CleanInv
  BY <1>1, <1>11 DEF ContainedInv, CleanInv, Front
<1>13. DamageIsContained /\ NothingLostSilently
  BY <1>1 DEF DamageIsContained, NothingLostSilently
<1> QED BY <1>6, <1>8, <1>10, <1>12, <1>13 DEF IInv

\* Every step keeps the invariant.
LEMMA NextInv ==
  ASSUME IInv, [Next]_vars
  PROVE  IInv'
<1>1. CASE Open
  BY <1>1, SameBody DEF Open, Running
<1>2. CASE Header
  BY <1>2, SameBody DEF Header, Running
<1>3. CASE ReadScalar
  <2>1. Here({"scalar"}) /\ {"scalar"} \in SUBSET Leaf
    BY <1>3 DEF ReadScalar, Leaf
  <2>2. pos \in Readable
    BY <2>1, GoodCell DEF Readable
  <2>3. /\ UNCHANGED <<file, pc, lost, stack>> /\ pos' = pos + 1
        /\ out' = out \cup ({pos} \cap Readable) /\ forged' = forged
        /\ errors' \in Nat /\ errors' = errors /\ guessed' = guessed
    BY <1>3, <2>2 DEF ReadScalar, IInv, Typed
  <2> QED BY <2>1, <2>3, LeafStep
<1>4. CASE ReadAlien
  BY <1>4, AlienStep
<1>5. CASE ReadOdd
  BY <1>5, OddStep
<1>6. CASE ReadNone \/ ReadValue
  <2>1. Here({"none", "value"}) /\ NextItem(pos + 1, FALSE) /\ UNCHANGED file
    BY <1>6 DEF ReadNone, ReadValue, Here
  <2>2. /\ pc = "body" /\ ~lost /\ doc[pos].k \in {"none", "value"} /\ Top.kind # "opaque"
        /\ pos + 1 \in 1..Past
    BY <2>1, GoodCell
  <2> QED BY <2>1, <2>2, ItemStep
<1>7. CASE ReadCount
  <2>1. Here({"count"}) /\ Count(doc[pos].n, pos + 1, FALSE) /\ UNCHANGED file
    BY <1>7 DEF ReadCount
  <2>2. /\ pc = "body" /\ ~lost /\ doc[pos].k = "count" /\ Top.kind # "opaque"
        /\ pos + 1 \in 1..Past /\ doc \in Docs /\ pos \in 1..Len(doc)
    BY <2>1, GoodCell
  <2>3. doc[pos].n \in Nat
    BY <2>2, Files
  <2> QED BY <2>1, <2>2, <2>3, CountStep
<1>8. CASE ReadContainer
  BY <1>8, ContainerStep
<1>9. CASE Fails
  <2>1. pc = "body" /\ ~Good /\ Fail /\ UNCHANGED file
    BY <1>9 DEF Fails
  <2>2. Root \notin Harmed /\ Top.real => Top.at \in Harmed \cup Opaque
    BY <2>1, NotGood DEF IInv
  <2> QED BY <2>1, <2>2, FailStep
<1>10. CASE Misread
  BY <1>10, MisreadStep
<1>11. CASE UNCHANGED vars
  BY <1>11, SameBody DEF vars, IInv, Typed
<1> QED BY <1>1, <1>2, <1>3, <1>4, <1>5, <1>6, <1>7, <1>8, <1>9, <1>10, <1>11 DEF Next

-----------------------------------------------------------------------------
(* The theorems.                                                           *)

\* The invariant holds of every reader of every well-formed file.
THEOREM Invariance == Spec => []IInv
<1>1. Init => IInv
  BY InitInv
<1>2. IInv /\ [Next]_vars => IInv'
  BY NextInv
<1> QED BY <1>1, <1>2, PTL DEF Spec

\* Whatever damage and unknown properties make the reader do (_parse_properties
\* and _reseek in palwarden_gvas), only the containers that they are directly in
\* suffer: all else is in the result, and nothing that is not in the file.
THEOREM DamageStaysContained == Spec => []DamageIsContained
<1>1. IInv => DamageIsContained
  BY DEF IInv
<1> QED BY <1>1, Invariance, PTL

\* A file that parse_gvas reports to be fine has been read completely, unless a
\* misread value ended by accident where it should have.
THEOREM NothingIsLostSilently == Spec => []NothingLostSilently
<1>1. IInv => NothingLostSilently
  BY DEF IInv
<1> QED BY <1>1, Invariance, PTL
=============================================================================
