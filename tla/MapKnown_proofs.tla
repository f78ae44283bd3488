--------------------------- MODULE MapKnown_proofs ----------------------------
(* What the coroutines of the map know of their own objects in the backend,  *)
(* for any number of them, of objects, edits and faults: none touches what   *)
(* another one is about.  It holds until an edit is missing from the stack, or *)
(* an undo must fail because what it has to change is gone.                  *)
EXTENDS MapCache_proofs

-------------------------------------------------------------------------------
(* What a coroutine is, and what it knows of its own objects in the backend.  *)

\* The requests of an undo.
UndoReqs(e) == Requests(UndoStages(e))

\* The places a coroutine brings with it; an undo brings none that is new.
Brings(rec) ==
  IF rec.kind = "undo" THEN {}
  ELSE (Spots(Load(rec)) \cup Spots(Range(rec.got))) \ Spots(Range(rec.entry.objs))

\* An object of others is at no place the coroutine brings, and no line of those it deletes.
Safe(x, rec, sv) ==
  /\ Range(x.ends) \cap Brings(rec) = {}
  /\ IsLine(x) => Range(x.ends) \cap Doors(rec, sv) = {}

\* An entry that can be undone.
EntryOK(e) ==
  /\ e.undo \in {"patch", "restore", "drop", "split"} /\ DOMAIN e.objs \subseteq e.ids /\ e.ids # {}
  /\ e.undo \in {"patch", "restore"} => e.ids = DOMAIN e.objs
  /\ e.undo = "drop" => e.objs = None
  /\ e.undo = "split" => \E p, s \in e.ids : e.ids \ DOMAIN e.objs = {p, s}

\* A coroutine of one request: it is under way, has been carried out, or has failed.
Single(rec) ==
  /\ rec.stages = <<>>
  /\ \/ rec.err = "none" /\ ~rec.applied /\ \E q : rec.sent = {q}
     \/ rec.sent = {} /\ (rec.applied <=> rec.err = "none")

\* A split: a point is made, the line cut, its second half made.
Cutting(rec, u) == u.do = "update" /\ u.ids = rec.entry.ids
Making(c) == c.do = "create" /\ Len(c.objs) = 1
Awaits(rec, sent, stages) ==
  IF rec.err = "none" THEN rec.sent = sent /\ rec.stages = stages ELSE rec.sent = {}

Uncut(rec) ==
  /\ DOMAIN rec.got = {} /\ ~rec.applied
  /\ \E c, u, d :
       /\ Making(c) /\ ~IsLine(c.objs[1]) /\ Cutting(rec, u) /\ Making(d)
       /\ Awaits(rec, {c}, <<{u}, {d}>>)
Pointed(rec) ==
  \E p :
    /\ p \notin rec.entry.ids /\ DOMAIN rec.got = {p} /\ ~IsLine(rec.got[p]) /\ rec.applied
    /\ \E u, d : Cutting(rec, u) /\ Making(d) /\ Awaits(rec, {u}, <<{d}>>)
Cut(rec) ==
  \E p :
    /\ p \notin rec.entry.ids /\ DOMAIN rec.got = {p} \cup rec.entry.ids /\ rec.applied
    /\ \E d : Making(d) /\ Awaits(rec, {d}, <<>>)
InTwo(rec) ==
  \E p, s :
    /\ p \notin rec.entry.ids /\ s \notin rec.entry.ids
    /\ DOMAIN rec.got = {p, s} \cup rec.entry.ids /\ rec.applied
    /\ Awaits(rec, {}, <<>>)

Changing == {"move", "group", "detail", "place", "split", "paste"}

\* What kind of edit it is.
Formed(rec) ==
  /\ rec.kind \in {"move", "group", "detail"} => rec.entry.undo = "patch"
     /\ DOMAIN rec.got \subseteq rec.entry.ids /\ rec.entry.ids # {}
  /\ rec.kind \in {"detail", "place", "paste"} => Single(rec)
  /\ rec.kind \in {"place", "paste"} => rec.entry = NoEntry /\ (rec.applied => DOMAIN rec.got # {})
  /\ rec.kind = "split" =>
       /\ rec.entry.undo = "split" /\ \E i : rec.entry.ids = {i}
       /\ Uncut(rec) \/ Pointed(rec) \/ Cut(rec) \/ InTwo(rec)

\* What it changes it has recorded, and what it was not answered with it did not change.
Changer(rec, sv) ==
  LET ids == rec.entry.ids  objs == rec.entry.objs  got == rec.got IN
  /\ ids = DOMAIN objs /\ ids \subseteq DOMAIN sv
  /\ \A i \in DOMAIN got : i \in DOMAIN sv /\ got[i] = sv[i]
  /\ \A i \in ids \ DOMAIN got : Upserted(sv[i], objs[i]) = sv[i]
  /\ ~rec.applied => DOMAIN got = {}
  /\ \A i \in DOMAIN got \ ids : ~IsLine(got[i]) => got[i].ends[1] \notin Spots(Range(objs))
  /\ \A q \in Todo(rec) :
       \/ /\ q.do = "update"
          /\ \E i \in ids : q.ids = {i} /\ DOMAIN q.objs[1] \subseteq DOMAIN objs[i]
       \/ /\ q.do = "create" /\ rec.kind \in {"place", "split", "paste"} /\ q.objs # <<>>
          /\ \A x \in Range(q.objs) : ~IsLine(x) => x.ends[1] \notin Spots(Range(objs))
  /\ Formed(rec)

\* It deletes what it has recorded, all of it or nothing.
Deleter(rec, sv) ==
  LET ids == rec.entry.ids  objs == rec.entry.objs IN
  /\ ids = DOMAIN objs /\ ids # {} /\ rec.entry.undo = "restore" /\ DOMAIN rec.got = {} /\ Single(rec)
  /\ ~rec.applied => \A i \in ids : i \in DOMAIN sv /\ sv[i] = objs[i]
  /\ rec.applied => ids \cap DOMAIN sv = {}
  /\ \A q \in Todo(rec) : q.do = "delete" /\ q.ids \subseteq ids /\ Expand(sv, q.ids) = ids

\* A split that failed has changed nothing but made the point.
Unsplitter(rec, sv) ==
  LET ids == rec.entry.ids  objs == rec.entry.objs IN
  /\ ids = DOMAIN objs /\ ids \subseteq DOMAIN sv
  /\ \A i \in ids : Upserted(sv[i], objs[i]) = sv[i]
  /\ \E p :
       /\ DOMAIN rec.got = {p} /\ p \notin ids /\ ~IsLine(rec.got[p])
       /\ rec.got[p].ends[1] \notin Spots(Range(objs))
       /\ Todo(rec) \subseteq {Delete({p})} /\ rec.stages = <<>>
       /\ Todo(rec) # {} => p \in DOMAIN sv /\ sv[p] = rec.got[p]
       /\ Todo(rec) = {} /\ rec.err = "none" => p \notin DOMAIN sv

\* An undo: what is not as it was before the edit is still to be made so.
Undoer(rec, sv) ==
  LET e == rec.entry  ids == e.ids  objs == e.objs IN
  /\ EntryOK(e) /\ UndoReqs(e) # {} /\ Todo(rec) \subseteq UndoReqs(e)
  /\ ~rec.applied => DOMAIN rec.got = {} /\ (rec.err = "none" => Todo(rec) = UndoReqs(e))
  /\ e.undo = "restore" =>
       /\ ids \cap DOMAIN sv = {} /\ DOMAIN rec.got \subseteq DOMAIN sv
       /\ rec.stages = <<>> \/ \E T : rec.stages = <<T>> /\ rec.sent \cap T = {}
  /\ e.undo # "restore" =>
       /\ DOMAIN rec.got \subseteq ids
       /\ rec.applied =>
            /\ \A i \in DOMAIN objs : /\ i \in DOMAIN sv
                                      /\ \/ Update(i, objs[i]) \in Todo(rec)
                                         \/ Upserted(sv[i], objs[i]) = sv[i]
            /\ \A i \in ids \ DOMAIN objs : i \in DOMAIN sv => Delete({i}) \in Todo(rec)

Knows(rec, sv) ==
  /\ rec.kind \in Kinds /\ rec.err \in {"none", "failed", "refetch"}
  /\ rec.err = "refetch" => rec.kind = "undo" /\ rec.applied /\ Todo(rec) = {}
  /\ Targets(rec) \subseteq Mine(rec) /\ DOMAIN rec.entry.objs \subseteq rec.entry.ids
  /\ \A x \in Load(rec) : IsLine(x) =>
       Range(x.ends) \cap Spots(Range(rec.entry.objs)) \subseteq Spots({y \in Range(rec.entry.objs) : IsLine(y)})
  /\ rec.kind = "free" => rec = Free
  /\ rec.kind \in Changing => Changer(rec, sv)
  /\ rec.kind = "delete" => Deleter(rec, sv)
  /\ rec.kind = "unsplit" => Unsplitter(rec, sv)
  /\ rec.kind = "undo" => Undoer(rec, sv)

\* No two coroutines share an object, and the requests of each, and the rest of the map,
\* are safe from every other.
Discreet ==
  /\ \A o \in Ops : Knows(op[o], server)
  /\ \A o \in Ops : \A i \in DOMAIN server \ Mine(op[o]) : Safe(server[i], op[o], server)
  /\ \A o, p \in Ops : o # p =>
       Mine(op[o]) \cap Mine(op[p]) = {} /\ \A x \in Load(op[p]) : Safe(x, op[o], server)

\* A request of an undo that will be refused, for what it changes is gone.
Vain(q, e) == q \in UndoReqs(e) /\ \E i \in q.ids \cap e.ids : i \notin DOMAIN server
Hopeless(rec) ==
  /\ rec.kind = "undo"
  /\ \/ rec.applied /\ rec.err = "failed"
     \/ rec.err # "refetch" /\ \E q \in Todo(rec) : Vain(q, rec.entry)
     \/ ~rec.applied /\ rec.err = "failed" /\ \E q : Vain(q, rec.entry)
Doomed == \/ \E k \in DOMAIN stack : \E q : Vain(q, stack[k])
          \/ \E o \in Ops : Hopeless(op[o])

-------------------------------------------------------------------------------
(* Requests of an undo, and parts laid over objects.                          *)

\* What the undo of an entry asks for.
LEMMA UndoAsks ==
  ASSUME NEW e, EntryOK(e), e.ids \subseteq Nat
  PROVE  /\ e.undo # "restore" =>
              UndoReqs(e) = {Update(i, e.objs[i]) : i \in DOMAIN e.objs}
                              \cup {Delete({i}) : i \in e.ids \ DOMAIN e.objs}
         /\ e.undo = "restore" =>
              /\ UndoReqs(e) = {Restore(i, e.objs[i]) : i \in e.ids}
              /\ \E T, U : /\ UndoStages(e) = Stage(T) \o Stage(U) /\ T \cap U = {}
                           /\ UndoReqs(e) = T \cup U
<1> DEFINE ups == {Update(i, e.objs[i]) : i \in DOMAIN e.objs}
           made == e.ids \ DOMAIN e.objs
           dels == {Delete({i}) : i \in made}
<1>1. CASE e.undo = "patch"
  <2> DEFINE updates(lines) == {Update(i, e.objs[i]) : i \in {j \in DOMAIN e.objs : IsLine(e.objs[j]) = lines}}
             T == updates(FALSE)
             U == updates(TRUE)
  <2>1. UndoStages(e) = Stage(T) \o Stage(U) /\ dels = {}
    BY <1>1 DEF UndoStages, EntryOK
  <2>2. T \cup U = ups
    BY DEF IsLine
  <2> HIDE DEF T, U
  <2>3. Requests(Stage(T) \o Stage(U)) = T \cup U
    <3>1. /\ Stage(T) \in Seq({T}) /\ Requests(Stage(T)) = T
          /\ Stage(U) \in Seq({U}) /\ Requests(Stage(U)) = U
      BY OneStage
    <3>2. QED
      BY <3>1, StagesJoin
  <2>4. QED
    BY <1>1, <2>1, <2>2, <2>3 DEF UndoReqs
<1>2. CASE e.undo = "drop"
  <2>1. UndoStages(e) = <<{Delete({i}) : i \in e.ids}>> /\ DOMAIN e.objs = {} /\ ups = {}
    BY <1>2, NoMap DEF UndoStages, EntryOK
  <2>2. UndoReqs(e) = {Delete({i}) : i \in e.ids}
    BY <2>1, OneStage DEF UndoReqs
  <2>3. QED
    BY <1>2, <2>1, <2>2
<1>3. CASE e.undo = "split"
  <2> DEFINE point == CHOOSE i \in made : \A j \in made : i <= j
             second == CHOOSE i \in made : \A j \in made : i >= j
             stages == <<Updates(e.objs), {Delete({second})}, {Delete({point})}>>
  <2>1. UndoStages(e) = stages /\ Updates(e.objs) = ups
    BY <1>3 DEF UndoStages, Updates
  <2>2. PICK p \in e.ids, s \in e.ids : made = {p, s}
    BY <1>3 DEF EntryOK
  <2>3. (\E i \in made : \A j \in made : i <= j) /\ (\E i \in made : \A j \in made : i >= j)
    <3>1. p \in Nat /\ s \in Nat
      BY <2>2
    <3>2. CASE p <= s
      BY <2>2, <3>1, <3>2
    <3>3. CASE s <= p
      BY <2>2, <3>1, <3>3
    <3>4. QED
      BY <3>1, <3>2, <3>3
  <2>4. /\ point \in made /\ \A j \in made : point <= j
        /\ second \in made /\ \A j \in made : second >= j
    BY <2>3
  <2>5. made = {point, second}
    <3> HIDE DEF point, second, made
    <3>1. p \in Nat /\ s \in Nat /\ point \in {p, s} /\ second \in {p, s}
      BY <2>2, <2>4
    <3>2. point <= p /\ point <= s /\ second >= p /\ second >= s
      BY <2>2, <2>4
    <3>3. {p, s} = {point, second}
      BY <3>1, <3>2
    <3>4. QED
      BY <2>2, <3>3
  <2> HIDE DEF point, second
  <2>6. Requests(stages) = ups \cup {Delete({second})} \cup {Delete({point})}
    <3>1. DOMAIN stages = {1, 2, 3} /\ stages[1] = Updates(e.objs) /\ stages[2] = {Delete({second})}
          /\ stages[3] = {Delete({point})}
      OBVIOUS
    <3> HIDE DEF stages
    <3>2. Requests(stages) = stages[1] \cup stages[2] \cup stages[3]
      BY <3>1 DEF Requests
    <3>3. QED
      BY <2>1, <3>1, <3>2
  <2>7. dels = {Delete({second}), Delete({point})}
    BY <2>5
  <2>8. QED
    BY <1>3, <2>1, <2>6, <2>7 DEF UndoReqs
<1>4. CASE e.undo = "restore"
  <2> DEFINE creates(lines) == {Restore(i, e.objs[i]) : i \in {j \in e.ids : IsLine(e.objs[j]) = lines}}
             T == creates(FALSE)
             U == creates(TRUE)
  <2>1. UndoStages(e) = Stage(T) \o Stage(U)
    BY <1>4 DEF UndoStages
  <2>2. T \cup U = {Restore(i, e.objs[i]) : i \in e.ids}
    BY DEF IsLine
  <2>3. T \cap U = {}
    <3>1. SUFFICES ASSUME NEW q \in T, q \in U PROVE FALSE
      OBVIOUS
    <3>2. PICK i \in {j \in e.ids : IsLine(e.objs[j]) = FALSE} : q = Restore(i, e.objs[i])
      OBVIOUS
    <3>3. PICK l \in {j \in e.ids : IsLine(e.objs[j]) = TRUE} : q = Restore(l, e.objs[l])
      BY <3>1
    <3>4. i = l
      BY <3>2, <3>3 DEF Restore
    <3>5. QED
      BY <3>2, <3>3, <3>4
  <2> HIDE DEF T, U
  <2>4. Requests(Stage(T) \o Stage(U)) = T \cup U
    <3>1. /\ Stage(T) \in Seq({T}) /\ Requests(Stage(T)) = T
          /\ Stage(U) \in Seq({U}) /\ Requests(Stage(U)) = U
      BY OneStage
    <3>2. QED
      BY <3>1, StagesJoin
  <2>5. QED
    BY <1>4, <2>1, <2>2, <2>3, <2>4 DEF UndoReqs
<1>5. QED
  BY <1>1, <1>2, <1>3, <1>4 DEF EntryOK

\* A part laid over an object hides what was laid there before on no more fields.
LEMMA OverAgain ==
  ASSUME NEW x, NEW y, NEW obj, DOMAIN y \subseteq DOMAIN obj
  PROVE  /\ Upserted(Upserted(x, y), obj) = Upserted(x, obj)
         /\ Upserted(Upserted(x, obj), obj) = Upserted(x, obj)
<1>1. ASSUME NEW z, DOMAIN z \subseteq DOMAIN obj PROVE Upserted(Upserted(x, z), obj) = Upserted(x, obj)
  <2>1. DOMAIN Upserted(x, z) = DOMAIN z \cup DOMAIN x /\ DOMAIN Upserted(x, obj) = DOMAIN obj \cup DOMAIN x
    BY DEF Upserted
  <2>2. \A f \in DOMAIN x \ DOMAIN obj : Upserted(x, z)[f] = x[f]
    BY <1>1 DEF Upserted
  <2>3. DOMAIN obj \cup DOMAIN Upserted(x, z) = DOMAIN obj \cup DOMAIN x
    BY <1>1, <2>1
  <2> DEFINE b == Upserted(x, z)
  <2>4. Upserted(b, obj) = [f \in DOMAIN obj \cup DOMAIN b |-> IF f \in DOMAIN obj THEN obj[f] ELSE b[f]]
    BY DEF Upserted
  <2> HIDE DEF b
  <2>5. Upserted(b, obj) = [f \in DOMAIN obj \cup DOMAIN x |-> IF f \in DOMAIN obj THEN obj[f] ELSE x[f]]
    BY <2>2, <2>3, <2>4 DEF b
  <2>6. QED
    BY <2>5 DEF b, Upserted
<1>2. QED
  BY <1>1

\* Where an object, and one it is laid over, are.
LEMMA OverEnds ==
  ASSUME NEW n, NEW p \in Part(n), NEW x \in Obj(n)
  PROVE  /\ Upserted(x, p).ends = p.ends /\ Upserted(x, p) \in Obj(n)
         /\ IsLine(Upserted(x, p)) <=> IsLine(p)
         /\ p \in Obj(n) => Upserted(x, p) = p
BY PartOver DEF IsLine

-------------------------------------------------------------------------------
(* What coroutines know stands when another one steps.                        *)

\* What a delete knows stands while its objects do and what else is there is safe from it.
LEMMA DeleterStands ==
  ASSUME NEW rec, NEW sv, NEW sv2, Deleter(rec, sv),
         \A i \in Mine(rec) : Alike(i, sv, sv2),
         \A i \in DOMAIN sv2 \ Mine(rec) : Safe(sv2[i], rec, sv)
  PROVE  Deleter(rec, sv2)
<1> DEFINE ids == rec.entry.ids
<1>1. ids \subseteq Mine(rec) /\ Mine(rec) = ids
  BY DEF Mine, Deleter
<1>2. ASSUME NEW q \in Todo(rec) PROVE Expand(sv2, q.ids) = ids
  <2>1. /\ q.do = "delete" /\ q.ids \subseteq ids /\ Expand(sv, q.ids) = ids
        /\ Single(rec) /\ (~rec.applied => \A i \in ids : i \in DOMAIN sv)
    BY <1>2 DEF Deleter
  <2>2. ~rec.applied
    BY <1>2, <2>1, NoStages DEF Single, Todo
  <2>3. \A i \in ids : i \in DOMAIN sv /\ i \in DOMAIN sv2 /\ sv2[i] = sv[i]
    BY <1>1, <2>1, <2>2 DEF Alike
  <2>4. q.ids \subseteq Targets(rec)
    BY <1>2, <2>1 DEF Targets
  <2>5. ASSUME NEW t \in q.ids PROVE Linked(sv2, t) \cap ids = Linked(sv, t) \cap ids
    BY <2>1, <2>3, <2>5 DEF Linked
  <2>6. ASSUME NEW t \in q.ids, NEW l \in Linked(sv2, t) PROVE l \in ids
    <3>1. SUFFICES ASSUME l \notin ids PROVE FALSE
      OBVIOUS
    <3>2. t \in DOMAIN sv /\ sv2[t] = sv[t] /\ t \in Targets(rec)
      BY <2>1, <2>3, <2>4
    <3>3. ~IsLine(sv2[t]) /\ l \in DOMAIN sv2 /\ IsLine(sv2[l]) /\ sv2[t].ends[1] \in Range(sv2[l].ends)
      BY <2>6 DEF Linked
    <3>4. sv[t].ends[1] \in Doors(rec, sv)
      BY <3>2, <3>3 DEF Doors
    <3>5. Safe(sv2[l], rec, sv)
      BY <1>1, <3>1, <3>3
    <3>6. QED
      BY <3>2, <3>3, <3>4, <3>5 DEF Safe
  <2>7. ASSUME NEW t \in q.ids PROVE Linked(sv, t) \subseteq ids
    BY <2>1, <2>7 DEF Expand
  <2>8. \A t \in q.ids : Linked(sv2, t) = Linked(sv, t)
    BY <2>5, <2>6, <2>7
  <2>9. QED
    BY <2>1, <2>8 DEF Expand
<1>3. ~rec.applied => \A i \in ids : i \in DOMAIN sv2 /\ sv2[i] = rec.entry.objs[i]
  BY <1>1 DEF Deleter, Alike
<1>4. rec.applied => ids \cap DOMAIN sv2 = {}
  BY <1>1 DEF Deleter, Alike
<1>5. QED
  BY <1>2, <1>3, <1>4 DEF Deleter

\* What a changing edit knows stands while its objects do.
LEMMA ChangerStands ==
  ASSUME NEW rec, NEW sv, NEW sv2, Changer(rec, sv), \A i \in Mine(rec) : Alike(i, sv, sv2)
  PROVE  Changer(rec, sv2)
<1> DEFINE ids == rec.entry.ids
<1>1. ids \subseteq Mine(rec) /\ DOMAIN rec.got \subseteq Mine(rec)
  BY DEF Mine
<1>2. ids \subseteq DOMAIN sv2
  BY <1>1 DEF Changer, Alike
<1>3. \A i \in DOMAIN rec.got : i \in DOMAIN sv2 /\ rec.got[i] = sv2[i]
  BY <1>1 DEF Changer, Alike
<1>4. \A i \in ids \ DOMAIN rec.got : Upserted(sv2[i], rec.entry.objs[i]) = sv2[i]
  <2>1. \A i \in ids : sv2[i] = sv[i]
    BY <1>1 DEF Changer, Alike
  <2>2. QED
    BY <2>1 DEF Changer
<1>5. QED
  BY <1>2, <1>3, <1>4 DEF Changer

\* What a split that failed knows stands while its objects do.
LEMMA UnsplitterStands ==
  ASSUME NEW rec, NEW sv, NEW sv2, Unsplitter(rec, sv), \A i \in Mine(rec) : Alike(i, sv, sv2)
  PROVE  Unsplitter(rec, sv2)
<1> DEFINE ids == rec.entry.ids
<1>1. ids \subseteq Mine(rec) /\ DOMAIN rec.got \subseteq Mine(rec)
  BY DEF Mine
<1>2. ids \subseteq DOMAIN sv2 /\ \A i \in ids : sv2[i] = sv[i]
  BY <1>1 DEF Unsplitter, Alike
<1>3. \A i \in DOMAIN rec.got : Alike(i, sv, sv2)
  BY <1>1
<1>4. QED
  BY <1>2, <1>3 DEF Unsplitter, Alike

\* What an undo knows stands while its objects do.
LEMMA UndoerStands ==
  ASSUME NEW rec, NEW sv, NEW sv2, Undoer(rec, sv), \A i \in Mine(rec) : Alike(i, sv, sv2)
  PROVE  Undoer(rec, sv2)
<1> DEFINE e == rec.entry
<1>1. e.ids \subseteq Mine(rec) /\ DOMAIN rec.got \subseteq Mine(rec) /\ DOMAIN e.objs \subseteq e.ids
  BY DEF Mine, Undoer, EntryOK
<1>2. e.undo = "restore" => e.ids \cap DOMAIN sv2 = {} /\ DOMAIN rec.got \subseteq DOMAIN sv2
  BY <1>1 DEF Undoer, Alike
<1>3. ASSUME e.undo # "restore", rec.applied
      PROVE  /\ \A i \in DOMAIN e.objs : /\ i \in DOMAIN sv2
                                         /\ \/ Update(i, e.objs[i]) \in Todo(rec)
                                            \/ Upserted(sv2[i], e.objs[i]) = sv2[i]
             /\ \A i \in e.ids \ DOMAIN e.objs : i \in DOMAIN sv2 => Delete({i}) \in Todo(rec)
  <2>1. \A i \in e.ids : i \in DOMAIN sv2 <=> i \in DOMAIN sv
    BY <1>1 DEF Alike
  <2>2. \A i \in DOMAIN e.objs : i \in DOMAIN sv /\ sv2[i] = sv[i]
    BY <1>1, <1>3 DEF Undoer, Alike
  <2>3. QED
    BY <1>1, <1>3, <2>1, <2>2 DEF Undoer
<1>4. QED
  BY <1>2, <1>3 DEF Undoer

\* What any coroutine knows stands while its objects do, and what is safe from it stays so.
LEMMA KnowsStands ==
  ASSUME NEW rec, NEW sv, NEW sv2, Knows(rec, sv),
         \A i \in Mine(rec) : Alike(i, sv, sv2),
         \A i \in DOMAIN sv2 \ Mine(rec) : Safe(sv2[i], rec, sv)
  PROVE  /\ Knows(rec, sv2) /\ Doors(rec, sv2) = Doors(rec, sv)
         /\ \A x : Safe(x, rec, sv) <=> Safe(x, rec, sv2)
<1>1. Doors(rec, sv2) = Doors(rec, sv)
  BY DoorsStand DEF Knows
<1>2. \A x : Safe(x, rec, sv) <=> Safe(x, rec, sv2)
  BY <1>1 DEF Safe
<1>3. Knows(rec, sv2)
  BY DeleterStands, ChangerStands, UnsplitterStands, UndoerStands DEF Knows
<1>4. QED
  BY <1>1, <1>2, <1>3

-------------------------------------------------------------------------------
(* One coroutine steps.                                                       *)

\* Coroutine o becomes r; an undo that only waits for the refetch may end.
Stays(p) == op'[p] = op[p] \/ (op'[p] = Free /\ op[p].kind = "undo" /\ op[p].err = "refetch")
Turns(o, r) == op'[o] = r /\ \A p \in Ops \ {o} : Stays(p)

\* A free coroutine does nothing.
LEMMA FreeIsSafe ==
  /\ Mine(Free) = {} /\ Load(Free) = {} /\ Brings(Free) = {} /\ Targets(Free) = {} /\ Todo(Free) = {}
  /\ \A sv : Knows(Free, sv) /\ Doors(Free, sv) = {}
  /\ \A sv, x : Safe(x, Free, sv)
<1>1. /\ Free.entry = NoEntry /\ Free.got = None /\ Free.kind = "free" /\ Free.sent = {} /\ Free.stages = <<>>
      /\ Free.err = "none"
  BY DEF Free
<1>2. Todo(Free) = {}
  BY <1>1, NoStages DEF Todo
<1>3. DOMAIN None = {} /\ NoEntry.ids = {} /\ NoEntry.objs = None
  BY NoMap DEF NoEntry
<1>4. Mine(Free) = {} /\ Load(Free) = {} /\ Targets(Free) = {}
  BY <1>1, <1>2, <1>3 DEF Mine, Load, Targets
<1>5. Brings(Free) = {}
  <2>1. Range(Free.got) = {}
    BY <1>1, <1>3 DEF Range
  <2>2. QED
    BY <1>1, <1>4, <2>1 DEF Brings, Spots
<1>6. \A sv : Doors(Free, sv) = {}
  BY <1>4 DEF Doors
<1>7. \A sv : Knows(Free, sv)
  BY <1>1, <1>2, <1>3, <1>4 DEF Knows, Kinds, Changing
<1>8. QED
  BY <1>2, <1>4, <1>5, <1>6, <1>7 DEF Safe

\* A coroutine that stays, but for the snapshots it drops, keeps its objects and what is safe from it.
LEMMA StaysSafe ==
  ASSUME NEW p \in Ops, Stays(p), Knows(op[p], server)
  PROVE  /\ Mine(op'[p]) \subseteq Mine(op[p]) /\ Load(op'[p]) \subseteq Load(op[p])
         /\ Brings(op'[p]) \subseteq Brings(op[p])
         /\ \A sv : Knows(op[p], sv) => Knows(op'[p], sv)
         /\ \A sv, x : Safe(x, op[p], sv) => Safe(x, op'[p], sv)
BY FreeIsSafe DEF Stays

\* The frame of the proofs below: coroutine o becomes r, and changes none but its own objects.
LEMMA OneTurns ==
  ASSUME Discreet, NEW o \in Ops, NEW r, Turns(o, r),
         \A i : i \notin Mine(op[o]) \cup Mine(r) => Alike(i, server, server'),
         Knows(r, server'), \A i \in DOMAIN server' \ Mine(r) : Safe(server'[i], r, server'),
         \A p \in Ops \ {o} :
           /\ Mine(op[p]) \cap Mine(r) = {}
           /\ \A i \in (Mine(op[o]) \cup Mine(r)) \cap DOMAIN server' : Safe(server'[i], op[p], server)
           /\ \A x \in Load(r) : Safe(x, op[p], server)
           /\ \A x \in Load(op[p]) : Safe(x, r, server')
  PROVE  Discreet'
<1>1. ASSUME NEW p \in Ops \ {o}
      PROVE  /\ Knows(op[p], server')
             /\ \A x : Safe(x, op[p], server) <=> Safe(x, op[p], server')
             /\ \A i \in DOMAIN server' \ Mine(op[p]) : Safe(server'[i], op[p], server')
  <2>1. Mine(op[p]) \cap (Mine(op[o]) \cup Mine(r)) = {}
    BY DEF Discreet
  <2>2. \A i \in Mine(op[p]) : Alike(i, server, server')
    BY <2>1
  <2>3. ASSUME NEW i \in DOMAIN server' \ Mine(op[p]) PROVE Safe(server'[i], op[p], server)
    <3>1. CASE i \in Mine(op[o]) \cup Mine(r)
      BY <3>1
    <3>2. CASE i \notin Mine(op[o]) \cup Mine(r)
      <4>1. i \in DOMAIN server /\ server'[i] = server[i]
        BY <3>2 DEF Alike
      <4>2. QED
        BY <4>1 DEF Discreet
    <3>3. QED
      BY <3>1, <3>2
  <2>4. Knows(op[p], server)
    BY DEF Discreet
  <2>5. QED
    BY <2>2, <2>3, <2>4, KnowsStands
<1>2. \A p \in Ops \ {o} : Stays(p) /\ Knows(op[p], server)
  BY DEF Turns, Discreet
<1>3. op'[o] = r
  BY DEF Turns
<1>4. \A p \in Ops : Knows(op'[p], server')
  BY <1>1, <1>2, <1>3, StaysSafe
<1>5. ASSUME NEW p \in Ops, NEW i \in DOMAIN server' \ Mine(op'[p]) PROVE Safe(server'[i], op'[p], server')
  <2>1. CASE p = o
    BY <1>3, <2>1
  <2>2. CASE p # o
    <3>1. CASE op'[p] = op[p]
      BY <1>1, <2>2, <3>1
    <3>2. CASE op'[p] = Free
      BY <3>2, FreeIsSafe
    <3>3. QED
      BY <1>2, <2>2, <3>1, <3>2 DEF Stays
  <2>3. QED
    BY <2>1, <2>2
<1>6. ASSUME NEW p \in Ops, NEW u \in Ops, p # u
      PROVE  Mine(op'[p]) \cap Mine(op'[u]) = {} /\ \A x \in Load(op'[u]) : Safe(x, op'[p], server')
  <2>1. CASE p = o
    <3>1. u \in Ops \ {o} /\ Mine(op'[u]) \subseteq Mine(op[u]) /\ Load(op'[u]) \subseteq Load(op[u])
      BY <1>2, <1>6, <2>1, StaysSafe
    <3>2. QED
      BY <1>3, <2>1, <3>1
  <2>2. CASE u = o
    <3>1. /\ p \in Ops \ {o} /\ Mine(op'[p]) \subseteq Mine(op[p])
          /\ \A x : Safe(x, op[p], server') => Safe(x, op'[p], server')
      BY <1>2, <1>6, <2>2, StaysSafe
    <3>2. \A x \in Load(r) : Safe(x, op[p], server')
      BY <1>1, <3>1
    <3>3. QED
      BY <1>3, <2>2, <3>1, <3>2
  <2>3. CASE p # o /\ u # o
    <3>1. Mine(op[p]) \cap Mine(op[u]) = {} /\ \A x \in Load(op[u]) : Safe(x, op[p], server)
      BY <1>6 DEF Discreet
    <3>2. /\ Mine(op'[p]) \subseteq Mine(op[p])
          /\ \A x : Safe(x, op[p], server') => Safe(x, op'[p], server')
      BY <1>2, <2>3, StaysSafe
    <3>3. Mine(op'[u]) \subseteq Mine(op[u]) /\ Load(op'[u]) \subseteq Load(op[u])
      BY <1>2, <2>3, StaysSafe
    <3>4. \A x \in Load(op[u]) : Safe(x, op[p], server')
      BY <1>1, <2>3, <3>1
    <3>5. QED
      BY <3>1, <3>2, <3>3, <3>4
  <2>4. QED
    BY <2>1, <2>2, <2>3
<1>7. QED
  BY <1>4, <1>5, <1>6 DEF Discreet

\* Discretion stands when the backend and all coroutines do.
LEMMA AllStay ==
  ASSUME Discreet, server' = server, \A p \in Ops : Stays(p)
  PROVE  Discreet'
<1>1. \A p \in Ops :
         /\ Mine(op'[p]) \subseteq Mine(op[p]) /\ Load(op'[p]) \subseteq Load(op[p])
         /\ Knows(op'[p], server)
         /\ \A x : Safe(x, op[p], server) => Safe(x, op'[p], server)
  BY StaysSafe DEF Discreet
<1>2. ASSUME NEW p \in Ops, NEW i \in DOMAIN server \ Mine(op'[p]) PROVE Safe(server[i], op'[p], server)
  <2>1. CASE op'[p] = op[p]
    BY <2>1 DEF Discreet
  <2>2. CASE op'[p] = Free
    BY <2>2, FreeIsSafe
  <2>3. QED
    BY <2>1, <2>2 DEF Stays
<1>3. ASSUME NEW p \in Ops, NEW u \in Ops, p # u
      PROVE  Mine(op'[p]) \cap Mine(op'[u]) = {} /\ \A x \in Load(op'[u]) : Safe(x, op'[p], server)
  <2>1. Mine(op[p]) \cap Mine(op[u]) = {} /\ \A x \in Load(op[u]) : Safe(x, op[p], server)
    BY <1>3 DEF Discreet
  <2>2. QED
    BY <1>1, <2>1
<1>4. QED
  BY <1>1, <1>2, <1>3 DEF Discreet

\* A coroutine ends.
LEMMA OneIsFree ==
  ASSUME Discreet, NEW o \in Ops, Turns(o, Free), server' = server
  PROVE  Discreet'
<1>1. \A i : Alike(i, server, server')
  BY DEF Alike
<1>2. ASSUME NEW p \in Ops \ {o}
      PROVE \A i \in (Mine(op[o]) \cup Mine(Free)) \cap DOMAIN server' : Safe(server'[i], op[p], server)
  <2>1. Mine(op[o]) \cap Mine(op[p]) = {}
    BY DEF Discreet
  <2>2. QED
    BY <2>1, FreeIsSafe DEF Discreet
<1>3. QED
  BY <1>1, <1>2, FreeIsSafe, OneTurns

\* A coroutine goes on with fewer requests, having changed none but its own objects.
LEMMA OneGoesOnSafely ==
  ASSUME Discreet, TypeInv, NEW o \in Ops, NEW r, Turns(o, r),
         r.entry = op[o].entry, Mine(op[o]) \subseteq Mine(r),
         Mine(r) \cap 1..(nextId - 1) \subseteq Mine(op[o]),
         Todo(r) \subseteq Todo(op[o]), Brings(r) \subseteq Brings(op[o]),
         \A t \in Targets(r) \cap DOMAIN server' : t \in DOMAIN server /\ server'[t] = server[t],
         \A i \in DOMAIN server' : \/ i \in DOMAIN server /\ server'[i] = server[i]
                                   \/ /\ i \in Mine(r)
                                      /\ \E x \in Load(op[o]) : x.ends = server'[i].ends,
         DOMAIN server \ DOMAIN server' \subseteq Mine(op[o]), Knows(r, server')
  PROVE  Discreet'
<1>1. Load(r) \subseteq Load(op[o]) /\ Targets(r) \subseteq Targets(op[o])
  BY TodoLess
<1>2. Doors(r, server') \subseteq Doors(op[o], server)
  BY <1>1 DEF Doors
<1>3. \A x : Safe(x, op[o], server) => Safe(x, r, server')
  BY <1>2 DEF Safe
<1>4. \A i : i \notin Mine(op[o]) \cup Mine(r) => Alike(i, server, server')
  BY DEF Alike
<1>5. \A i \in DOMAIN server' \ Mine(r) : Safe(server'[i], r, server')
  <2>1. \A i \in DOMAIN server' \ Mine(r) : i \in DOMAIN server \ Mine(op[o]) /\ server'[i] = server[i]
    OBVIOUS
  <2>2. QED
    BY <1>3, <2>1 DEF Discreet
<1>6. ASSUME NEW p \in Ops \ {o}
      PROVE  /\ Mine(op[p]) \cap Mine(r) = {}
             /\ \A i \in (Mine(op[o]) \cup Mine(r)) \cap DOMAIN server' : Safe(server'[i], op[p], server)
             /\ \A x \in Load(r) : Safe(x, op[p], server)
             /\ \A x \in Load(op[p]) : Safe(x, r, server')
  <2>1. /\ Mine(op[p]) \cap Mine(op[o]) = {}
        /\ \A x \in Load(op[o]) : Safe(x, op[p], server)
        /\ \A x \in Load(op[p]) : Safe(x, op[o], server)
    BY DEF Discreet
  <2>2. ASSUME NEW i \in Mine(r) \ Mine(op[o]) PROVE i \notin Mine(op[p]) /\ i \notin DOMAIN server
    <3>1. i \notin 1..(nextId - 1)
      BY <2>2
    <3>2. QED
      BY <3>1, NewIds
  <2>3. Mine(op[p]) \cap Mine(r) = {}
    BY <2>1, <2>2
  <2>4. ASSUME NEW i \in Mine(r) \cap DOMAIN server' PROVE Safe(server'[i], op[p], server)
    <3>1. CASE i \in DOMAIN server /\ server'[i] = server[i]
      BY <2>3, <2>4, <3>1 DEF Discreet
    <3>2. CASE \E x \in Load(op[o]) : x.ends = server'[i].ends
      BY <2>1, <3>2 DEF Safe, IsLine
    <3>3. QED
      BY <2>4, <3>1, <3>2
  <2>5. QED
    BY <1>1, <1>3, <2>1, <2>3, <2>4
<1>7. QED
  BY <1>4, <1>5, <1>6, OneTurns

-------------------------------------------------------------------------------
(* How coroutines turn.                                                       *)

\* While the others wait, or are released from waiting.
LEMMA ReleasedStays ==
  ASSUME OpsTyped, NEW p \in Ops
  PROVE  Released(op)[p] = op[p] \/ (Released(op)[p] = Free /\ op[p].kind = "undo" /\ op[p].err = "refetch")
BY DEF Released

\* An assignment to one element of op turns that coroutine, and the others stay.
LEMMA OneTurnsTo ==
  ASSUME OpsTyped, NEW o \in Ops, NEW r, NEW f, f = op \/ f = Released(op), op' = [f EXCEPT ![o] = r]
  PROVE  Turns(o, r)
<1>1. DOMAIN f = Ops
  BY DEF OpsTyped, Released
<1>2. op'[o] = r /\ \A p \in Ops \ {o} : op'[p] = f[p]
  BY <1>1
<1>3. \A p \in Ops \ {o} : Stays(p)
  BY <1>2, ReleasedStays DEF Stays
<1>4. QED
  BY <1>2, <1>3 DEF Turns

\* A coroutine that ends is free again.
LEMMA EndTurns ==
  ASSUME OpsTyped, NEW o \in Ops, op' = Ended(o) \/ op' = Released(Ended(o))
  PROVE  Turns(o, Free)
<1>1. CASE op' = Ended(o)
  BY <1>1, OneTurnsTo DEF Ended
<1>2. CASE op' = Released(Ended(o))
  BY <1>2, ReleasedEnded, OneTurnsTo
<1>3. QED
  BY <1>1, <1>2

\* A refetch that drops the snapshots leaves every coroutine as it is.
LEMMA AllReleased ==
  ASSUME OpsTyped, op' = op \/ op' = Released(op)
  PROVE  \A p \in Ops : Stays(p)
BY ReleasedStays DEF Stays

\* What a coroutine sends when it goes on.
LEMMA GoesOn ==
  ASSUME NEW rec, DOMAIN rec = DOMAIN Free, NEW r \in GoOn(rec)
  PROVE  /\ rec.err # "none" \/ rec.sent # {} => r = rec
         /\ rec.stages = <<>> => r = rec
         /\ rec.err = "none" /\ rec.sent = {} =>
              /\ \A x : rec.stages = <<{x}>> => r.sent = {x} /\ r.stages = <<>>
              /\ \A x, y : rec.stages = <<{x}, {y}>> => r.sent = {x} /\ r.stages = <<{y}>>
         /\ \A T : rec.stages = <<T>> /\ rec.sent \cap T = {} =>
              r.stages = <<>> \/ \E U : r.stages = <<U>> /\ r.sent \cap U = {}
<1>1. rec.err # "none" \/ rec.sent # {} \/ rec.stages = <<>> => r = rec
  BY DEF GoOn
<1>2. ASSUME NEW stage, NEW rest, Head(rec.stages) = stage, Tail(rec.stages) = rest, r \in Send(rec)
      PROVE  /\ stage # {}
             /\ \/ r.sent = stage /\ r.stages = rest
                \/ \E q \in stage : /\ r.sent = {q}
                                    /\ r.stages = IF stage = {q} THEN rest ELSE <<stage \ {q}>> \o rest
  <2>1. CASE \A q \in stage : q.do = "update"
    <3>1. PICK q \in stage : r = [rec EXCEPT !.sent = {q},
                    !.stages = IF stage = {q} THEN rest ELSE <<stage \ {q}>> \o rest]
      BY <1>2, <2>1 DEF Send
    <3>2. r.sent = {q} /\ r.stages = IF stage = {q} THEN rest ELSE <<stage \ {q}>> \o rest
      BY <3>1 DEF Free
    <3>3. QED
      BY <3>2
  <2>2. CASE ~\A q \in stage : q.do = "update"
    <3>1. r = [rec EXCEPT !.sent = stage, !.stages = rest]
      BY <1>2, <2>2 DEF Send
    <3>2. QED
      BY <2>2, <3>1 DEF Free
  <2>3. QED
    BY <2>1, <2>2
<1>3. ASSUME rec.err = "none", rec.sent = {}, rec.stages # <<>> PROVE r \in Send(rec)
  BY <1>3 DEF GoOn
<1>4. ASSUME rec.err = "none", rec.sent = {}, NEW x, rec.stages = <<{x}>>
      PROVE  r.sent = {x} /\ r.stages = <<>>
  <2>1. Head(rec.stages) = {x} /\ Tail(rec.stages) = <<>> /\ rec.stages # <<>>
    BY <1>4
  <2>2. QED
    BY <1>2, <1>3, <1>4, <2>1
<1>5. ASSUME rec.err = "none", rec.sent = {}, NEW x, NEW y, rec.stages = <<{x}, {y}>>
      PROVE  r.sent = {x} /\ r.stages = <<{y}>>
  <2>1. Head(rec.stages) = {x} /\ Tail(rec.stages) = <<{y}>> /\ rec.stages # <<>>
    BY <1>5
  <2>2. QED
    BY <1>2, <1>3, <1>5, <2>1
<1>6. ASSUME NEW T, rec.stages = <<T>>, rec.sent \cap T = {}
      PROVE  r.stages = <<>> \/ \E U : r.stages = <<U>> /\ r.sent \cap U = {}
  <2>1. Head(rec.stages) = T /\ Tail(rec.stages) = <<>> /\ rec.stages # <<>>
    BY <1>6
  <2>2. CASE rec.err # "none" \/ rec.sent # {}
    BY <1>1, <1>6, <2>2
  <2>3. CASE rec.err = "none" /\ rec.sent = {}
    <3>1. r \in Send(rec)
      BY <1>3, <2>1, <2>3
    <3>2. CASE r.sent = T /\ r.stages = <<>>
      BY <3>2
    <3>3. ASSUME NEW q \in T, r.sent = {q}, r.stages = IF T = {q} THEN <<>> ELSE <<T \ {q}>> \o <<>>
          PROVE  r.stages = <<>> \/ \E U : r.stages = <<U>> /\ r.sent \cap U = {}
      <4>1. <<T \ {q}>> \o <<>> = <<T \ {q}>>
        OBVIOUS
      <4>2. QED
        BY <3>3, <4>1
    <3>4. QED
      BY <1>2, <2>1, <3>1, <3>2, <3>3
  <2>4. QED
    BY <2>2, <2>3
<1>7. QED
  BY <1>1, <1>4, <1>5, <1>6

\* The next stage is sent when all of the last is answered.
Follows(r, rec, q) ==
  /\ Todo(r) = (rec.sent \ {q}) \cup Requests(rec.stages)
  /\ \A x, y : rec.sent = {x} /\ rec.err = "none" /\ rec.stages = <<{y}>> =>
       r.sent = {y} /\ r.stages = <<>>
  /\ \A x, y, z : rec.sent = {x} /\ rec.err = "none" /\ rec.stages = <<{y}, {z}>> =>
       r.sent = {y} /\ r.stages = <<{z}>>
  /\ \A T : rec.stages = <<T>> /\ rec.sent \cap T = {} =>
       r.stages = <<>> \/ \E U : r.stages = <<U>> /\ r.sent \cap U = {}

\* An answer, and what is sent then.
LEMMA ServedGoesOn ==
  ASSUME TypeInv, NEW o \in Ops, NEW q \in op[o].sent, Found(q), Apply(q),
         NEW r \in GoOn(Served(op[o], q))
  PROVE  (\E got : Answered(r, op[o], q, got)) /\ Follows(r, op[o], q)
<1> DEFINE rec == op[o]
           old == Served(rec, q)
<1>1. \E got : Answered(r, rec, q, got)
  BY ServedAnswered
<1>2. DOMAIN rec = DOMAIN Free
  BY DEF TypeInv, OpsTyped, OpTyped
<1> HIDE DEF rec
<1>3. DOMAIN old = DOMAIN Free /\ old.err = rec.err /\ old.stages = rec.stages /\ old.sent = rec.sent \ {q}
  BY <1>2 DEF Served, Free
<1> HIDE DEF old
<1>4. r \in GoOn(old) /\ q \in rec.sent
  BY DEF old, rec
<1>5. ASSUME NEW x, NEW y, rec.sent = {x}, rec.err = "none"
      PROVE  /\ rec.stages = <<{y}>> => r.sent = {y} /\ r.stages = <<>>
             /\ \A z : rec.stages = <<{y}, {z}>> => r.sent = {y} /\ r.stages = <<{z}>>
  <2>1. old.sent = {} /\ old.err = "none"
    BY <1>3, <1>4, <1>5
  <2>2. /\ \A a : old.stages = <<{a}>> => r.sent = {a} /\ r.stages = <<>>
        /\ \A a, b : old.stages = <<{a}, {b}>> => r.sent = {a} /\ r.stages = <<{b}>>
    BY <1>3, <1>4, <2>1, GoesOn, Zenon
  <2>3. old.stages = rec.stages
    BY <1>3
  <2>4. ASSUME rec.stages = <<{y}>> PROVE r.sent = {y} /\ r.stages = <<>>
    <3>1. old.stages = <<{y}>>
      BY <2>3, <2>4
    <3>2. old.stages = <<{y}>> => r.sent = {y} /\ r.stages = <<>>
      BY <2>2
    <3>3. QED
      BY <3>1, <3>2
  <2>5. ASSUME NEW z, rec.stages = <<{y}, {z}>> PROVE r.sent = {y} /\ r.stages = <<{z}>>
    <3>1. old.stages = <<{y}, {z}>>
      BY <2>3, <2>5
    <3>2. old.stages = <<{y}, {z}>> => r.sent = {y} /\ r.stages = <<{z}>>
      BY <2>2
    <3>3. QED
      BY <3>1, <3>2
  <2>6. QED
    BY <2>4, <2>5, Zenon
<1>6. ASSUME NEW T, rec.stages = <<T>>, rec.sent \cap T = {}
      PROVE  r.stages = <<>> \/ \E U : r.stages = <<U>> /\ r.sent \cap U = {}
  <2>1. old.sent \cap T = {}
    BY <1>3, <1>6
  <2>2. QED
    BY <1>3, <1>4, <1>6, <2>1, GoesOn
<1> USE DEF rec
<1>7. /\ \A x, y : op[o].sent = {x} /\ op[o].err = "none" /\ op[o].stages = <<{y}>> =>
           r.sent = {y} /\ r.stages = <<>>
      /\ \A x, y, z : op[o].sent = {x} /\ op[o].err = "none" /\ op[o].stages = <<{y}, {z}>> =>
           r.sent = {y} /\ r.stages = <<{z}>>
  BY <1>5
<1>8. \A T : op[o].stages = <<T>> /\ op[o].sent \cap T = {} =>
              r.stages = <<>> \/ \E U : r.stages = <<U>> /\ r.sent \cap U = {}
  BY <1>6, Zenon
<1>9. Todo(r) = (op[o].sent \ {q}) \cup Requests(op[o].stages)
  <2>1. MapsTyped /\ OpTyped(op[o], edits, nextId, seq) /\ q \in op[o].sent
    BY DEF TypeInv, OpsTyped
  <2>2. OpTyped(old, edits, nextId', seq)
    BY <2>1, AnswerTyped DEF old
  <2>3. Same(r, old)
    BY <1>4, <2>2, GoOnSame
  <2>4. QED
    BY <1>3, <2>3 DEF Same, Todo
<1>10. QED
  BY <1>1, <1>7, <1>8, <1>9, Zenon DEF Follows

\* A coroutine brings no more than before.
LEMMA BringsLess ==
  ASSUME NEW rec, NEW r, r.kind = rec.kind, r.entry = rec.entry, Load(r) \subseteq Load(rec),
         \A i \in DOMAIN r.got :
           \/ i \in DOMAIN rec.got /\ r.got[i] = rec.got[i]
           \/ \E x \in Load(rec) : x.ends = r.got[i].ends
  PROVE  Brings(r) \subseteq Brings(rec)
<1>1. ASSUME NEW i \in DOMAIN r.got
      PROVE  Range(r.got[i].ends) \subseteq Spots(Load(rec)) \cup Spots(Range(rec.got))
  <2>1. CASE i \in DOMAIN rec.got /\ r.got[i] = rec.got[i]
    BY <2>1 DEF Spots, Range
  <2>2. CASE \E x \in Load(rec) : x.ends = r.got[i].ends
    BY <2>2 DEF Spots
  <2>3. QED
    BY <2>1, <2>2
<1>2. Spots(Range(r.got)) \subseteq Spots(Load(rec)) \cup Spots(Range(rec.got))
  BY <1>1 DEF Spots, Range
<1>3. Spots(Load(r)) \subseteq Spots(Load(rec))
  BY DEF Spots
<1>4. QED
  BY <1>2, <1>3 DEF Brings

-------------------------------------------------------------------------------
(* What a coroutine knows when a request of its own was answered.             *)

\* After an answer a coroutine knows what it is to know once its own part of it is shown.
LEMMA KnowsServed ==
  ASSUME NEW rec, NEW sv, Knows(rec, sv), NEW q \in rec.sent, NEW r, NEW got, Answered(r, rec, q, got),
         NEW sv2,
         rec.kind \in Changing => Changer(r, sv2),
         rec.kind = "delete" => Deleter(r, sv2),
         rec.kind = "unsplit" => Unsplitter(r, sv2),
         rec.kind = "undo" => Undoer(r, sv2)
  PROVE  Knows(r, sv2)
<1>1. q \in Todo(rec)
  BY DEF Todo
<1>2. rec.kind # "free" /\ rec.err # "refetch"
  BY <1>1, FreeIsSafe DEF Knows
<1>3. /\ r.kind = rec.kind /\ r.entry = rec.entry /\ r.err = rec.err
      /\ Todo(r) \subseteq Todo(rec) /\ DOMAIN rec.got \subseteq DOMAIN r.got
  BY DEF Answered, Upserted
<1>4. Load(r) \subseteq Load(rec) /\ Targets(r) \subseteq Targets(rec)
  BY <1>3, TodoLess
<1>5. Mine(rec) \subseteq Mine(r)
  BY <1>3 DEF Mine
<1>6. QED
  BY <1>2, <1>3, <1>4, <1>5 DEF Knows

\* An update of an edit.
LEMMA ChangerUpdated ==
  ASSUME Discreet, TypeInv, NEW o \in Ops, op[o].kind \in Changing,
         NEW q \in op[o].sent, Found(q), Apply(q), q.do = "update",
         NEW r, NEW got, Answered(r, op[o], q, got), Follows(r, op[o], q)
  PROVE  Changer(r, server') /\ q.ids \subseteq op[o].entry.ids /\ Laid(r, op[o], q)
<1> DEFINE rec == op[o]
           ids == rec.entry.ids
           objs == rec.entry.objs
<1>1. Changer(rec, server) /\ Laid(r, rec, q) /\ q \in Todo(rec)
  BY UpdateServed DEF Discreet, Knows, Todo
<1> HIDE DEF rec
<1>2. PICK i \in ids : q.ids = {i} /\ DOMAIN q.objs[1] \subseteq DOMAIN objs[i]
  BY <1>1 DEF Changer, Formed
<1>3. /\ DOMAIN server' = DOMAIN server /\ i \in DOMAIN server
      /\ \A j \in DOMAIN server \ {i} : server'[j] = server[j]
      /\ DOMAIN r.got = DOMAIN rec.got \cup {i} /\ r.got[i] = server'[i]
      /\ \A j \in DOMAIN rec.got \ {i} : r.got[j] = rec.got[j]
  BY <1>1, <1>2 DEF Laid
<1>4. /\ r.kind = rec.kind /\ r.entry = rec.entry /\ r.err = rec.err /\ r.applied = TRUE
      /\ Todo(r) \subseteq Todo(rec)
      /\ rec.stages = <<>> => r.stages = <<>> /\ r.sent = rec.sent \ {q}
  BY DEF Answered, rec
<1>5. \A j \in DOMAIN r.got : j \in DOMAIN server' /\ r.got[j] = server'[j]
  BY <1>1, <1>3 DEF Changer, Formed
<1>6. \A j \in ids \ DOMAIN r.got : Upserted(server'[j], objs[j]) = server'[j]
  BY <1>1, <1>3 DEF Changer, Formed
<1>7. \A j \in DOMAIN r.got \ ids : ~IsLine(r.got[j]) => r.got[j].ends[1] \notin Spots(Range(objs))
  BY <1>1, <1>2, <1>3 DEF Changer, Formed
<1>8. Single(rec) => Single(r)
  <2>1. SUFFICES ASSUME Single(rec) PROVE Single(r)
    OBVIOUS
  <2>2. q \in rec.sent
    BY DEF rec
  <2>3. rec.stages = <<>> /\ rec.err = "none" /\ rec.sent = {q}
    BY <2>1, <2>2 DEF Single
  <2>4. QED
    BY <1>4, <2>3 DEF Single
<1>9. ASSUME rec.kind = "split" PROVE Uncut(r) \/ Pointed(r) \/ Cut(r) \/ InTwo(r)
  <2>1. q \in rec.sent /\ Follows(r, rec, q)
    BY DEF rec
  <2>2. CASE Uncut(rec)
    BY <2>1, <2>2 DEF Uncut, Awaits, Making
  <2>3. CASE Pointed(rec)
    <3>1. PICK p : /\ p \notin ids /\ DOMAIN rec.got = {p}
                   /\ \E u, d : Cutting(rec, u) /\ Making(d) /\ Awaits(rec, {u}, <<{d}>>)
      BY <2>3 DEF Pointed
    <3>2. PICK u, d : Cutting(rec, u) /\ Making(d) /\ Awaits(rec, {u}, <<{d}>>)
      BY <3>1
    <3>3. rec.err = "none" /\ rec.sent = {u} /\ rec.stages = <<{d}>> /\ q = u
      BY <2>1, <3>2 DEF Awaits
    <3>4. r.sent = {d} /\ r.stages = <<>>
      BY <2>1, <3>3 DEF Follows
    <3>5. Awaits(r, {d}, <<>>)
      BY <1>4, <3>3, <3>4 DEF Awaits
    <3>6. ids = {i}
      BY <1>2, <3>2, <3>3 DEF Cutting
    <3>7. DOMAIN r.got = {p} \cup r.entry.ids /\ p \notin r.entry.ids
      BY <1>3, <1>4, <3>1, <3>6
    <3>8. Cut(r)
      BY <1>4, <3>2, <3>5, <3>7 DEF Cut
    <3>9. QED
      BY <3>8
  <2>4. CASE Cut(rec)
    BY <1>1, <1>2, <2>1, <2>4 DEF Cut, Awaits, Making, rec
  <2>5. CASE InTwo(rec)
    BY <2>1, <2>5 DEF InTwo, Awaits
  <2>6. QED
    BY <1>1, <1>9, <2>2, <2>3, <2>4, <2>5 DEF Changer, Formed
<1>10. ids \subseteq DOMAIN server' /\ (rec.kind \in {"move", "group", "detail"} => DOMAIN r.got \subseteq ids)
  BY <1>1, <1>2, <1>3 DEF Changer, Formed
<1>13. /\ DOMAIN r.got # {}
       /\ rec.kind \in {"move", "group", "detail"} => ids # {}
       /\ rec.kind \in {"place", "paste"} => rec.entry = NoEntry
  BY <1>1, <1>3 DEF Changer, Formed
<1>14. rec.entry.undo = r.entry.undo /\ Formed(rec)
  BY <1>1, <1>4 DEF Changer
<1>15. Formed(r)
  BY <1>4, <1>8, <1>9, <1>10, <1>13, <1>14 DEF Formed
<1>11. Changer(r, server')
  BY <1>1, <1>4, <1>5, <1>6, <1>7, <1>10, <1>15 DEF Changer
<1>12. QED
  BY <1>1, <1>2, <1>11 DEF rec

\* A create of an edit: what is made has new ids.
LEMMA ChangerCreated ==
  ASSUME Discreet, TypeInv, NEW o \in Ops, op[o].kind \in Changing,
         NEW q \in op[o].sent, Apply(q), q.do = "create",
         NEW r, NEW got, Answered(r, op[o], q, got), Follows(r, op[o], q)
  PROVE  /\ Changer(r, server')
         /\ \A j \in DOMAIN server : j \in DOMAIN server' /\ server'[j] = server[j]
         /\ \A j \in DOMAIN server' \ DOMAIN server :
              j \in DOMAIN r.got \ 1..(nextId - 1) /\ \E x \in Load(op[o]) : server'[j] = x
         /\ DOMAIN r.got \cap 1..(nextId - 1) = DOMAIN op[o].got
         /\ \A j \in DOMAIN op[o].got : r.got[j] = op[o].got[j]
<1> DEFINE rec == op[o]
           ids == rec.entry.ids
           objs == rec.entry.objs
<1>1. Changer(rec, server) /\ q \in Todo(rec) /\ q \in rec.sent /\ Follows(r, rec, q)
  BY DEF Discreet, Knows, Todo
<1>2. MapsTyped /\ OpTyped(rec, edits, nextId, seq) /\ RequestTyped(q, edits)
  BY <1>1 DEF TypeInv, OpsTyped, OpTyped
<1>3. /\ q.objs \in Seq(Obj(edits)) /\ Map(Made(q), Obj(edits), nextId + Len(q.objs)) /\ Len(q.objs) \in Nat
      /\ DOMAIN Made(q) = nextId..(nextId + Len(q.objs) - 1)
  BY <1>2, MadeTyped DEF RequestTyped
<1>4. server' = Upserted(server, Made(q)) /\ r.got = Upserted(rec.got, Made(q))
  BY DEF Apply, Answered
<1>5. /\ DOMAIN server \subseteq 1..(nextId - 1) /\ DOMAIN rec.got \subseteq 1..(nextId - 1)
      /\ ids \subseteq 1..(nextId - 1) /\ nextId \in Nat
  BY <1>2 DEF MapsTyped, OpTyped, EntryTyped, Map
<1>6. \A j \in DOMAIN Made(q) : j \notin 1..(nextId - 1)
  BY <1>3, <1>5
<1>7. \A j \in DOMAIN Made(q) : Made(q)[j] \in Range(q.objs) /\ Made(q)[j] \in Load(rec)
  <2>1. ASSUME NEW j \in DOMAIN Made(q) PROVE Made(q)[j] \in Range(q.objs)
    <3>1. Made(q)[j] = q.objs[j - nextId + 1] /\ j - nextId + 1 \in 1..Len(q.objs)
      BY <1>3, <1>5, <2>1 DEF Made
    <3>2. DOMAIN q.objs = 1..Len(q.objs)
      BY <1>3
    <3>3. QED
      BY <3>1, <3>2 DEF Range
  <2>2. QED
    BY <1>1, <2>1 DEF Load, Carried
<1> DEFINE made == Made(q)
<1> HIDE DEF rec, made
<1>8. /\ DOMAIN server' = DOMAIN made \cup DOMAIN server /\ DOMAIN r.got = DOMAIN made \cup DOMAIN rec.got
      /\ \A j \in DOMAIN made : server'[j] = made[j] /\ r.got[j] = made[j]
      /\ \A j \in DOMAIN server : server'[j] = server[j]
      /\ \A j \in DOMAIN rec.got : r.got[j] = rec.got[j]
  BY <1>4, <1>5, <1>6 DEF Upserted, made
<1>9. /\ r.kind = rec.kind /\ r.entry = rec.entry /\ r.err = rec.err /\ r.applied = TRUE
      /\ Todo(r) \subseteq Todo(rec)
      /\ rec.stages = <<>> => r.stages = <<>> /\ r.sent = rec.sent \ {q}
  BY DEF Answered, rec
<1>10. /\ \A j \in DOMAIN r.got : j \in DOMAIN server' /\ r.got[j] = server'[j]
       /\ ids \subseteq DOMAIN server'
       /\ \A j \in ids \ DOMAIN r.got : Upserted(server'[j], objs[j]) = server'[j]
  BY <1>1, <1>8 DEF Changer, Formed
<1>11. ASSUME NEW j \in DOMAIN r.got \ ids, ~IsLine(r.got[j]) PROVE r.got[j].ends[1] \notin Spots(Range(objs))
  <2>1. CASE j \in DOMAIN made
    <3>1. r.got[j] \in Range(q.objs)
      BY <1>7, <1>8, <2>1 DEF made
    <3>2. QED
      BY <1>1, <1>11, <3>1 DEF Changer, Formed
  <2>2. CASE j \in DOMAIN rec.got
    BY <1>1, <1>8, <1>11, <2>2 DEF Changer, Formed
  <2>3. QED
    BY <1>8, <1>11, <2>1, <2>2
<1>12. Single(rec) => Single(r)
  <2>1. SUFFICES ASSUME Single(rec) PROVE Single(r)
    OBVIOUS
  <2>2. rec.stages = <<>> /\ rec.err = "none" /\ rec.sent = {q}
    BY <1>1, <2>1 DEF Single
  <2>3. QED
    BY <1>9, <2>2 DEF Single
<1>13. ASSUME Making(q) PROVE DOMAIN made = {nextId} /\ nextId \notin ids
  <2>1. DOMAIN made = nextId..(nextId + 1 - 1) /\ nextId \in Nat
    BY <1>3, <1>5, <1>13 DEF Making, made
  <2>2. QED
    BY <1>5, <2>1
<1>14. ASSUME rec.kind = "split" PROVE Uncut(r) \/ Pointed(r) \/ Cut(r) \/ InTwo(r)
  <2>1. CASE Uncut(rec)
    <3>1. PICK c, u, d :
            /\ Making(c) /\ ~IsLine(c.objs[1]) /\ Cutting(rec, u) /\ Making(d)
            /\ Awaits(rec, {c}, <<{u}, {d}>>)
      BY <2>1 DEF Uncut
    <3>2. rec.err = "none" /\ rec.sent = {c} /\ rec.stages = <<{u}, {d}>> /\ q = c
      BY <1>1, <3>1 DEF Awaits
    <3>3. r.sent = {u} /\ r.stages = <<{d}>>
      <4>1. rec.sent = {c} /\ rec.err = "none" /\ rec.stages = <<{u}, {d}>> => r.sent = {u}
            /\ r.stages = <<{d}>>
        <5>1. \A x, y, z : rec.sent = {x} /\ rec.err = "none" /\ rec.stages = <<{y}, {z}>> =>
                r.sent = {y} /\ r.stages = <<{z}>>
          BY <1>1, Zenon DEF Follows
        <5>2. QED
          BY <5>1
      <4>2. QED
        BY <3>2, <4>1
    <3>4. Awaits(r, {u}, <<{d}>>)
      BY <1>9, <3>2, <3>3 DEF Awaits
    <3>5. DOMAIN r.got = {nextId} /\ nextId \notin r.entry.ids
      BY <1>8, <1>9, <1>13, <2>1, <3>1, <3>2 DEF Uncut
    <3>6. ~IsLine(r.got[nextId])
      <4>1. made[nextId] = q.objs[nextId - nextId + 1]
        BY <1>13, <3>1, <3>2 DEF Made, made
      <4>2. nextId - nextId + 1 = 1
        BY <1>5
      <4>3. r.got[nextId] = c.objs[1]
        BY <1>8, <1>13, <3>1, <3>2, <4>1, <4>2
      <4>4. QED
        BY <3>1, <4>3
    <3>7. Cutting(r, u)
      BY <1>9, <3>1 DEF Cutting
    <3>8. Pointed(r)
      BY <1>9, <3>1, <3>4, <3>5, <3>6, <3>7 DEF Pointed
    <3>9. QED
      BY <3>8
  <2>2. CASE Pointed(rec)
    BY <1>1, <2>2 DEF Pointed, Awaits, Cutting
  <2>3. CASE Cut(rec)
    <3>1. PICK p : /\ p \notin ids /\ DOMAIN rec.got = {p} \cup ids
                   /\ \E d : Making(d) /\ Awaits(rec, {d}, <<>>)
      BY <2>3 DEF Cut
    <3>2. PICK d : Making(d) /\ Awaits(rec, {d}, <<>>)
      BY <3>1
    <3>3. rec.err = "none" /\ rec.sent = {d} /\ rec.stages = <<>> /\ q = d
      BY <1>1, <3>2 DEF Awaits
    <3>4. Awaits(r, {}, <<>>)
      BY <1>9, <3>3 DEF Awaits
    <3>5. DOMAIN r.got = {p, nextId} \cup r.entry.ids /\ nextId \notin r.entry.ids
      BY <1>8, <1>9, <1>13, <3>1, <3>2, <3>3
    <3>6. InTwo(r)
      BY <1>9, <3>1, <3>4, <3>5 DEF InTwo
    <3>7. QED
      BY <3>6
  <2>4. CASE InTwo(rec)
    BY <1>1, <2>4 DEF InTwo, Awaits
  <2>5. QED
    BY <1>1, <1>14, <2>1, <2>2, <2>3, <2>4 DEF Changer, Formed
<1>15. rec.kind \notin {"move", "group", "detail"}
  BY <1>1 DEF Changer, Formed
<1>19. /\ DOMAIN r.got # {}
       /\ rec.kind \in {"place", "paste"} => rec.entry = NoEntry
  <2>1. q.objs # <<>> /\ (rec.kind \in {"place", "paste"} => rec.entry = NoEntry)
    BY <1>1 DEF Changer, Formed
  <2>2. Len(q.objs) # 0
    BY <1>3, <2>1
  <2>3. nextId \in DOMAIN made
    BY <1>3, <1>5, <2>2 DEF made
  <2>4. QED
    BY <1>8, <2>1, <2>3
<1>20. Formed(rec)
  BY <1>1 DEF Changer
<1>21. Formed(r)
  BY <1>9, <1>12, <1>14, <1>15, <1>19, <1>20 DEF Formed
<1>16. Changer(r, server')
  BY <1>1, <1>9, <1>10, <1>11, <1>21 DEF Changer
<1>17. \A j \in DOMAIN made : j \notin 1..(nextId - 1) /\ made[j] \in Load(rec)
  BY <1>6, <1>7 DEF made
<1>18. QED
  BY <1>5, <1>8, <1>16, <1>17 DEF rec

\* A delete is served: all of it goes.
LEMMA DeleterAnswered ==
  ASSUME Discreet, TypeInv, NEW o \in Ops, op[o].kind = "delete", NEW q \in op[o].sent, Apply(q),
         NEW r, NEW got, Answered(r, op[o], q, got)
  PROVE  /\ Deleter(r, server') /\ DOMAIN r.got = {} /\ Todo(r) = {}
         /\ server' = Removed(server, op[o].entry.ids) /\ op[o].entry.ids \subseteq DOMAIN server
<1> DEFINE rec == op[o]
           ids == rec.entry.ids
<1>1. Deleter(rec, server) /\ q \in Todo(rec) /\ q \in rec.sent
  BY DEF Discreet, Knows, Todo
<1>2. rec.stages = <<>> /\ rec.err = "none" /\ ~rec.applied /\ rec.sent = {q}
  BY <1>1 DEF Deleter, Single
<1>3. q.do = "delete" /\ Expand(server, q.ids) = ids /\ ids \subseteq DOMAIN server
  BY <1>1, <1>2 DEF Deleter
<1>4. server' = Removed(server, ids)
  BY <1>3 DEF Apply
<1>5. /\ r.kind = rec.kind /\ r.entry = rec.entry /\ r.err = rec.err /\ r.applied = TRUE
      /\ r.stages = <<>> /\ r.sent = {} /\ Todo(r) = {}
  BY <1>2 DEF Answered
<1>6. DOMAIN r.got = {}
  <2>1. r.got = Upserted(rec.got, None) /\ DOMAIN rec.got = {}
    BY <1>1, <1>3 DEF Answered, Deleter
  <2>2. QED
    BY <2>1, NoMap DEF Upserted
<1>7. ids \cap DOMAIN server' = {}
  BY <1>4 DEF Removed, Only
<1>8. Single(r)
  BY <1>2, <1>5 DEF Single
<1>9. Deleter(r, server')
  BY <1>1, <1>5, <1>6, <1>7, <1>8 DEF Deleter
<1>10. QED
  BY <1>3, <1>4, <1>5, <1>6, <1>9

\* The point of a split that failed is deleted, and no line with it.
LEMMA UnsplitterAnswered ==
  ASSUME Discreet, TypeInv, NEW o \in Ops, op[o].kind = "unsplit", NEW q \in op[o].sent, Apply(q),
         NEW r, NEW got, Answered(r, op[o], q, got)
  PROVE  /\ Unsplitter(r, server') /\ r.got = op[o].got /\ Todo(r) = {}
         /\ server' = Removed(server, DOMAIN op[o].got)
<1> DEFINE rec == op[o]
           ids == rec.entry.ids
           objs == rec.entry.objs
<1>1. Unsplitter(rec, server) /\ q \in Todo(rec)
  BY DEF Discreet, Knows, Todo
<1>2. PICK p : /\ DOMAIN rec.got = {p} /\ p \notin ids /\ ~IsLine(rec.got[p])
               /\ rec.got[p].ends[1] \notin Spots(Range(objs))
               /\ Todo(rec) \subseteq {Delete({p})} /\ rec.stages = <<>>
               /\ Todo(rec) # {} => p \in DOMAIN server /\ server[p] = rec.got[p]
  BY <1>1 DEF Unsplitter
<1>3. q = Delete({p}) /\ p \in DOMAIN server /\ server[p] = rec.got[p]
  BY <1>1, <1>2
<1>4. q.do = "delete" /\ q.ids = {p}
  BY <1>3 DEF Delete
<1>5. ASSUME NEW l \in Linked(server, p) PROVE FALSE
  <2>1. l \in DOMAIN server /\ IsLine(server[l]) /\ rec.got[p].ends[1] \in Range(server[l].ends)
    BY <1>2, <1>3, <1>5 DEF Linked
  <2>2. CASE l \in ids
    <3>1. l \in DOMAIN objs /\ Upserted(server[l], objs[l]) = server[l]
      BY <1>1, <2>2 DEF Unsplitter
    <3>2. server[l] \in Obj(edits) /\ objs[l] \in Part(edits)
      BY <2>1, <3>1 DEF TypeInv, MapsTyped, OpsTyped, OpTyped, EntryTyped, Map
    <3>3. server[l].ends = objs[l].ends
      BY <3>1, <3>2, OverEnds
    <3>4. Range(server[l].ends) \subseteq Spots(Range(objs))
      BY <3>1, <3>3 DEF Spots, Range
    <3>5. QED
      BY <1>2, <2>1, <3>4
  <2>3. CASE l \notin ids
    <3>1. l # p
      BY <1>2, <1>3, <2>1
    <3>2. l \in DOMAIN server \ Mine(rec)
      BY <1>2, <2>1, <2>3, <3>1 DEF Mine
    <3>3. Safe(server[l], rec, server)
      BY <3>2 DEF Discreet
    <3>4. p \in Targets(rec)
      BY <1>1, <1>4 DEF Targets
    <3>5. rec.got[p].ends[1] \in Doors(rec, server)
      BY <1>2, <1>3, <3>4 DEF Doors
    <3>6. QED
      BY <2>1, <3>3, <3>5 DEF Safe
  <2>4. QED
    BY <2>2, <2>3
<1>6. Expand(server, {p}) = {p}
  BY <1>5 DEF Expand
<1>7. server' = Removed(server, {p})
  BY <1>4, <1>6 DEF Apply
<1>8. p \notin DOMAIN server' /\ \A i \in DOMAIN server \ {p} : i \in DOMAIN server' /\ server'[i] = server[i]
  BY <1>7 DEF Removed, Only
<1>9. r.entry = rec.entry /\ r.err = rec.err /\ r.stages = <<>> /\ Todo(r) = {}
  <2>1. rec.stages = <<>> /\ rec.sent \subseteq {q}
    BY <1>2, <1>3 DEF Todo
  <2>2. QED
    BY <2>1 DEF Answered
<1>10. r.got = rec.got
  <2>1. r.got = Upserted(rec.got, None)
    BY <1>4 DEF Answered
  <2>2. r.got = [i \in DOMAIN rec.got |-> rec.got[i]]
    BY <2>1, NoMap DEF Upserted
  <2>3. Map(rec.got, Obj(edits), nextId)
    BY DEF TypeInv, OpsTyped, OpTyped
  <2>4. QED
    BY <2>2, <2>3 DEF Map
<1>11. Unsplitter(r, server')
  <2>1. ids \subseteq DOMAIN server' /\ \A i \in ids : server'[i] = server[i]
    BY <1>1, <1>2, <1>8 DEF Unsplitter
  <2> HIDE DEF rec
  <2>2. QED
    BY <1>1, <1>2, <1>8, <1>9, <1>10, <2>1 DEF Unsplitter
<1>12. QED
  BY <1>2, <1>7, <1>9, <1>10, <1>11

-------------------------------------------------------------------------------
(* An undo.                                                                   *)

\* The ids of what a coroutine is about have been handed out.
LEMMA KnownIds ==
  ASSUME TypeInv, NEW o \in Ops
  PROVE  /\ op[o].entry.ids \subseteq Nat /\ op[o].entry.ids \subseteq 1..(nextId - 1)
         /\ DOMAIN op[o].got \subseteq 1..(nextId - 1)
         /\ DOMAIN server \subseteq 1..(nextId - 1) /\ nextId \in Nat /\ nextId \notin 1..(nextId - 1)
BY DEF TypeInv, OpsTyped, OpTyped, EntryTyped, MapsTyped, Map

\* What an undo under way finds: all it has not put right it will.
Underway(rec, sv) ==
  LET e == rec.entry IN
  /\ \A i \in DOMAIN e.objs : /\ i \in DOMAIN sv
                              /\ \/ Update(i, e.objs[i]) \in Todo(rec)
                                 \/ Upserted(sv[i], e.objs[i]) = sv[i]
  /\ \A i \in e.ids \ DOMAIN e.objs : i \in DOMAIN sv => Delete({i}) \in Todo(rec)

\* An undo that can still succeed has done some of its work and has the rest to do.
LEMMA UndoerUnderway ==
  ASSUME NEW rec, rec.kind = "undo", Undoer(rec, server), ~Hopeless(rec), rec.entry.ids \subseteq Nat,
         rec.entry.undo # "restore", rec.applied \/ rec.err = "none"
  PROVE  Underway(rec, server)
<1> DEFINE e == rec.entry
<1>1. CASE rec.applied
  BY <1>1 DEF Undoer, Underway
<1>2. CASE ~rec.applied
  <2>1. Todo(rec) = UndoReqs(e) /\ EntryOK(e)
    BY <1>2 DEF Undoer
  <2>2. UndoReqs(e) = {Update(i, e.objs[i]) : i \in DOMAIN e.objs} \cup {Delete({i}) : i \in e.ids \ DOMAIN e.objs}
    BY <2>1, UndoAsks
  <2>3. ASSUME NEW i \in DOMAIN e.objs PROVE i \in DOMAIN server /\ Update(i, e.objs[i]) \in Todo(rec)
    <3>1. Update(i, e.objs[i]) \in UndoReqs(e) /\ i \in Update(i, e.objs[i]).ids \cap e.ids
      BY <2>1, <2>2 DEF Update, EntryOK
    <3>2. ~Vain(Update(i, e.objs[i]), e)
      BY <1>2, <2>1, <3>1 DEF Hopeless
    <3>3. QED
      BY <2>1, <3>1, <3>2 DEF Vain
  <2>4. QED
    BY <2>1, <2>2, <2>3 DEF Underway
<1>3. QED
  BY <1>1, <1>2

\* The requests of an undo that deletes nothing it has not made.
LEMMA UndoRequest ==
  ASSUME NEW e, EntryOK(e), e.ids \subseteq Nat, NEW q \in UndoReqs(e)
  PROVE  /\ q.do \in {"update", "delete", "create"} /\ q.ids \subseteq e.ids
         /\ q.do = "create" <=> e.undo = "restore"
         /\ q.do = "update" => \E i \in DOMAIN e.objs : q = Update(i, e.objs[i]) /\ q.ids = {i}
            /\ Carried(q) = {e.objs[i]}
         /\ q.do = "delete" => \E i \in e.ids \ DOMAIN e.objs : q = Delete({i}) /\ q.ids = {i}
            /\ Carried(q) = {}
         /\ q.do = "create" => \E i \in e.ids : q = Restore(i, e.objs[i]) /\ q.objs = <<e.objs[i]>>
            /\ Carried(q) = {e.objs[i]}
<1>1. CASE e.undo = "restore"
  <2>1. PICK i \in e.ids : q = Restore(i, e.objs[i])
    BY <1>1, UndoAsks
  <2>2. q.do = "create" /\ q.ids = {} /\ q.objs = <<e.objs[i]>>
    BY <2>1 DEF Restore
  <2>3. Carried(q) = {e.objs[i]}
    BY <2>2 DEF Carried, Range
  <2>4. QED
    BY <1>1, <2>1, <2>2, <2>3
<1>2. CASE e.undo # "restore"
  <2>1. q \in {Update(i, e.objs[i]) : i \in DOMAIN e.objs} \cup {Delete({i}) : i \in e.ids \ DOMAIN e.objs}
    BY <1>2, UndoAsks
  <2>2. CASE \E i \in DOMAIN e.objs : q = Update(i, e.objs[i])
    <3>1. PICK i \in DOMAIN e.objs : q = Update(i, e.objs[i])
      BY <2>2
    <3>2. q.do = "update" /\ q.ids = {i} /\ q.objs[1] = e.objs[i]
      BY <3>1 DEF Update
    <3>3. Carried(q) = {e.objs[i]} /\ i \in e.ids
      BY <3>2 DEF Carried, EntryOK
    <3>4. QED
      BY <1>2, <3>1, <3>2, <3>3
  <2>3. CASE \E i \in e.ids \ DOMAIN e.objs : q = Delete({i})
    <3>1. PICK i \in e.ids \ DOMAIN e.objs : q = Delete({i})
      BY <2>3
    <3>2. q.do = "delete" /\ q.ids = {i}
      BY <3>1 DEF Delete
    <3>3. Carried(q) = {}
      BY <3>2 DEF Carried
    <3>4. QED
      BY <1>2, <3>1, <3>2, <3>3
  <2>4. QED
    BY <2>1, <2>2, <2>3
<1>3. QED
  BY <1>1, <1>2

\* What a served request of an undo does: one object is put back, deleted or made again.
PutBack(o, i) ==
  LET obj == op[o].entry.objs[i] IN
  /\ i \in DOMAIN op[o].entry.objs /\ i \in DOMAIN server
  /\ DOMAIN server' = DOMAIN server /\ server'[i] = Upserted(server[i], obj)
  /\ \A j \in DOMAIN server \ {i} : server'[j] = server[j]
  /\ nextId' = nextId
TakenOut(o, i) ==
  /\ i \in op[o].entry.ids \ DOMAIN op[o].entry.objs /\ i \in DOMAIN server
  /\ DOMAIN server' = DOMAIN server \ {i}
  /\ \A j \in DOMAIN server \ {i} : server'[j] = server[j]
  /\ nextId' = nextId
MadeAgain(o, i) ==
  /\ i \in op[o].entry.ids
  /\ DOMAIN server' = DOMAIN server \cup {nextId} /\ server'[nextId] = op[o].entry.objs[i]
  /\ \A j \in DOMAIN server : server'[j] = server[j]
  /\ nextId' = nextId + 1

\* What is made again is answered, and its request done with.
Remade(o, i, q, r) ==
  /\ MadeAgain(o, i) /\ q = Restore(i, op[o].entry.objs[i]) /\ Carried(q) = {op[o].entry.objs[i]}
  /\ op[o].entry.undo = "restore" /\ Todo(r) = Todo(op[o]) \ {q}
  /\ DOMAIN r.got = DOMAIN op[o].got \cup {nextId}
  /\ r.got[nextId] = server'[nextId] /\ \A j \in DOMAIN op[o].got : r.got[j] = op[o].got[j]

\* What it has put back is at no place of a point it will delete.
Unhinged(rec, sv) ==
  \A i \in DOMAIN rec.entry.objs :
    /\ i \in DOMAIN sv /\ IsLine(sv[i]) /\ Upserted(sv[i], rec.entry.objs[i]) = sv[i]
    => Range(sv[i].ends) \cap Doors(rec, sv) = {}

\* What an undo that was answered is.
LEMMA UndoerGoesOn ==
  ASSUME Discreet, TypeInv, NEW o \in Ops, op[o].kind = "undo", NEW q \in op[o].sent,
         NEW r, NEW got, Answered(r, op[o], q, got), Follows(r, op[o], q),
         ~Hopeless(op[o]), ~Hopeless(r)'
  PROVE  /\ op[o].err = "none" /\ Undoer(op[o], server) /\ q \in Todo(op[o])
         /\ EntryOK(op[o].entry) /\ q \in UndoReqs(op[o].entry) /\ op[o].entry.ids \subseteq Nat
         /\ r.kind = "undo" /\ r.entry = op[o].entry /\ r.applied /\ Todo(r) \subseteq UndoReqs(op[o].entry)
         /\ \A t \in Todo(r) : \A i \in t.ids \cap op[o].entry.ids : i \in DOMAIN server'
<1>1. Knows(op[o], server) /\ q \in Todo(op[o])
  BY DEF Discreet, Todo
<1>2. Undoer(op[o], server) /\ op[o].err # "refetch"
  BY <1>1 DEF Knows
<1>3. r.kind = "undo" /\ r.entry = op[o].entry /\ r.applied /\ r.err = op[o].err
      /\ Todo(r) \subseteq Todo(op[o])
  BY DEF Answered
<1>4. op[o].err = "none"
  BY <1>1, <1>2, <1>3 DEF Hopeless, Knows
<1>5. op[o].entry.ids \subseteq Nat /\ Todo(r) \subseteq UndoReqs(op[o].entry)
  BY <1>2, <1>3, KnownIds DEF Undoer
<1>6. \A t \in Todo(r) : \A i \in t.ids \cap op[o].entry.ids : i \in DOMAIN server'
  BY <1>3, <1>4, <1>5 DEF Hopeless, Vain
<1>7. QED
  BY <1>1, <1>2, <1>3, <1>4, <1>5, <1>6 DEF Undoer

\* An update of an undo puts one object back.
LEMMA UndoUpdates ==
  ASSUME Discreet, TypeInv, NEW o \in Ops, op[o].kind = "undo", NEW q \in op[o].sent, Found(q), Apply(q),
         q.do = "update",
         NEW r, NEW got, Answered(r, op[o], q, got), Follows(r, op[o], q),
         ~Hopeless(op[o]), ~Hopeless(r)'
  PROVE  /\ Undoer(r, server') /\ Laid(r, op[o], q)
         /\ \E i : PutBack(o, i) /\ q = Update(i, op[o].entry.objs[i])
<1> DEFINE rec == op[o]
           e == rec.entry
<1>1. /\ rec.err = "none" /\ Undoer(rec, server) /\ q \in Todo(rec)
      /\ EntryOK(e) /\ q \in UndoReqs(e) /\ e.ids \subseteq Nat
      /\ r.kind = "undo" /\ r.entry = e /\ r.applied /\ Todo(r) \subseteq UndoReqs(e)
  BY UndoerGoesOn
<1>2. Laid(r, rec, q)
  BY UpdateServed
<1>3. PICK i \in DOMAIN e.objs : q = Update(i, e.objs[i]) /\ q.ids = {i}
  BY <1>1, UndoRequest
<1>4. q.objs[1] = e.objs[i]
  BY <1>3 DEF Update
<1>5. e.undo # "restore"
  BY <1>1, UndoRequest
<1>6. Underway(rec, server) /\ ~Hopeless(rec)
  BY <1>1, <1>5, UndoerUnderway
<1> HIDE DEF rec
<1>7. /\ DOMAIN server' = DOMAIN server /\ i \in DOMAIN server
      /\ \A j \in DOMAIN server \ {i} : server'[j] = server[j]
      /\ server'[i] = Upserted(server[i], e.objs[i])
      /\ DOMAIN r.got = DOMAIN rec.got \cup {i}
  BY <1>2, <1>3, <1>4 DEF Laid
<1>8. nextId' = nextId
  BY DEF Apply
<1>9. Todo(rec) \ {q} \subseteq Todo(r)
  BY DEF Answered, rec
<1>10. \A j \in DOMAIN e.objs : j \in DOMAIN server' /\
         (Update(j, e.objs[j]) \in Todo(r) \/ Upserted(server'[j], e.objs[j]) = server'[j])
  <2>1. Upserted(server'[i], e.objs[i]) = server'[i]
    BY <1>7, OverAgain
  <2>2. ASSUME NEW j \in DOMAIN e.objs, j # i
        PROVE  j \in DOMAIN server' /\
               (Update(j, e.objs[j]) \in Todo(r) \/ Upserted(server'[j], e.objs[j]) = server'[j])
    <3>1. j \in DOMAIN server /\ server'[j] = server[j]
      BY <1>6, <1>7, <2>2 DEF Underway
    <3>2. Update(j, e.objs[j]) # q
      <4>1. Update(j, e.objs[j]).ids = {j}
        BY DEF Update
      <4>2. QED
        BY <1>3, <2>2, <4>1
    <3>3. QED
      BY <1>6, <1>7, <1>9, <3>1, <3>2 DEF Underway
  <2>3. QED
    BY <1>7, <2>1, <2>2
<1>11. \A j \in e.ids \ DOMAIN e.objs : j \in DOMAIN server' => Delete({j}) \in Todo(r)
  <2>1. \A j : Delete({j}) # q
    BY <1>3 DEF Delete, Update
  <2>2. QED
    BY <1>6, <1>7, <1>9, <2>1 DEF Underway
<1>12. DOMAIN r.got \subseteq e.ids
  BY <1>1, <1>5, <1>7 DEF Undoer, EntryOK
<1>13. Undoer(r, server')
  BY <1>1, <1>5, <1>10, <1>11, <1>12 DEF Undoer
<1>14. PutBack(o, i)
  BY <1>7, <1>8 DEF PutBack, rec
<1>15. QED
  BY <1>2, <1>3, <1>13, <1>14 DEF rec

\* A delete of an undo takes out one object that the edit made.
LEMMA UndoDeletes ==
  ASSUME Discreet, TypeInv, NEW o \in Ops, op[o].kind = "undo", NEW q \in op[o].sent, Found(q), Apply(q),
         q.do = "delete", Unhinged(op[o], server),
         NEW r, NEW got, Answered(r, op[o], q, got), Follows(r, op[o], q),
         ~Hopeless(op[o]), ~Hopeless(r)'
  PROVE  /\ Undoer(r, server') /\ DOMAIN r.got = DOMAIN op[o].got
         /\ \A j \in DOMAIN r.got : r.got[j] = op[o].got[j]
         /\ \E i : TakenOut(o, i) /\ q = Delete({i})
<1> DEFINE rec == op[o]
           e == rec.entry
<1>1. /\ rec.err = "none" /\ Undoer(rec, server) /\ q \in Todo(rec)
      /\ EntryOK(e) /\ q \in UndoReqs(e) /\ e.ids \subseteq Nat
      /\ r.kind = "undo" /\ r.entry = e /\ r.applied /\ Todo(r) \subseteq UndoReqs(e)
      /\ \A t \in Todo(r) : \A i \in t.ids \cap e.ids : i \in DOMAIN server'
  BY UndoerGoesOn
<1>2. PICK i \in e.ids \ DOMAIN e.objs : q = Delete({i}) /\ q.ids = {i}
  BY <1>1, UndoRequest
<1>3. e.undo # "restore" /\ i \in DOMAIN server
  BY <1>1, <1>2, UndoRequest DEF Found
<1>4. Underway(rec, server)
  BY <1>1, <1>3, UndoerUnderway
<1>5. server' = Removed(server, Expand(server, {i})) /\ nextId' = nextId
  BY <1>2 DEF Apply
<1>6. ASSUME NEW l \in Linked(server, i) PROVE FALSE
  <2>1. /\ l \in DOMAIN server /\ IsLine(server[l]) /\ ~IsLine(server[i])
        /\ server[i].ends[1] \in Range(server[l].ends) /\ l # i
    BY <1>6 DEF Linked
  <2>2. server[i].ends[1] \in Doors(rec, server)
    <3>1. i \in Targets(rec)
      BY <1>1, <1>2 DEF Targets
    <3>2. QED
      BY <1>3, <2>1, <3>1 DEF Doors
  <2>3. l \notin DOMAIN server'
    BY <1>5, <1>6 DEF Removed, Only, Expand
  <2>4. Todo(rec) \ {q} \subseteq Todo(r)
    BY DEF Answered
  <2>5. CASE l \notin Mine(rec)
    <3>1. Safe(server[l], rec, server)
      BY <2>1, <2>5 DEF Discreet
    <3>2. QED
      BY <2>1, <2>2, <3>1 DEF Safe
  <2>6. CASE l \in DOMAIN e.objs
    <3>1. Update(l, e.objs[l]) \in Todo(rec) \/ Upserted(server[l], e.objs[l]) = server[l]
      BY <1>4, <2>6 DEF Underway
    <3>2. Upserted(server[l], e.objs[l]) # server[l]
      BY <2>1, <2>2, <2>6 DEF Unhinged
    <3>3. Update(l, e.objs[l]) # q /\ l \in Update(l, e.objs[l]).ids /\ l \in e.ids
      BY <1>1, <1>2, <2>6 DEF Update, Delete, EntryOK
    <3>4. QED
      BY <1>1, <2>3, <2>4, <3>1, <3>2, <3>3
  <2>7. CASE l \in e.ids \ DOMAIN e.objs
    <3>1. Delete({l}) \in Todo(rec)
      BY <1>4, <2>1, <2>7 DEF Underway
    <3>2. Delete({l}).ids = {l}
      BY DEF Delete
    <3>3. QED
      BY <1>1, <1>2, <2>1, <2>3, <2>4, <2>7, <3>1, <3>2
  <2>8. DOMAIN rec.got \subseteq e.ids
    BY <1>1, <1>3 DEF Undoer
  <2>9. QED
    BY <2>5, <2>6, <2>7, <2>8 DEF Mine
<1>7. Expand(server, {i}) = {i}
  BY <1>6 DEF Expand
<1>8. /\ DOMAIN server' = DOMAIN server \ {i}
      /\ \A j \in DOMAIN server \ {i} : server'[j] = server[j]
  BY <1>5, <1>7 DEF Removed, Only
<1>9. DOMAIN r.got = DOMAIN rec.got /\ \A j \in DOMAIN r.got : r.got[j] = rec.got[j]
  BY <1>2, NoMap DEF Answered, Delete, Upserted
<1>10. TakenOut(o, i)
  BY <1>3, <1>5, <1>8 DEF TakenOut
<1> HIDE DEF rec
<1>11. Todo(rec) \ {q} \subseteq Todo(r)
  BY DEF Answered, rec
<1>12. \A j \in DOMAIN e.objs : j \in DOMAIN server' /\
         (Update(j, e.objs[j]) \in Todo(r) \/ Upserted(server'[j], e.objs[j]) = server'[j])
  <2>1. \A j : Update(j, e.objs[j]) # q
    BY <1>2 DEF Update, Delete
  <2>2. \A j \in DOMAIN e.objs : j # i
    BY <1>2
  <2>3. QED
    BY <1>4, <1>8, <1>11, <2>1, <2>2 DEF Underway
<1>13. \A j \in e.ids \ DOMAIN e.objs : j \in DOMAIN server' => Delete({j}) \in Todo(r)
  <2>1. ASSUME NEW j, j # i PROVE Delete({j}) # q
    <3>1. Delete({j}).ids = {j}
      BY DEF Delete
    <3>2. QED
      BY <1>2, <2>1, <3>1
  <2>2. QED
    BY <1>4, <1>8, <1>11, <2>1 DEF Underway
<1>14. Undoer(r, server')
  BY <1>1, <1>3, <1>9, <1>12, <1>13 DEF Undoer
<1>15. QED
  BY <1>2, <1>9, <1>10, <1>14 DEF rec

\* A create of an undo remakes one object that was deleted, under a new id.
LEMMA UndoRestores ==
  ASSUME Discreet, TypeInv, NEW o \in Ops, op[o].kind = "undo", NEW q \in op[o].sent, Apply(q),
         q.do = "create",
         NEW r, NEW got, Answered(r, op[o], q, got), Follows(r, op[o], q),
         ~Hopeless(op[o]), ~Hopeless(r)'
  PROVE  Undoer(r, server') /\ \E i : Remade(o, i, q, r)
<1> DEFINE rec == op[o]
           e == rec.entry
<1>1. /\ rec.err = "none" /\ Undoer(rec, server) /\ q \in Todo(rec)
      /\ EntryOK(e) /\ q \in UndoReqs(e) /\ e.ids \subseteq Nat
      /\ r.kind = "undo" /\ r.entry = e /\ r.applied /\ Todo(r) \subseteq UndoReqs(e)
  BY UndoerGoesOn
<1>2. PICK i \in e.ids : q = Restore(i, e.objs[i]) /\ q.objs = <<e.objs[i]>> /\ Carried(q) = {e.objs[i]}
  BY <1>1, UndoRequest
<1>3. e.undo = "restore"
  BY <1>1, UndoRequest
<1>4. /\ e.ids \subseteq 1..(nextId - 1) /\ DOMAIN rec.got \subseteq 1..(nextId - 1)
      /\ DOMAIN server \subseteq 1..(nextId - 1) /\ nextId \in Nat /\ nextId \notin 1..(nextId - 1)
  BY KnownIds
<1> DEFINE made == Made(q)
<1>5. DOMAIN made = {nextId} /\ made[nextId] = e.objs[i]
  <2>1. Len(q.objs) = 1 /\ q.objs[1] = e.objs[i]
    BY <1>2
  <2>2. nextId..(nextId + 1 - 1) = {nextId} /\ nextId - nextId + 1 = 1
    BY <1>4
  <2>3. QED
    BY <2>1, <2>2 DEF Made
<1>6. server' = Upserted(server, made) /\ r.got = Upserted(rec.got, made) /\ nextId' = nextId + 1
  <2>1. Len(q.objs) = 1
    BY <1>2
  <2>2. QED
    BY <2>1 DEF Apply, Answered
<1> HIDE DEF made
<1>7. /\ DOMAIN server' = DOMAIN server \cup {nextId} /\ server'[nextId] = e.objs[i]
      /\ \A j \in DOMAIN server : server'[j] = server[j]
      /\ DOMAIN r.got = DOMAIN rec.got \cup {nextId} /\ r.got[nextId] = e.objs[i]
      /\ \A j \in DOMAIN rec.got : r.got[j] = rec.got[j]
  BY <1>4, <1>5, <1>6 DEF Upserted
<1>8. MadeAgain(o, i)
  BY <1>6, <1>7 DEF MadeAgain
<1>9. e.ids \cap DOMAIN server' = {} /\ DOMAIN r.got \subseteq DOMAIN server'
  BY <1>1, <1>3, <1>4, <1>7 DEF Undoer
<1>10. r.stages = <<>> \/ \E T : r.stages = <<T>> /\ r.sent \cap T = {}
  <2>1. rec.stages = <<>> \/ \E T : rec.stages = <<T>> /\ rec.sent \cap T = {}
    BY <1>1, <1>3 DEF Undoer
  <2>2. rec.stages = <<>> => r.stages = <<>>
    BY DEF Answered
  <2>3. QED
    BY <2>1, <2>2 DEF Follows
<1>11. Todo(r) = Todo(rec) \ {q}
  <2>1. Todo(r) = (rec.sent \ {q}) \cup Requests(rec.stages)
    BY DEF Follows
  <2>2. q \notin Requests(rec.stages)
    <3>1. CASE rec.stages = <<>>
      BY <3>1, NoStages
    <3>2. ASSUME NEW T, rec.stages = <<T>>, rec.sent \cap T = {} PROVE q \notin Requests(rec.stages)
      BY <3>2, OneStage
    <3>3. QED
      BY <1>1, <1>3, <3>1, <3>2 DEF Undoer
  <2>3. QED
    BY <2>1, <2>2 DEF Todo
<1>12. Undoer(r, server')
  BY <1>1, <1>3, <1>9, <1>10 DEF Undoer
<1>13. Remade(o, i, q, r)
  BY <1>2, <1>3, <1>7, <1>8, <1>11 DEF Remade
<1>14. QED
  BY <1>12, <1>13

-------------------------------------------------------------------------------
(* Coroutines keep to themselves when requests are served and answered.       *)

\* A request of a coroutine fails.
LEMMA FailedKnows ==
  ASSUME NEW rec, NEW sv, Knows(rec, sv), DOMAIN rec = DOMAIN Free, NEW q \in rec.sent,
         NEW r, r = Failed(rec, q), ~(rec.kind = "undo" /\ rec.applied)
  PROVE  /\ Knows(r, sv) /\ Todo(r) \subseteq Todo(rec) /\ Mine(r) = Mine(rec) /\ r.kind = rec.kind
         /\ r.entry = rec.entry /\ r.got = rec.got /\ r.err = "failed" /\ r.applied = rec.applied
<1>1. /\ r.sent = rec.sent \ {q} /\ r.err = "failed" /\ r.stages = rec.stages /\ r.kind = rec.kind
      /\ r.entry = rec.entry /\ r.got = rec.got /\ r.applied = rec.applied
  BY DEF Failed, Free
<1> HIDE DEF Failed
<1>2. Todo(r) \subseteq Todo(rec) /\ q \in Todo(rec) /\ Mine(r) = Mine(rec)
  BY <1>1 DEF Todo, Mine
<1>3. Load(r) \subseteq Load(rec) /\ Targets(r) \subseteq Targets(rec)
  BY <1>2, TodoLess
<1>4. rec.kind # "free"
  BY <1>2, FreeIsSafe DEF Knows
<1>5. Single(rec) => Single(r)
  <2>1. Single(rec) => rec.sent = {q} /\ ~rec.applied /\ rec.stages = <<>>
    BY DEF Single
  <2>2. QED
    BY <1>1, <2>1 DEF Single
<1>6. ASSUME NEW sent, NEW stages, \E x : sent \subseteq {x}, Awaits(rec, sent, stages)
      PROVE  Awaits(r, sent, stages)
  <2>1. rec.sent = {q}
    BY <1>6 DEF Awaits
  <2>2. QED
    BY <1>1, <2>1 DEF Awaits
<1>7. ASSUME Changer(rec, sv) PROVE Changer(r, sv)
  <2>1. ASSUME Uncut(rec) PROVE Uncut(r)
    <3>1. PICK c, u, d : /\ Making(c) /\ ~IsLine(c.objs[1]) /\ Cutting(rec, u) /\ Making(d)
                         /\ Awaits(rec, {c}, <<{u}, {d}>>)
      BY <2>1 DEF Uncut
    <3>2. Awaits(r, {c}, <<{u}, {d}>>)
      BY <1>6, <3>1
    <3>3. Cutting(r, u) /\ DOMAIN r.got = {} /\ ~r.applied
      BY <1>1, <2>1, <3>1 DEF Cutting, Uncut
    <3>4. QED
      BY <3>1, <3>2, <3>3 DEF Uncut
  <2>2. ASSUME Pointed(rec) PROVE Pointed(r)
    <3>1. PICK p : /\ p \notin rec.entry.ids /\ DOMAIN rec.got = {p} /\ ~IsLine(rec.got[p]) /\ rec.applied
                   /\ \E u, d : Cutting(rec, u) /\ Making(d) /\ Awaits(rec, {u}, <<{d}>>)
      BY <2>2 DEF Pointed
    <3>2. PICK u, d : Cutting(rec, u) /\ Making(d) /\ Awaits(rec, {u}, <<{d}>>)
      BY <3>1
    <3>3. Awaits(r, {u}, <<{d}>>) /\ Cutting(r, u)
      BY <1>1, <1>6, <3>2 DEF Cutting
    <3>4. QED
      BY <1>1, <3>1, <3>2, <3>3 DEF Pointed
  <2>3. ASSUME Cut(rec) PROVE Cut(r)
    <3>1. PICK p : /\ p \notin rec.entry.ids /\ DOMAIN rec.got = {p} \cup rec.entry.ids /\ rec.applied
                   /\ \E d : Making(d) /\ Awaits(rec, {d}, <<>>)
      BY <2>3 DEF Cut
    <3>2. PICK d : Making(d) /\ Awaits(rec, {d}, <<>>)
      BY <3>1
    <3>3. Awaits(r, {d}, <<>>)
      BY <1>6, <3>2
    <3>4. QED
      BY <1>1, <3>1, <3>2, <3>3 DEF Cut
  <2>4. ASSUME InTwo(rec) PROVE FALSE
    BY <2>4 DEF InTwo, Awaits
  <2>5. rec.kind = "split" => Uncut(r) \/ Pointed(r) \/ Cut(r) \/ InTwo(r)
    BY <1>7, <2>1, <2>2, <2>3, <2>4 DEF Changer, Formed
  <2>6. /\ rec.kind \in {"detail", "place", "paste"} => Single(r)
        /\ rec.kind \in {"place", "paste"} => rec.entry = NoEntry /\ (r.applied => DOMAIN r.got # {})
    BY <1>1, <1>5, <1>7 DEF Changer, Formed
  <2>7. Formed(r)
    BY <1>1, <1>7, <2>5, <2>6 DEF Changer, Formed
  <2>8. QED
    BY <1>1, <1>2, <1>7, <2>7 DEF Changer
<1>8. ASSUME Deleter(rec, sv) PROVE Deleter(r, sv)
  BY <1>1, <1>2, <1>5, <1>8 DEF Deleter
<1>9. ASSUME Unsplitter(rec, sv) PROVE Unsplitter(r, sv)
  <2>1. PICK p : /\ DOMAIN rec.got = {p} /\ p \notin rec.entry.ids /\ ~IsLine(rec.got[p])
                 /\ rec.got[p].ends[1] \notin Spots(Range(rec.entry.objs))
                 /\ Todo(rec) \subseteq {Delete({p})} /\ rec.stages = <<>>
                 /\ Todo(rec) # {} => p \in DOMAIN sv /\ sv[p] = rec.got[p]
    BY <1>9 DEF Unsplitter
  <2>2. Todo(r) \subseteq {Delete({p})} /\ (Todo(r) # {} => p \in DOMAIN sv /\ sv[p] = rec.got[p])
    BY <1>2, <2>1
  <2>3. QED
    BY <1>1, <1>9, <2>1, <2>2 DEF Unsplitter
<1>10. ASSUME Undoer(rec, sv), ~rec.applied PROVE Undoer(r, sv)
  <2>1. /\ EntryOK(rec.entry) /\ UndoReqs(rec.entry) # {} /\ Todo(r) \subseteq UndoReqs(rec.entry)
        /\ DOMAIN r.got = {}
    BY <1>1, <1>2, <1>10 DEF Undoer
  <2>2. r.stages = <<>> \/ (\E T : r.stages = <<T>> /\ r.sent \cap T = {}) \/ rec.entry.undo # "restore"
    BY <1>1, <1>10 DEF Undoer
  <2>3. rec.entry.undo = "restore" => rec.entry.ids \cap DOMAIN sv = {} /\ DOMAIN r.got \subseteq DOMAIN sv
    BY <1>1, <1>10 DEF Undoer
  <2>4. QED
    BY <1>1, <1>10, <2>1, <2>2, <2>3 DEF Undoer
<1>11. QED
  BY <1>1, <1>2, <1>3, <1>4, <1>7, <1>8, <1>9, <1>10 DEF Knows

\* A request that fails leaves the coroutines discreet.
LEMMA FailureDiscreet ==
  ASSUME Discreet, TypeInv, NEW o \in Ops, NEW q \in op[o].sent,
         op' = [op EXCEPT ![o] = Failed(op[o], q)], server' = server, ~Doomed'
  PROVE  Discreet'
<1> DEFINE rec == op[o]
           r == Failed(rec, q)
<1>1. Turns(o, r) /\ op'[o] = r
  BY OneTurnsTo DEF TypeInv, Turns
<1>2. DOMAIN rec = DOMAIN Free /\ q \in rec.sent /\ Knows(rec, server)
  BY DEF TypeInv, OpsTyped, OpTyped, Discreet
<1>3. r.applied = rec.applied /\ r.err = "failed" /\ r.kind = rec.kind
  BY <1>2 DEF Failed, Free
<1>4. ~(rec.kind = "undo" /\ rec.applied)
  <2>1. ~Hopeless(op[o])'
    BY DEF Doomed
  <2>2. ~(r.kind = "undo" /\ r.applied /\ r.err = "failed")
    BY <1>1, <2>1 DEF Hopeless
  <2>3. QED
    BY <1>3, <2>2
<1> HIDE DEF r
<1>5. /\ Knows(r, server) /\ Todo(r) \subseteq Todo(rec) /\ Mine(r) = Mine(rec) /\ r.kind = rec.kind
      /\ r.entry = rec.entry /\ r.got = rec.got
  BY <1>2, <1>4, FailedKnows DEF r
<1>6. Brings(r) \subseteq Brings(rec)
  BY <1>5, TodoLess, BringsLess
<1>7. QED
  BY <1>1, <1>5, <1>6, OneGoesOnSafely

\* A request of a coroutine is carried out and answered.
LEMMA SuccessDiscreet ==
  ASSUME Discreet, TypeInv, NEW o \in Ops, NEW q \in op[o].sent, Found(q), Apply(q),
         NEW r \in GoOn(Served(op[o], q)), op' = [op EXCEPT ![o] = r], ~Doomed, ~Doomed',
         op[o].kind = "undo" => Unhinged(op[o], server)
  PROVE  Discreet'
<1> DEFINE rec == op[o]
<1>1. Turns(o, r) /\ op'[o] = r
  BY OneTurnsTo DEF TypeInv, Turns
<1>2. PICK got : Answered(r, rec, q, got)
  BY ServedGoesOn
<1>3. Follows(r, rec, q)
  BY ServedGoesOn
<1>4. ~Hopeless(rec) /\ ~Hopeless(r)'
  BY <1>1 DEF Doomed, Hopeless
<1>5. /\ Knows(rec, server) /\ q \in Todo(rec) /\ q \in rec.sent /\ rec.kind \in Kinds /\ rec.kind # "free"
      /\ q.do \in {"update", "delete", "create"}
  BY FreeIsSafe DEF Discreet, Todo, Knows, TypeInv, OpsTyped, OpTyped, RequestTyped
<1>6. r.kind = rec.kind /\ r.entry = rec.entry /\ Todo(r) \subseteq Todo(rec)
  BY <1>2 DEF Answered
<1>7. Load(r) \subseteq Load(rec) /\ Targets(r) \subseteq Targets(rec)
  BY <1>6, TodoLess
<1>8. /\ DOMAIN rec.got \subseteq 1..(nextId - 1) /\ rec.entry.ids \subseteq 1..(nextId - 1)
      /\ nextId \notin 1..(nextId - 1)
  BY KnownIds
<1> HIDE DEF rec
<1>9. ASSUME Laid(r, rec, q), q.ids \subseteq Mine(rec), q.ids \cap Targets(r) = {}, Knows(r, server')
      PROVE  Discreet'
  <2>1. /\ DOMAIN server' = DOMAIN server
        /\ \A i \in DOMAIN server \ q.ids : server'[i] = server[i]
        /\ \A i \in q.ids : i \in DOMAIN server /\ server'[i].ends = q.objs[1].ends
        /\ DOMAIN r.got = DOMAIN rec.got \cup q.ids
        /\ \A i \in q.ids : r.got[i] = server'[i]
        /\ \A i \in DOMAIN rec.got \ q.ids : r.got[i] = rec.got[i]
        /\ q.objs[1] \in Load(rec)
    BY <1>9 DEF Laid
  <2>2. Brings(r) \subseteq Brings(rec)
    BY <1>6, <1>7, <2>1, BringsLess
  <2>3. Mine(r) = Mine(rec)
    BY <1>6, <1>9, <2>1 DEF Mine
  <2>4. \A t \in Targets(r) \cap DOMAIN server' : t \in DOMAIN server /\ server'[t] = server[t]
    BY <1>9, <2>1
  <2>5. QED
    BY <1>1, <1>6, <1>9, <2>1, <2>2, <2>3, <2>4, OneGoesOnSafely DEF rec
<1>10. CASE rec.kind \in Changing
  <2>1. Changer(rec, server)
    BY <1>5, <1>10 DEF Knows
  <2>2. CASE q.do = "update"
    <3>1. Changer(r, server') /\ q.ids \subseteq rec.entry.ids /\ Laid(r, rec, q)
      BY <1>2, <1>3, <1>10, <2>2, ChangerUpdated DEF rec
    <3>2. Targets(r) = {}
      BY <1>6, <3>1, NoTargets DEF Changer, Formed
    <3>3. Knows(r, server')
      BY <1>2, <1>5, <1>10, <3>1, KnowsServed DEF Changing
    <3>4. QED
      BY <1>9, <3>1, <3>2, <3>3 DEF Mine
  <2>3. CASE q.do = "create"
    <3>1. /\ Changer(r, server')
          /\ \A j \in DOMAIN server : j \in DOMAIN server' /\ server'[j] = server[j]
          /\ \A j \in DOMAIN server' \ DOMAIN server :
               j \in DOMAIN r.got \ 1..(nextId - 1) /\ \E x \in Load(rec) : server'[j] = x
          /\ DOMAIN r.got \cap 1..(nextId - 1) = DOMAIN rec.got
          /\ \A j \in DOMAIN rec.got : r.got[j] = rec.got[j]
      BY <1>2, <1>3, <1>10, <2>3, ChangerCreated DEF rec
    <3>2. Targets(r) = {}
      BY <1>6, <3>1, NoTargets DEF Changer, Formed
    <3>3. Knows(r, server')
      BY <1>2, <1>5, <1>10, <3>1, KnowsServed DEF Changing
    <3>4. ASSUME NEW j \in DOMAIN r.got
          PROVE \/ j \in DOMAIN rec.got /\ r.got[j] = rec.got[j]
                \/ \E x \in Load(rec) : x.ends = r.got[j].ends
      <4>1. CASE j \in DOMAIN rec.got
        BY <3>1, <4>1
      <4>2. CASE j \notin DOMAIN rec.got
        <5>1. j \notin 1..(nextId - 1) /\ j \in DOMAIN server' /\ r.got[j] = server'[j]
          BY <3>1, <3>4, <4>2 DEF Changer, Formed
        <5>2. j \notin DOMAIN server
          BY <5>1, NewIds
        <5>3. QED
          BY <3>1, <5>1, <5>2
      <4>3. QED
        BY <4>1, <4>2
    <3>5. Brings(r) \subseteq Brings(rec)
      BY <1>6, <1>7, <3>4, BringsLess
    <3>6. Mine(rec) \subseteq Mine(r) /\ Mine(r) \cap 1..(nextId - 1) \subseteq Mine(rec)
      BY <1>6, <3>1 DEF Mine
    <3>7. \A i \in DOMAIN server' : \/ i \in DOMAIN server /\ server'[i] = server[i]
                                    \/ /\ i \in Mine(r)
                                       /\ \E x \in Load(rec) : x.ends = server'[i].ends
      BY <3>1 DEF Mine
    <3>8. DOMAIN server \ DOMAIN server' = {}
      BY <3>1
    <3>9. QED
      BY <1>1, <1>6, <3>2, <3>3, <3>5, <3>6, <3>7, <3>8, OneGoesOnSafely DEF rec
  <2>4. CASE q.do = "delete"
    BY <1>5, <2>1, <2>4 DEF Changer, Formed
  <2>5. QED
    BY <1>5, <2>2, <2>3, <2>4
<1>11. ASSUME NEW gone, gone \subseteq Mine(rec), DOMAIN server' = DOMAIN server \ gone,
              \A j \in DOMAIN server \ gone : server'[j] = server[j],
              DOMAIN r.got = DOMAIN rec.got, \A j \in DOMAIN r.got : r.got[j] = rec.got[j],
              Knows(r, server')
       PROVE  Discreet'
  <2>1. Brings(r) \subseteq Brings(rec)
    BY <1>6, <1>7, <1>11, BringsLess
  <2>2. Mine(r) = Mine(rec)
    BY <1>6, <1>11 DEF Mine
  <2>3. /\ \A i \in DOMAIN server' : i \in DOMAIN server /\ server'[i] = server[i]
        /\ DOMAIN server \ DOMAIN server' \subseteq Mine(rec)
    BY <1>11
  <2>4. QED
    BY <1>1, <1>6, <1>11, <2>1, <2>2, <2>3, OneGoesOnSafely DEF rec
<1>12. CASE rec.kind = "delete"
  <2>1. /\ Deleter(r, server') /\ DOMAIN r.got = {} /\ DOMAIN rec.got = {}
        /\ server' = Removed(server, rec.entry.ids) /\ rec.entry.ids \subseteq DOMAIN server
    <3>1. DOMAIN rec.got = {}
      BY <1>5, <1>12 DEF Knows, Deleter
    <3>2. /\ Deleter(r, server') /\ DOMAIN r.got = {}
          /\ server' = Removed(server, rec.entry.ids) /\ rec.entry.ids \subseteq DOMAIN server
      BY <1>2, <1>5, <1>12, DeleterAnswered DEF rec
    <3>3. QED
      BY <3>1, <3>2
  <2>2. Knows(r, server')
    BY <1>2, <1>5, <1>12, <2>1, KnowsServed DEF Changing
  <2>3. /\ DOMAIN server' = DOMAIN server \ rec.entry.ids
        /\ \A j \in DOMAIN server \ rec.entry.ids : server'[j] = server[j]
    BY <2>1 DEF Removed, Only
  <2>4. QED
    BY <1>11, <2>1, <2>2, <2>3 DEF Mine
<1>13. CASE rec.kind = "unsplit"
  <2>1. /\ Unsplitter(r, server') /\ r.got = rec.got
        /\ server' = Removed(server, DOMAIN rec.got)
    BY <1>2, <1>13, UnsplitterAnswered DEF rec
  <2>2. Knows(r, server')
    BY <1>2, <1>5, <1>13, <2>1, KnowsServed DEF Changing
  <2>3. /\ DOMAIN server' = DOMAIN server \ DOMAIN rec.got
        /\ \A j \in DOMAIN server \ DOMAIN rec.got : server'[j] = server[j]
    BY <2>1 DEF Removed, Only
  <2>4. QED
    BY <1>11, <2>1, <2>2, <2>3 DEF Mine
<1>14. CASE rec.kind = "undo"
  <2>1. /\ EntryOK(rec.entry) /\ q \in UndoReqs(rec.entry) /\ rec.entry.ids \subseteq Nat
        /\ Todo(r) \subseteq UndoReqs(rec.entry)
    BY <1>2, <1>3, <1>4, <1>14, UndoerGoesOn DEF rec
  <2>2. ASSUME NEW t \in Targets(r) PROVE t \in rec.entry.ids \ DOMAIN rec.entry.objs
    <3>1. PICK u \in Todo(r) : u.do = "delete" /\ t \in u.ids
      BY <2>2 DEF Targets
    <3>2. \E i \in rec.entry.ids \ DOMAIN rec.entry.objs : u = Delete({i}) /\ u.ids = {i} /\ Carried(u) = {}
      <4>1. u \in UndoReqs(rec.entry)
        BY <2>1, <3>1
      <4>2. QED
        BY <2>1, <3>1, <4>1, UndoRequest
    <3>3. QED
      BY <3>1, <3>2
  <2>3. CASE q.do = "update"
    <3>1. Undoer(r, server') /\ Laid(r, rec, q)
      BY <1>2, <1>3, <1>4, <1>14, <2>3, UndoUpdates DEF rec
    <3>2. \E i \in DOMAIN rec.entry.objs : q.ids = {i}
      BY <2>1, <2>3, UndoRequest
    <3>3. Knows(r, server')
      BY <1>2, <1>5, <1>14, <3>1, KnowsServed DEF Changing
    <3>4. q.ids \subseteq Mine(rec) /\ q.ids \cap Targets(r) = {}
      BY <2>1, <2>2, <3>2 DEF Mine, EntryOK
    <3>5. QED
      BY <1>9, <3>1, <3>3, <3>4
  <2>4. CASE q.do = "delete"
    <3>1. /\ Undoer(r, server') /\ DOMAIN r.got = DOMAIN rec.got
          /\ \A j \in DOMAIN r.got : r.got[j] = rec.got[j]
          /\ \E i : TakenOut(o, i)
      BY <1>2, <1>3, <1>4, <1>14, <2>4, UndoDeletes DEF rec
    <3>2. PICK i : TakenOut(o, i)
      BY <3>1
    <3>3. Knows(r, server')
      BY <1>2, <1>5, <1>14, <3>1, KnowsServed DEF Changing
    <3>4. /\ {i} \subseteq Mine(rec) /\ DOMAIN server' = DOMAIN server \ {i}
          /\ \A j \in DOMAIN server \ {i} : server'[j] = server[j]
      BY <3>2 DEF TakenOut, Mine, rec
    <3>5. QED
      BY <1>11, <3>1, <3>3, <3>4
  <2>5. CASE q.do = "create"
    <3>1. /\ Undoer(r, server') /\ DOMAIN r.got = DOMAIN rec.got \cup {nextId}
          /\ r.got[nextId] = server'[nextId] /\ \A j \in DOMAIN rec.got : r.got[j] = rec.got[j]
          /\ \E i : MadeAgain(o, i) /\ Carried(q) = {rec.entry.objs[i]}
      <4>1. op[o].kind = "undo" /\ Answered(r, op[o], q, got) /\ Follows(r, op[o], q) /\ ~Hopeless(op[o])
        BY <1>2, <1>3, <1>4, <1>14 DEF rec
      <4>2. Undoer(r, server') /\ \E i : Remade(o, i, q, r)
        BY <1>4, <2>5, <4>1, UndoRestores
      <4>3. QED
        BY <4>2 DEF rec, Remade
    <3>2. PICK i : MadeAgain(o, i) /\ Carried(q) = {rec.entry.objs[i]}
      BY <3>1
    <3>3. /\ DOMAIN server' = DOMAIN server \cup {nextId} /\ server'[nextId] = rec.entry.objs[i]
          /\ \A j \in DOMAIN server : server'[j] = server[j]
          /\ rec.entry.objs[i] \in Load(rec)
      BY <1>5, <3>2 DEF MadeAgain, rec, Load
    <3>4. Knows(r, server')
      BY <1>2, <1>5, <1>14, <3>1, KnowsServed DEF Changing
    <3>5. Brings(r) \subseteq Brings(rec)
      BY <1>6, <1>14 DEF Brings
    <3>6. /\ Mine(rec) \subseteq Mine(r) /\ Mine(r) \cap 1..(nextId - 1) \subseteq Mine(rec)
          /\ nextId \in Mine(r)
      BY <1>6, <1>8, <3>1 DEF Mine
    <3>7. \A t \in Targets(r) : t \in 1..(nextId - 1)
      BY <1>8, <2>2
    <3>8. \A t \in Targets(r) \cap DOMAIN server' : t \in DOMAIN server /\ server'[t] = server[t]
      BY <1>8, <3>3, <3>7
    <3>9. \A j \in DOMAIN server' : \/ j \in DOMAIN server /\ server'[j] = server[j]
                                    \/ /\ j \in Mine(r)
                                       /\ \E x \in Load(rec) : x.ends = server'[j].ends
      BY <3>3, <3>6
    <3>10. DOMAIN server \ DOMAIN server' \subseteq Mine(rec)
      BY <3>3
    <3>11. QED
      BY <1>1, <1>6, <3>4, <3>5, <3>6, <3>8, <3>9, <3>10, OneGoesOnSafely DEF rec
  <2>6. QED
    BY <1>5, <2>3, <2>4, <2>5
<1>15. QED
  BY <1>5, <1>10, <1>12, <1>13, <1>14 DEF Kinds, Changing

\* A request that is carried out or fails leaves the coroutines discreet.
LEMMA RequestsDiscreet ==
  ASSUME Discreet, TypeInv, NEW o \in Ops, Serve(o) \/ RequestFails(o), ~holes', ~Doomed, ~Doomed',
         op[o].kind = "undo" => Unhinged(op[o], server)
  PROVE  Discreet'
<1>1. CASE Serve(o)
  <2>1. PICK q \in op[o].sent :
          \/ /\ Found(q) /\ Apply(q)
             /\ op' \in {[op EXCEPT ![o] = r] : r \in GoOn(Served(op[o], q))}
          \/ op' = [op EXCEPT ![o] = Failed(op[o], q)] /\ server' = server
    BY <1>1 DEF Serve, Accepted
  <2>2. CASE /\ Found(q) /\ Apply(q)
             /\ op' \in {[op EXCEPT ![o] = r] : r \in GoOn(Served(op[o], q))}
    BY <2>2, SuccessDiscreet
  <2>3. QED
    BY <2>1, <2>2, FailureDiscreet
<1>2. CASE RequestFails(o)
  <2>1. PICK q \in op[o].sent : op' = [op EXCEPT ![o] = Failed(op[o], q)] /\ server' = server
    BY <1>2 DEF RequestFails
  <2>2. QED
    BY <2>1, FailureDiscreet
<1>3. QED
  BY <1>1, <1>2

\* How the end of an edit leaves its coroutine.
LEMMA EndsTurn ==
  ASSUME TypeInv, NEW o \in Ops, EditEnds(o)
  PROVE  server' = server /\ nextId' = nextId /\ edits' = edits
        /\ (Turns(o, Free) \/ SplitFailed(o) \/ UndoDone(o))
<1>1. ASSUME op' = Ended(o) \/ op' = Released(Ended(o)) PROVE Turns(o, Free)
  BY <1>1, EndTurns DEF TypeInv
<1>2. CASE \/ MoveSaved(o) \/ MoveFailed(o) \/ GroupSaved(o) \/ GroupFailed(o)
           \/ DetailSaved(o) \/ DetailFailed(o)
  BY <1>1, <1>2 DEF MoveSaved, MoveFailed, GroupSaved, GroupFailed, DetailSaved, DetailFailed, bounds
<1>3. CASE Deleted(o) \/ DeleteFailed(o) \/ Placed(o) \/ PlaceFailed(o) \/ SplitDone(o)
  BY <1>1, <1>3 DEF Deleted, DeleteFailed, Placed, PlaceFailed, SplitDone, bounds
<1>4. CASE Pasted(o) \/ PasteFailed(o) \/ UndoFailed(o)
  BY <1>1, <1>4 DEF Pasted, PasteFailed, UndoFailed, bounds
<1>5. CASE SplitFailed(o) \/ UndoDone(o)
  BY <1>5 DEF SplitFailed, UndoDone, bounds
<1>6. QED
  BY <1>2, <1>3, <1>4, <1>5 DEF EditEnds

\* A split that failed when its point was made, but the line not cut, deletes the point.
LEMMA SplitTurns ==
  ASSUME Discreet, TypeInv, NEW o \in Ops, SplitFailed(o), ~holes'
  PROVE  \E p, r : /\ Turns(o, r) /\ r.kind = "unsplit" /\ r.entry = op[o].entry /\ r.got = op[o].got
                   /\ r.err = "none" /\ r.stages = <<>> /\ r.sent = {Delete({p})}
                   /\ DOMAIN r.got = {p} /\ p \notin r.entry.ids /\ ~IsLine(r.got[p])
<1> DEFINE rec == op[o]
           gone == DOMAIN rec.got \ rec.entry.ids
           r == [rec EXCEPT !.kind = "unsplit", !.err = "none", !.stages = <<>>, !.sent = {Delete(gone)}]
<1>1. /\ rec.kind = "split" /\ rec.err = "failed" /\ rec.applied
      /\ ~(rec.entry.ids \subseteq DOMAIN rec.got)
  BY DEF SplitFailed, Broken
<1>2. DOMAIN op = Ops /\ DOMAIN rec = DOMAIN Free
  BY DEF TypeInv, OpsTyped, OpTyped
<1>3. op' = [op EXCEPT ![o] = r]
  BY <1>2 DEF SplitFailed, Free
<1>4. Turns(o, r)
  BY <1>3, OneTurnsTo DEF TypeInv
<1> HIDE DEF rec
<1>5. /\ r.kind = "unsplit" /\ r.entry = rec.entry /\ r.got = rec.got /\ r.err = "none"
      /\ r.stages = <<>> /\ r.sent = {Delete(gone)}
  BY <1>2 DEF Free
<1>6. Changer(rec, server)
  BY <1>1 DEF Discreet, Knows, Changing, rec
<1>7. Pointed(rec)
  BY <1>1, <1>6 DEF Changer, Formed, Uncut, Cut, InTwo
<1>8. PICK p : p \notin rec.entry.ids /\ DOMAIN rec.got = {p} /\ ~IsLine(rec.got[p])
  BY <1>7 DEF Pointed
<1>9. gone = {p}
  BY <1>8
<1> HIDE DEF r
<1>10. QED
  BY <1>4, <1>5, <1>8, <1>9 DEF rec

\* A failed split that goes on to delete its point leaves the coroutines discreet.
LEMMA SplitFailedDiscreet ==
  ASSUME Discreet, TypeInv, NEW o \in Ops, SplitFailed(o), ~holes'
  PROVE  Discreet'
<1> DEFINE rec == op[o]
<1>1. PICK p, r : /\ Turns(o, r) /\ r.kind = "unsplit" /\ r.entry = rec.entry /\ r.got = rec.got
                  /\ r.err = "none" /\ r.stages = <<>> /\ r.sent = {Delete({p})}
                  /\ DOMAIN r.got = {p} /\ p \notin r.entry.ids /\ ~IsLine(r.got[p])
  BY SplitTurns
<1>2. Todo(r) = {Delete({p})}
  BY <1>1, NoStages DEF Todo
<1>3. Load(r) = {} /\ Targets(r) = {p} /\ Delete({p}).do = "delete" /\ Delete({p}).ids = {p}
  BY <1>2 DEF Load, Targets, Carried, Delete
<1>4. rec.kind = "split" /\ Changer(rec, server) /\ server' = server /\ Knows(rec, server)
  BY DEF SplitFailed, Broken, Discreet, Knows, Changing
<1>5. Mine(r) = Mine(rec) /\ p \in Mine(r)
  BY <1>1 DEF Mine
<1>6. /\ p \in DOMAIN server /\ rec.got[p] = server[p] /\ ~IsLine(server[p])
      /\ server[p].ends[1] \notin Spots(Range(rec.entry.objs))
  BY <1>1, <1>4 DEF Changer, Formed
<1>7. Brings(r) \subseteq Brings(rec)
  BY <1>1, <1>3, <1>4 DEF Brings, Spots
<1>8. Doors(r, server) = {server[p].ends[1]}
  BY <1>3, <1>6 DEF Doors
<1>9. server[p].ends[1] \in Brings(rec)
  <2>1. Len(server[p].ends) \in {1, 2} /\ \E S : server[p].ends \in Seq(S)
    BY <1>6 DEF TypeInv, MapsTyped, Map, Obj
  <2>2. server[p].ends[1] \in Range(server[p].ends)
    BY <2>1 DEF Range
  <2>3. server[p] \in Range(rec.got)
    BY <1>1, <1>6 DEF Range
  <2>4. server[p].ends[1] \in Spots(Range(rec.got))
    BY <2>2, <2>3 DEF Spots
  <2>5. QED
    BY <1>4, <1>6, <2>4 DEF Brings
<1>10. \A x : Safe(x, rec, server) => Safe(x, r, server)
  BY <1>7, <1>8, <1>9 DEF Safe
<1>11. Unsplitter(r, server)
  <2>1. \A i \in rec.entry.ids \ {p} : Upserted(server[i], rec.entry.objs[i]) = server[i]
    BY <1>1, <1>4 DEF Changer, Formed
  <2>2. rec.entry.ids = DOMAIN rec.entry.objs /\ rec.entry.ids \subseteq DOMAIN server
    BY <1>4 DEF Changer, Formed
  <2> HIDE DEF rec
  <2>3. QED
    BY <1>1, <1>2, <1>6, <2>1, <2>2 DEF Unsplitter
<1>12. Knows(r, server)
  BY <1>1, <1>3, <1>4, <1>5, <1>11 DEF Knows, Kinds, Changing
<1>13. \A i : Alike(i, server, server')
  BY <1>4 DEF Alike
<1>14. \A i \in DOMAIN server' \ Mine(r) : Safe(server'[i], r, server')
  BY <1>4, <1>5, <1>10 DEF Discreet
<1>15. ASSUME NEW u \in Ops \ {o}
       PROVE  /\ Mine(op[u]) \cap Mine(r) = {}
              /\ \A i \in (Mine(op[o]) \cup Mine(r)) \cap DOMAIN server' : Safe(server'[i], op[u], server)
              /\ \A x \in Load(r) : Safe(x, op[u], server)
              /\ \A x \in Load(op[u]) : Safe(x, r, server')
  BY <1>3, <1>4, <1>5, <1>10 DEF Discreet
<1>16. QED
  BY <1>1, <1>4, <1>12, <1>13, <1>14, <1>15, OneTurns

\* An undo that is done turns to its refetch, with its entry and its answers.
LEMMA UndoDoneTurns ==
  ASSUME Discreet, TypeInv, NEW o \in Ops, UndoDone(o)
  PROVE  /\ op[o].kind = "undo" /\ op[o].applied /\ Todo(op[o]) = {} /\ op[o].err = "none"
         /\ \E r : /\ Turns(o, r) /\ r.kind = "undo" /\ r.entry = op[o].entry /\ r.got = op[o].got
                   /\ r.err = "refetch" /\ r.applied /\ Todo(r) = {} /\ r.stages = <<>> /\ r.sent = {}
<1> DEFINE rec == op[o]
           r == [rec EXCEPT !.err = "refetch"]
<1>1. rec.kind = "undo" /\ rec.err = "none" /\ rec.sent = {} /\ rec.stages = <<>> /\ Todo(rec) = {}
  BY DoneTodo DEF UndoDone, Done
<1>2. DOMAIN op = Ops /\ DOMAIN rec = DOMAIN Free /\ Undoer(rec, server)
  BY <1>1 DEF TypeInv, OpsTyped, OpTyped, Discreet, Knows
<1>3. rec.applied
  BY <1>1, <1>2 DEF Undoer
<1>4. Turns(o, r)
  <2>1. op' = [op EXCEPT ![o] = r]
    BY <1>2 DEF UndoDone
  <2>2. QED
    BY <2>1, OneTurnsTo DEF TypeInv
<1>5. /\ r.kind = "undo" /\ r.entry = rec.entry /\ r.got = rec.got /\ r.err = "refetch"
         /\ r.applied = rec.applied
      /\ r.sent = {} /\ r.stages = <<>>
  BY <1>1, <1>2 DEF Free
<1>6. Todo(r) = {}
  BY <1>5, NoStages DEF Todo
<1> HIDE DEF r
<1>7. QED
  BY <1>1, <1>3, <1>4, <1>5, <1>6

\* An undo that is done leaves the coroutines discreet.
LEMMA UndoDoneDiscreet ==
  ASSUME Discreet, TypeInv, NEW o \in Ops, UndoDone(o)
  PROVE  Discreet'
<1> DEFINE rec == op[o]
<1>1. PICK r : /\ Turns(o, r) /\ r.kind = "undo" /\ r.entry = rec.entry /\ r.got = rec.got
               /\ r.err = "refetch" /\ r.applied /\ Todo(r) = {} /\ r.stages = <<>> /\ r.sent = {}
  BY UndoDoneTurns
<1>2. rec.kind = "undo" /\ rec.applied /\ Todo(rec) = {} /\ Knows(rec, server) /\ server' = server
  BY UndoDoneTurns DEF Discreet, UndoDone
<1> HIDE DEF rec
<1>3. Undoer(r, server)
  BY <1>1, <1>2 DEF Undoer, Knows
<1>4. Load(r) = {} /\ Targets(r) = {} /\ Mine(r) = Mine(rec) /\ Brings(r) = {}
  BY <1>1 DEF Load, Targets, Mine, Brings
<1>5. Knows(r, server)
  BY <1>1, <1>2, <1>3, <1>4 DEF Knows, Kinds, Changing
<1>6. QED
  BY <1>1, <1>2, <1>4, <1>5, OneGoesOnSafely DEF rec

\* The end of a coroutine leaves the others discreet.
LEMMA EndsDiscreet ==
  ASSUME Discreet, TypeInv, NEW o \in Ops, EditEnds(o), ~holes'
  PROVE  Discreet'
BY EndsTurn, OneIsFree, SplitFailedDiscreet, UndoDoneDiscreet

\* Steps of the fetch and of lost requests.
Aside == Refetch \/ FetchRead \/ FetchAnswer \/ FetchFails \/ ServeStray \/ UNCHANGED vars

\* Fetches and requests of nobody leave the backend, the stack and every coroutine alone.
LEMMA AsideStays ==
  ASSUME TypeInv, Aside, ~holes'
  PROVE  /\ server' = server /\ nextId' = nextId /\ stack' = stack /\ edits \in Nat
            /\ edits' \in {edits, edits + 1}
         /\ op' = op \/ op' = Released(op)
         /\ \A p \in Ops : Stays(p)
<1>1. /\ server' = server /\ nextId' = nextId /\ stack' = stack /\ edits' \in {edits, edits + 1}
      /\ op' = op \/ op' = Released(op)
  BY DEF Aside, Refetch, FetchRead, FetchAnswer, FetchFails, ServeStray, vars, undoVars, bounds
<1>2. QED
  BY <1>1, AllReleased DEF TypeInv, MapsTyped

\* Fetches leave the coroutines discreet.
LEMMA AsideDiscreet ==
  ASSUME Discreet, TypeInv, Aside, ~holes'
  PROVE  Discreet'
BY AsideStays, AllStay

-------------------------------------------------------------------------------
(* A coroutine begins.                                                        *)

\* The first end of an object is one of its ends, and the only one of a point.
LEMMA FirstEnd ==
  ASSUME NEW n, NEW x \in Part(n)
  PROVE  x.ends[1] \in Range(x.ends) /\ (~IsLine(x) => Range(x.ends) = {x.ends[1]})
<1>1. (\E S : x.ends \in Seq(S)) /\ Len(x.ends) \in {1, 2}
  BY DEF Part, Shape, Obj
<1>2. DOMAIN x.ends = 1..Len(x.ends)
  BY <1>1
<1>3. ~IsLine(x) => DOMAIN x.ends = {1}
  <2>1. ~IsLine(x) => Len(x.ends) = 1
    BY <1>1 DEF IsLine
  <2>2. 1..1 = {1}
    OBVIOUS
  <2>3. QED
    BY <1>2, <2>1, <2>2
<1>4. QED
  BY <1>1, <1>2, <1>3 DEF Range

\* No coroutine brings a place of an edit to come.
LEMMA OldBrings ==
  ASSUME TypeInv, NEW p \in Ops
  PROVE  Brings(op[p]) \cap New = {}
<1>1. New \cap Places(edits) = {} /\ Spots(Load(op[p])) \subseteq Places(edits)
  BY OldPlaces DEF Spots
<1>2. \A x \in Range(op[p].got) : Range(x.ends) \subseteq Places(edits)
  <2>1. \A i \in DOMAIN op[p].got : op[p].got[i] \in Part(edits)
    BY DEF TypeInv, OpsTyped, OpTyped, Map, Part
  <2>2. QED
    BY <2>1, ObjEnds DEF Range
<1>3. Spots(Range(op[p].got)) \subseteq Places(edits)
  BY <1>2 DEF Spots
<1>4. QED
  BY <1>1, <1>3 DEF Brings

\* Nothing is in the way of an entry.
LEMMA NothingInTheWay ==
  ASSUME NEW e, ~InTheWay(e), NEW p \in Ops
  PROVE  LET all == e.ids \cup Expand(server, e.ids \cap DOMAIN server) \cup Hooks(e) IN
         all \cap Mine(op[p]) = {} /\ all \cap Hooks(op[p].entry) = {}
<1> DEFINE all == e.ids \cup Expand(server, e.ids \cap DOMAIN server) \cup Hooks(e)
<1>1. all \cap UNION {op[o].entry.ids \cup DOMAIN op[o].got \cup Hooks(op[o].entry) : o \in Ops} = {}
  BY DEF InTheWay
<1> HIDE DEF all
<1>2. all \cap (op[p].entry.ids \cup DOMAIN op[p].got \cup Hooks(op[p].entry)) = {}
  BY <1>1
<1>3. all \cap Mine(op[p]) = {} /\ all \cap Hooks(op[p].entry) = {}
  BY <1>2 DEF Mine
<1>4. QED
  BY <1>3 DEF all

\* The line of a spot.
LEMMA SpotOf ==
  ASSUME NEW objs, NEW s, s \in Spots({y \in Range(objs) : IsLine(y)})
  PROVE  \E l \in DOMAIN objs : IsLine(objs[l]) /\ s \in Range(objs[l].ends)
BY DEF Spots, Range

\* A coroutine that begins with objects nobody has, and brings new places only, is discreet.
LEMMA BeginDiscreet ==
  ASSUME Discreet, TypeInv, NEW o \in Ops, op[o] = Free, NEW r, Turns(o, r), server' = server,
         ~InTheWay(r.entry), DOMAIN r.got = {}, Knows(r, server), Brings(r) \subseteq New,
         Spots(Load(r)) \subseteq New \cup Spots(Range(r.entry.objs)),
         \A p \in Ops : Spots(Range(r.entry.objs)) \cap Brings(op[p]) = {},
         \A i \in DOMAIN server \ r.entry.ids : (\A p \in Ops : i \notin Mine(op[p])) =>
           (IsLine(server[i]) => Range(server[i].ends) \cap Doors(r, server) = {})
  PROVE  Discreet'
<1> DEFINE e == r.entry
           ids == e.ids
           all == ids \cup Expand(server, ids \cap DOMAIN server) \cup Hooks(e)
<1>1. Mine(r) = ids
  BY DEF Mine
<1>2. \A p \in Ops : all \cap Mine(op[p]) = {} /\ all \cap Hooks(op[p].entry) = {}
  BY NothingInTheWay
<1>3. /\ New \cap Places(edits) = {}
      /\ \A i \in DOMAIN server : Range(server[i].ends) \subseteq Places(edits)
      /\ \A p \in Ops : \A x \in Load(op[p]) : Range(x.ends) \subseteq Places(edits)
      /\ \A p \in Ops : Doors(op[p], server) \subseteq Places(edits)
  BY OldPlaces
<1>4. \A i \in DOMAIN server : server[i] \in Part(edits)
  BY DEF TypeInv, MapsTyped, Map, Part
<1>5. Targets(r) \subseteq ids /\ DOMAIN e.objs \subseteq ids
  BY <1>1 DEF Knows
<1>6. ASSUME NEW i \in DOMAIN server \ ids PROVE Safe(server[i], r, server)
  <2>1. Range(server[i].ends) \cap Brings(r) = {}
    BY <1>3
  <2>2. ASSUME IsLine(server[i]), NEW s \in Range(server[i].ends) \cap Doors(r, server) PROVE FALSE
    <3>1. PICK t \in Targets(r) \cap DOMAIN server : ~IsLine(server[t]) /\ s = server[t].ends[1]
      BY <2>2 DEF Doors
    <3>2. i \in Linked(server, t)
      BY <2>2, <3>1 DEF Linked
    <3>3. i \in all
      BY <1>5, <3>1, <3>2 DEF Expand
    <3>4. QED
      BY <1>2, <2>2, <3>3
  <2>3. QED
    BY <2>1, <2>2 DEF Safe
<1>7. ASSUME NEW p \in Ops, NEW x \in Load(r) PROVE Safe(x, op[p], server)
  <2>1. Range(x.ends) \subseteq New \cup Spots(Range(e.objs))
    BY DEF Spots
  <2>2. Range(x.ends) \cap Brings(op[p]) = {}
    BY <2>1, OldBrings
  <2>3. ASSUME IsLine(x), NEW s \in Range(x.ends) \cap Doors(op[p], server) PROVE FALSE
    <3>1. s \in Spots({y \in Range(e.objs) : IsLine(y)})
      <4>1. s \in Spots(Range(e.objs))
        BY <1>3, <2>1, <2>3
      <4>2. QED
        BY <2>3, <4>1 DEF Knows
    <3>2. PICK l \in DOMAIN e.objs : IsLine(e.objs[l]) /\ s \in Range(e.objs[l].ends)
      BY <3>1, SpotOf
    <3>3. PICK t \in Targets(op[p]) \cap DOMAIN server : ~IsLine(server[t]) /\ s = server[t].ends[1]
      BY <2>3 DEF Doors
    <3>4. t \in Mine(op[p]) /\ l \in ids
      BY <1>5, <3>2, <3>3 DEF Discreet, Knows
    <3>5. CASE l \notin Linked(server, t)
      <4>1. t \in Hooks(e)
        BY <3>2, <3>3, <3>5 DEF Hooks
      <4>2. QED
        BY <1>2, <3>4, <4>1
    <3>6. CASE l \in Linked(server, t)
      <4>1. l \in DOMAIN server /\ IsLine(server[l]) /\ s \in Range(server[l].ends)
        BY <3>3, <3>6 DEF Linked
      <4>2. l \notin Mine(op[p])
        BY <1>2, <3>4
      <4>3. Safe(server[l], op[p], server)
        BY <4>1, <4>2 DEF Discreet
      <4>4. QED
        BY <2>3, <4>1, <4>3 DEF Safe
    <3>7. QED
      BY <3>5, <3>6
  <2>4. QED
    BY <2>2, <2>3 DEF Safe
<1>8. ASSUME NEW p \in Ops \ {o}, NEW x \in Load(op[p]) PROVE Safe(x, r, server)
  <2>1. Range(x.ends) \cap Brings(r) = {}
    BY <1>3
  <2>2. ASSUME IsLine(x), NEW s \in Range(x.ends) \cap Doors(r, server) PROVE FALSE
    <3>1. PICK t \in Targets(r) \cap DOMAIN server : ~IsLine(server[t]) /\ s = server[t].ends[1]
      BY <2>2 DEF Doors
    <3>2. t \in ids /\ t \notin Mine(op[p])
      BY <1>2, <1>5, <3>1
    <3>3. s \notin Brings(op[p])
      <4>1. Safe(server[t], op[p], server)
        BY <3>1, <3>2 DEF Discreet
      <4>2. s \in Range(server[t].ends)
        BY <1>4, <3>1, FirstEnd
      <4>3. QED
        BY <4>1, <4>2 DEF Safe
    <3>4. s \in Spots(Range(op[p].entry.objs))
      <4>1. s \in Spots(Load(op[p]))
        BY <2>2 DEF Spots
      <4>2. CASE op[p].kind # "undo"
        BY <3>3, <4>1, <4>2 DEF Brings
      <4>3. CASE op[p].kind = "undo"
        <5>1. Undoer(op[p], server)
          BY <4>3 DEF Discreet, Knows
        <5>2. EntryOK(op[p].entry) /\ Todo(op[p]) \subseteq UndoReqs(op[p].entry)
              /\ op[p].entry.ids \subseteq Nat
          BY <5>1, KnownIds DEF Undoer
        <5>3. PICK q \in Todo(op[p]) : x \in Carried(q)
          BY DEF Load
        <5>4. q \in UndoReqs(op[p].entry)
          BY <5>2, <5>3
        <5>5. \E i \in DOMAIN op[p].entry.objs : x = op[p].entry.objs[i]
          <6>1. op[p].entry.undo = "restore" => DOMAIN op[p].entry.objs = op[p].entry.ids
            BY <5>2 DEF EntryOK
          <6>2. q.do # "delete"
            BY <5>3 DEF Carried
          <6>3. \/ \E i \in DOMAIN op[p].entry.objs : Carried(q) = {op[p].entry.objs[i]}
                \/ q.do = "create" /\ op[p].entry.undo = "restore"
                   /\ \E i \in op[p].entry.ids : Carried(q) = {op[p].entry.objs[i]}
            BY <5>2, <5>4, <6>2, UndoRequest
          <6>4. QED
            BY <5>3, <6>1, <6>3
        <5>6. QED
          BY <2>2, <5>5 DEF Spots, Range
      <4>4. QED
        BY <4>2, <4>3
    <3>5. s \in Spots({y \in Range(op[p].entry.objs) : IsLine(y)})
      BY <2>2, <3>4 DEF Discreet, Knows
    <3>6. PICK l \in DOMAIN op[p].entry.objs : IsLine(op[p].entry.objs[l])
          /\ s \in Range(op[p].entry.objs[l].ends)
      BY <3>5, SpotOf
    <3>7. l \in Mine(op[p])
      BY <3>6 DEF Discreet, Knows, Mine
    <3>8. CASE l \notin Linked(server, t)
      <4>1. t \in Hooks(op[p].entry)
        BY <3>1, <3>6, <3>8 DEF Hooks
      <4>2. QED
        BY <1>2, <3>2, <4>1
    <3>9. CASE l \in Linked(server, t)
      <4>1. l \in all
        BY <3>1, <3>2, <3>9 DEF Expand
      <4>2. QED
        BY <1>2, <3>7, <4>1
    <3>10. QED
      BY <3>8, <3>9
  <2>3. QED
    BY <2>1, <2>2 DEF Safe
<1>9. \A i : Alike(i, server, server')
  BY DEF Alike
<1>10. ASSUME NEW p \in Ops \ {o}
       PROVE  /\ Mine(op[p]) \cap Mine(r) = {}
              /\ \A i \in (Mine(op[o]) \cup Mine(r)) \cap DOMAIN server' : Safe(server'[i], op[p], server)
  BY <1>1, <1>2, FreeIsSafe DEF Discreet
<1>11. QED
  BY <1>1, <1>6, <1>7, <1>8, <1>9, <1>10, OneTurns

-------------------------------------------------------------------------------
(* What is gone stays gone, and an undo that needs it fails for good.         *)

\* Every step is a request or an end of a coroutine, an undo or an edit that begins, or aside.
LEMMA Steps ==
  ASSUME [Next]_vars
  PROVE  \/ \E o \in Ops : Serve(o) \/ RequestFails(o) \/ EditEnds(o) \/ Undo(o)
         \/ Edits \/ Aside
BY DEF Next, OpSteps, FetchSteps, Aside

\* The objects that are gone are not made again: what is made has new ids.
Gone == nextId <= nextId' /\ DOMAIN server' \cap 1..(nextId - 1) \subseteq DOMAIN server

\* A request never brings back an id that is gone.
LEMMA ApplyGone ==
  ASSUME TypeInv, NEW q, RequestTyped(q, edits), Apply(q)
  PROVE  Gone
<1>1. nextId \in Nat \ {0} /\ nextId' \in Nat \ {0} /\ nextId <= nextId'
  BY ApplyTyped DEF TypeInv, MapsTyped
<1>2. CASE q.do = "update"
  BY <1>1, <1>2 DEF Apply, Patched, Gone
<1>3. CASE q.do = "delete"
  BY <1>1, <1>3 DEF Apply, Removed, Only, Gone
<1>4. CASE q.do = "create"
  <2>1. q.objs \in Seq(Obj(edits))
    BY <1>4 DEF RequestTyped
  <2>2. DOMAIN Made(q) = nextId..(nextId + Len(q.objs) - 1)
    BY <2>1, MadeTyped DEF TypeInv
  <2>3. DOMAIN server' = DOMAIN Made(q) \cup DOMAIN server
    BY <1>4 DEF Apply, Upserted
  <2>4. QED
    BY <1>1, <2>2, <2>3 DEF Gone
<1>5. QED
  BY <1>2, <1>3, <1>4 DEF RequestTyped

\* No id comes back while the backend stands.
LEMMA StandsGone ==
  ASSUME TypeInv, server' = server, nextId' = nextId
  PROVE  Gone
BY DEF Gone, TypeInv, MapsTyped

\* No request, carried out or failed, brings back an id.
LEMMA RequestGone ==
  ASSUME TypeInv, NEW o \in Ops, Serve(o) \/ RequestFails(o)
  PROVE  Gone
<1>1. \A q \in op[o].sent : RequestTyped(q, edits)
  BY DEF TypeInv, OpsTyped, OpTyped, Todo
<1>2. \/ \E q \in op[o].sent : Apply(q)
      \/ server' = server /\ nextId' = nextId
  BY DEF Serve, RequestFails
<1>3. QED
  BY <1>1, <1>2, ApplyGone, StandsGone

\* An edit that begins sends its requests and changes nothing in the backend.
LEMMA EditsKeep ==
  ASSUME Edits
  PROVE  server' = server /\ nextId' = nextId
BY DEF Edits, Move, SaveDetail, SplitLine, MoveGroup, DeleteSelection, PlacePoint, Paste

\* No step brings back an id that has been handed out and is gone.
LEMMA GoneStays ==
  ASSUME TypeInv, [Next]_vars, ~holes'
  PROVE  Gone
<1>1. ASSUME NEW o \in Ops, Undo(o) PROVE Gone
  BY <1>1, StandsGone DEF Undo
<1>2. ASSUME NEW o \in Ops, EditEnds(o) PROVE Gone
  BY <1>2, StandsGone, EndsTurn
<1>3. CASE Aside
  BY <1>3, StandsGone, AsideStays
<1>4. CASE Edits
  BY <1>4, StandsGone, EditsKeep
<1>5. QED
  BY <1>1, <1>2, <1>3, <1>4, Steps, RequestGone

\* A request that is in vain stays so.
LEMMA VainStays ==
  ASSUME Gone, NEW q, NEW e, e.ids \subseteq 1..(nextId - 1), Vain(q, e)
  PROVE  Vain(q, e)'
BY DEF Gone, Vain

\* An undo without hope has none after a step that leaves it alone.
LEMMA HopelessStays ==
  ASSUME TypeInv, Gone, NEW p \in Ops, Stays(p), Hopeless(op[p])
  PROVE  Doomed'
<1>1. op'[p] = op[p]
  BY DEF Stays, Hopeless
<1>2. op[p].entry.ids \subseteq 1..(nextId - 1)
  BY KnownIds
<1>3. Hopeless(op[p])'
  BY <1>1, <1>2, VainStays DEF Hopeless
<1>4. QED
  BY <1>3 DEF Doomed

\* An entry of the stack that is in vain stays there.
LEMMA StackDoomed ==
  ASSUME TypeInv, StackInv, Gone, NEW k \in DOMAIN stack, NEW q, Vain(q, stack[k]),
         stack' = stack \/ \E e : stack' = Append(stack, e)
  PROVE  Doomed'
<1>1. stack[k].ids \subseteq 1..(nextId - 1)
  BY DEF TypeInv, MapsTyped, EntryTyped
<1>2. Vain(q, stack[k])'
  <2>1. k \in DOMAIN stack' /\ stack'[k] = stack[k]
    <3>1. PICK S : stack \in Seq(S)
      BY DEF StackInv
    <3>2. QED
      BY <3>1
  <2>2. PICK e : e = stack[k]
    OBVIOUS
  <2>3. Vain(q, e)'
    BY <1>1, <2>2, VainStays
  <2>4. QED
    BY <2>1, <2>2, <2>3 DEF Vain
<1>3. k \in DOMAIN stack'
  <2>1. PICK S : stack \in Seq(S)
    BY DEF StackInv
  <2>2. QED
    BY <2>1
<1>4. QED
  BY <1>2, <1>3 DEF Doomed

\* What is pushed without loss goes on top.
LEMMA PushKeeps ==
  ASSUME StackInv, NEW e, Push(e), ~holes'
  PROVE  stack' = Append(stack, e) /\ ~Undoing
<1>1. ~Undoing /\ Len(stack) < MaxUndo
  <2>1. PICK S : stack \in Seq(S)
    BY DEF StackInv
  <2>2. Len(stack) \in Nat
    BY <2>1
  <2>3. ~Undoing /\ ~(Len(stack) >= MaxUndo)
    BY Zenon DEF Push
  <2>4. QED
    BY <2>2, <2>3, MapAssumption
<1>2. PICK S : stack \in Seq(S)
  BY DEF StackInv
<1>3. Len(Append(stack, e)) = Len(stack) + 1
  BY <1>2
<1>4. Len(stack) \in Nat
  BY <1>2
<1>5. ~(Len(Append(stack, e)) > MaxUndo)
  BY <1>1, <1>3, <1>4, MapAssumption
<1>6. QED
  BY <1>1, <1>5 DEF Push

\* The end of an edit pushes one entry on the stack or none.
LEMMA EndsPush ==
  ASSUME StackInv, NEW o \in Ops, EditEnds(o), ~holes'
  PROVE  stack' = stack \/ \E e : stack' = Append(stack, e)
<1>1. ASSUME NEW e, Push(e) PROVE stack' = Append(stack, e)
  BY <1>1, PushKeeps
<1>2. CASE MoveSaved(o) \/ GroupSaved(o) \/ DetailSaved(o) \/ Deleted(o)
  BY <1>1, <1>2 DEF MoveSaved, GroupSaved, DetailSaved, Deleted
<1>3. CASE Placed(o) \/ SplitDone(o) \/ Pasted(o) \/ UndoFailed(o)
  BY <1>1, <1>3 DEF Placed, SplitDone, Pasted, UndoFailed
<1>4. CASE \/ MoveFailed(o) \/ GroupFailed(o) \/ DetailFailed(o) \/ DeleteFailed(o)
           \/ PlaceFailed(o) \/ SplitFailed(o) \/ PasteFailed(o) \/ UndoDone(o)
  BY <1>4 DEF MoveFailed, GroupFailed, DetailFailed, DeleteFailed, PlaceFailed, SplitFailed,
  PasteFailed, UndoDone, undoVars
<1>5. QED
  BY <1>2, <1>3, <1>4 DEF EditEnds

\* What an answer or a failure leaves of a coroutine.
LEMMA RequestTurns ==
  ASSUME TypeInv, NEW o \in Ops, Serve(o) \/ RequestFails(o), ~holes'
  PROVE  /\ stack' = stack
         /\ \E q, r :
              /\ q \in op[o].sent
              /\ op' = [op EXCEPT ![o] = r]
              /\ \/ /\ Found(q) /\ Apply(q) /\ r \in GoOn(Served(op[o], q))
                    /\ \E got : Answered(r, op[o], q, got)
                 \/ r = Failed(op[o], q) /\ server' = server /\ nextId' = nextId
<1>1. CASE Serve(o)
  <2>1. PICK q \in op[o].sent :
          \/ /\ Found(q) /\ Apply(q)
             /\ op' \in {[op EXCEPT ![o] = r] : r \in GoOn(Served(op[o], q))}
          \/ op' = [op EXCEPT ![o] = Failed(op[o], q)] /\ server' = server /\ nextId' = nextId
    BY <1>1 DEF Serve, Accepted
  <2>2. CASE /\ Found(q) /\ Apply(q)
             /\ op' \in {[op EXCEPT ![o] = r] : r \in GoOn(Served(op[o], q))}
    <3>1. PICK r \in GoOn(Served(op[o], q)) : op' = [op EXCEPT ![o] = r]
      BY <2>2
    <3>2. \E got : Answered(r, op[o], q, got)
      BY <2>2, ServedAnswered
    <3>3. QED
      BY <1>1, <2>2, <3>1, <3>2 DEF Serve, undoVars
  <2>3. QED
    BY <1>1, <2>1, <2>2 DEF Serve, undoVars
<1>2. CASE RequestFails(o)
  BY <1>2 DEF RequestFails, undoVars
<1>3. QED
  BY <1>1, <1>2

\* A failed request is dropped with those after it; nothing else of the coroutine changes.
LEMMA FailedLess ==
  ASSUME NEW rec, DOMAIN rec = DOMAIN Free, NEW q, NEW r, r = Failed(rec, q)
  PROVE  /\ r.kind = rec.kind /\ r.entry = rec.entry /\ r.got = rec.got /\ r.err = "failed"
            /\ r.applied = rec.applied
         /\ Todo(r) \subseteq Todo(rec) /\ Todo(rec) \ {q} \subseteq Todo(r)
BY DEF Failed, Free, Todo

\* A request of an undo without hope leaves it without hope.
LEMMA HopelessRequests ==
  ASSUME TypeInv, NEW o \in Ops, Serve(o) \/ RequestFails(o), ~holes', Hopeless(op[o])
  PROVE  Doomed'
<1> DEFINE rec == op[o]
<1>0. PICK e : e = rec.entry
  OBVIOUS
<1>1. PICK q, r :
              /\ q \in op[o].sent
              /\ op' = [op EXCEPT ![o] = r]
              /\ \/ /\ Found(q) /\ Apply(q) /\ r \in GoOn(Served(op[o], q))
                    /\ \E got : Answered(r, op[o], q, got)
                 \/ r = Failed(op[o], q) /\ server' = server /\ nextId' = nextId
  BY RequestTurns
<1>2. op'[o] = r /\ DOMAIN rec = DOMAIN Free
  BY <1>1 DEF TypeInv, OpsTyped, OpTyped
<1>3. Gone /\ e.ids \subseteq 1..(nextId - 1)
  BY <1>0, RequestGone, KnownIds
<1>4. \A t : Vain(t, e) => Vain(t, e)'
  BY <1>3, VainStays
<1>8. rec.kind = "undo"
  BY DEF Hopeless
<1>5. CASE Found(q) /\ \E got : Answered(r, rec, q, got)
  <2>1. /\ r.kind = rec.kind /\ r.entry = e /\ r.err = rec.err /\ r.applied
        /\ Todo(rec) \ {q} \subseteq Todo(r)
    BY <1>0, <1>5 DEF Answered
  <2>2. ~Vain(q, e)
    BY <1>5 DEF Vain, Found
  <2>3. Hopeless(r)'
    BY <1>0, <1>4, <1>8, <2>1, <2>2 DEF Hopeless
  <2>4. QED
    BY <1>2, <2>3 DEF Doomed, Hopeless
<1>6. CASE r = Failed(rec, q)
  <2>1. /\ r.kind = rec.kind /\ r.entry = e /\ r.err = "failed" /\ r.applied = rec.applied
        /\ Todo(rec) \ {q} \subseteq Todo(r)
    BY <1>0, <1>2, <1>6, FailedLess
  <2>2. Hopeless(r)'
    BY <1>0, <1>4, <1>8, <2>1 DEF Hopeless
  <2>3. QED
    BY <1>2, <2>2 DEF Doomed, Hopeless
<1>7. QED
  BY <1>1, <1>5, <1>6

\* An undo without hope that ends puts its entry back, whose request is as vain.
LEMMA HopelessEnds ==
  ASSUME TypeInv, StackInv, NEW o \in Ops, EditEnds(o), ~holes', Hopeless(op[o])
  PROVE  Doomed'
<1> DEFINE rec == op[o]
           e == rec.entry
<1>1. rec.kind = "undo"
  BY DEF Hopeless
<1>2. ~UndoDone(o)
  BY DoneTodo DEF UndoDone, Hopeless
<1>3. UndoFailed(o)
  BY <1>1, <1>2 DEF EditEnds, MoveSaved, MoveFailed, GroupSaved, GroupFailed, DetailSaved, DetailFailed,
       Deleted, DeleteFailed, Placed, PlaceFailed, SplitDone, SplitFailed, Pasted, PasteFailed, Done, Broken
<1>4. rec.err = "failed" /\ ~rec.applied /\ stack' = Append(stack, e)
  BY <1>3 DEF UndoFailed, Broken, HalfDone
<1>5. PICK q : Vain(q, e)
  BY <1>4 DEF Hopeless
<1>6. Gone /\ e.ids \subseteq 1..(nextId - 1)
  BY StandsGone, EndsTurn, KnownIds
<1>7. PICK x : x = e
  OBVIOUS
<1>8. Vain(q, x)'
  BY <1>5, <1>6, <1>7, VainStays
<1>9. Len(stack) + 1 \in DOMAIN stack' /\ stack'[Len(stack) + 1] = x
  <2>1. PICK S : stack \in Seq(S)
    BY DEF StackInv
  <2> HIDE DEF e
  <2>2. QED
    BY <1>4, <1>7, <2>1
<1>10. QED
  BY <1>8, <1>9 DEF Doomed, Vain

\* How a coroutine begins, and that the others stay as they are.
LEMMA BeginTurns ==
  ASSUME OpsTyped, NEW rec, NEW f, f = op \/ f = Released(op), Begin(rec, f)
  PROVE  \E o \in Ops, r \in Send(rec) :
           /\ op[o] = Free /\ Turns(o, r) /\ edits' = edits + 1
           /\ ~holes' => ~drift /\ ~InTheWay(rec.entry) /\ ~Misjudged(rec)
<1>1. PICK o \in Ops : op[o] = Free /\ op' \in {[f EXCEPT ![o] = r] : r \in Send(rec)}
                       /\ edits' = edits + 1
                       /\ holes' = (holes \/ drift \/ InTheWay(rec.entry) \/ Misjudged(rec))
  BY DEF Begin
<1>2. PICK r \in Send(rec) : op' = [f EXCEPT ![o] = r]
  BY <1>1
<1>3. Turns(o, r)
  BY <1>2, OneTurnsTo
<1>4. QED
  BY <1>1, <1>2, <1>3

\* What an undo begins with: the last entry, popped, and all its requests to do.
LEMMA UndoTurns ==
  ASSUME TypeInv, StackInv, NEW o \in Ops, Undo(o), ~holes'
  PROVE  \E e, r : /\ e = stack[Len(stack)] /\ Len(stack) \in DOMAIN stack
                      /\ stack' = SubSeq(stack, 1, Len(stack) - 1)
                   /\ op[o] = Free /\ Turns(o, r) /\ ~InTheWay(e) /\ ~Undoing
                   /\ server' = server /\ nextId' = nextId /\ edits' = edits
                   /\ r \in Send([Free EXCEPT !.kind = "undo", !.entry = e, !.stages = UndoStages(e)])
                   /\ r.kind = "undo" /\ r.entry = e /\ r.err = "none" /\ ~r.applied /\ r.got = None
                   /\ Todo(r) = UndoReqs(e)
<1> DEFINE e == stack[Len(stack)]
           rec == [Free EXCEPT !.kind = "undo", !.entry = e, !.stages = UndoStages(e)]
<1>1. /\ stack # <<>> /\ stack' = SubSeq(stack, 1, Len(stack) - 1) /\ op[o] = Free
      /\ op' \in {[op EXCEPT ![o] = r] : r \in Send(rec)}
      /\ ~InTheWay(e) /\ ~Undoing /\ server' = server /\ nextId' = nextId /\ edits' = edits
  BY DEF Undo, bounds
<1>2. PICK S : stack \in Seq(S)
  BY DEF StackInv
<1>3. Len(stack) \in DOMAIN stack
  BY <1>1, <1>2
<1>4. EntryTyped(e, edits, nextId) /\ e.undo # "none"
  BY <1>3 DEF TypeInv, MapsTyped
<1> HIDE DEF e
<1>5. (\E T : UndoStages(e) \in Seq(T)) /\ UndoStages(e) # <<>>
  BY <1>4, UndoStagesTyped
<1>6. /\ DOMAIN rec = DOMAIN Free /\ rec.stages = UndoStages(e) /\ rec.sent = {} /\ rec.kind = "undo"
      /\ rec.entry = e /\ rec.err = "none" /\ ~rec.applied /\ rec.got = None
  BY DEF Free
<1>7. PICK r \in Send(rec) : op' = [op EXCEPT ![o] = r]
  BY <1>1
<1> HIDE DEF rec
<1>8. Same(r, rec) /\ Todo(rec) = UndoReqs(e)
  BY <1>5, <1>6, SendSame DEF Todo, UndoReqs
<1>9. Turns(o, r)
  BY <1>7, OneTurnsTo DEF TypeInv
<1>10. QED
  BY <1>1, <1>3, <1>6, <1>7, <1>8, <1>9 DEF Same, e, rec

\* An undo does not lift the doom: it pops a vain entry only to be without hope itself.
LEMMA UndoDoomed ==
  ASSUME TypeInv, StackInv, NEW o \in Ops, Undo(o), ~holes', Doomed
  PROVE  Doomed'
<1>1. PICK e, r : /\ e = stack[Len(stack)] /\ stack' = SubSeq(stack, 1, Len(stack) - 1)
                  /\ op[o] = Free /\ Turns(o, r) /\ server' = server /\ nextId' = nextId
                  /\ r.kind = "undo" /\ r.entry = e /\ r.err = "none" /\ Todo(r) = UndoReqs(e)
  BY UndoTurns
<1>2. Gone
  BY <1>1, StandsGone
<1>3. ASSUME NEW p \in Ops, Hopeless(op[p]) PROVE Doomed'
  <2>1. p # o
    BY <1>1, <1>3 DEF Hopeless, Free
  <2>2. QED
    BY <1>1, <1>2, <1>3, <2>1, HopelessStays DEF Turns
<1>4. ASSUME NEW k \in DOMAIN stack, NEW q, Vain(q, stack[k]) PROVE Doomed'
  <2>1. PICK x : x = stack[k]
    OBVIOUS
  <2>2. x.ids \subseteq 1..(nextId - 1)
    BY <2>1 DEF TypeInv, MapsTyped, EntryTyped
  <2>3. Vain(q, x)'
    BY <1>2, <1>4, <2>1, <2>2, VainStays
  <2>4. PICK S : stack \in Seq(S)
    BY DEF StackInv
  <2>5. CASE k = Len(stack)
    <3>1. x = e /\ q \in UndoReqs(e)
      BY <1>1, <2>1, <2>3, <2>5 DEF Vain
    <3>2. Hopeless(r)'
      BY <1>1, <2>3, <3>1 DEF Hopeless
    <3>3. op'[o] = r
      BY <1>1 DEF Turns
    <3>4. QED
      BY <3>2, <3>3 DEF Doomed, Hopeless
  <2>6. CASE k # Len(stack)
    <3>1. k \in DOMAIN stack' /\ stack'[k] = x
      BY <1>1, <2>1, <2>4, <2>6
    <3>2. QED
      BY <2>3, <3>1 DEF Doomed, Vain
  <2>7. QED
    BY <2>5, <2>6
<1>5. QED
  BY <1>3, <1>4 DEF Doomed

\* The doom stays: an entry that cannot be undone is never gone from the stack for good.
LEMMA DoomedStep ==
  ASSUME TypeInv, StackInv, Doomed, [Next]_vars, ~holes'
  PROVE  Doomed'
<1>1. Gone
  BY GoneStays
<1>2. ASSUME stack' = stack \/ \E e : stack' = Append(stack, e),
             \A p \in Ops : Hopeless(op[p]) => Doomed'
      PROVE  Doomed'
  BY <1>1, <1>2, StackDoomed DEF Doomed
<1>3. ASSUME NEW o \in Ops, Serve(o) \/ RequestFails(o) PROVE Doomed'
  <2>1. PICK r : stack' = stack /\ op' = [op EXCEPT ![o] = r]
    BY <1>3, RequestTurns
  <2>2. Turns(o, r)
    BY <2>1, OneTurnsTo DEF TypeInv
  <2>3. QED
    BY <1>1, <1>2, <1>3, <2>1, <2>2, HopelessStays, HopelessRequests DEF Turns
<1>4. ASSUME NEW o \in Ops, EditEnds(o) PROVE Doomed'
  <2>1. ASSUME NEW p \in Ops, Hopeless(op[p]) PROVE Doomed'
    <3>1. CASE p = o
      BY <1>4, <2>1, <3>1, HopelessEnds
    <3>2. CASE p # o
      <4>1. op[o].kind = "undo" \/ Turns(o, Free) \/ SplitFailed(o)
        BY <1>4, EndsTurn DEF UndoDone, Done
      <4>2. op[p].kind = "undo" /\ op[o].kind # "undo"
        BY <2>1, <3>2 DEF Hopeless, StackInv
      <4>3. Stays(p)
        BY <3>2, <4>1, <4>2 DEF Turns, SplitFailed, Stays, TypeInv, OpsTyped
      <4>4. QED
        BY <1>1, <2>1, <4>3, HopelessStays
    <3>3. QED
      BY <3>1, <3>2
  <2>2. QED
    BY <1>2, <1>4, <2>1, EndsPush
<1>5. ASSUME NEW o \in Ops, Undo(o) PROVE Doomed'
  BY <1>5, UndoDoomed
<1>6. CASE Aside
  BY <1>1, <1>2, <1>6, AsideStays, HopelessStays
<1>7. CASE Edits
  <2>1. PICK rec, f : (f = op \/ f = Released(op)) /\ Begin(rec, f) /\ stack' = stack
    BY <1>7, EditsBegin
  <2>2. PICK o, r : o \in Ops /\ op[o] = Free /\ Turns(o, r)
    BY <2>1, BeginTurns DEF TypeInv
  <2>3. ~Hopeless(op[o])
    BY <2>2 DEF Hopeless, Free
  <2>4. QED
    BY <1>1, <1>2, <2>1, <2>2, <2>3, HopelessStays DEF Turns
<1>8. QED
  BY <1>3, <1>4, <1>5, <1>6, <1>7, Steps

===============================================================================
