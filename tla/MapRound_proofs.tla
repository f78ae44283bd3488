--------------------------- MODULE MapRound_proofs ----------------------------
(* Undoing everything gives back the map one started with, for any number of *)
(* coroutines, objects, edits and faults.                                    *)
(*                                                                           *)
(* The stack is a history: its entries lead, one undo after the other, from the *)
(* map the backend would be at without what is under way to the map one started *)
(* with, up to the ids of what was deleted and made again.  The cache has to be *)
(* in step, for edits record what they see there.                            *)
EXTENDS MapKnown_proofs

-------------------------------------------------------------------------------
(* The cache, while the backend is where it should be.                        *)

\* The objects that may differ: an undo that has not begun in earnest changed nothing.
Claim(rec) == IF rec.kind = "undo" /\ ~rec.applied THEN {} ELSE Mine(rec)

Trusts(rec, sv, ca) ==
  /\ rec.kind \in {"move", "group", "detail"} =>
       (rec.err = "none" \/ (rec.kind = "move" /\ ~rec.applied) => UpdaterHolds(rec, sv, ca))
  /\ rec.kind = "delete" /\ rec.err = "none" => rec.entry.ids \cap DOMAIN ca = {}
  /\ rec.err # "refetch"

InStep ==
  /\ \A o \in Ops : Trusts(op[o], server, cache)
  /\ \A i \in DOMAIN server \cup DOMAIN cache :
       Settled(i, server, cache) \/ \E o \in Ops : i \in Claim(op[o])

-------------------------------------------------------------------------------
(* The history: the maps that the entries of the stack lead back to.         *)

\* Undoing e leads from map m to map m0.
Leads(e, m, m0) ==
  /\ EntryOK(e)
  /\ \A i : i \notin e.ids => Alike(i, m, m0)
  /\ e.undo # "restore" =>
       /\ e.ids \subseteq DOMAIN m
       /\ \A i \in DOMAIN e.objs : i \in DOMAIN m0 /\ m0[i] = Upserted(m[i], e.objs[i])
       /\ \A i \in e.ids \ DOMAIN e.objs : i \notin DOMAIN m0
       /\ \A i \in e.ids \ DOMAIN e.objs : ~IsLine(m[i]) =>
            \A j \in DOMAIN m0 : IsLine(m0[j]) => m[i].ends[1] \notin Range(m0[j].ends)
  /\ e.undo = "restore" =>
       /\ e.ids \cap DOMAIN m = {}
       /\ \A i \in e.ids : i \in DOMAIN m0 /\ m0[i] = e.objs[i]

\* An undo that has had no effect so far, whose entry still counts.
Pending(rec) == rec.kind = "undo" /\ ~rec.applied
Trail(s) == \/ (\A o \in Ops : ~Pending(op[o])) /\ s = stack
            \/ \E o \in Ops : Pending(op[o]) /\ s = Append(stack, op[o].entry)

\* The objects a coroutine will have changed, and those it will have made, which the undo
\* under way takes back.
Old(rec) ==
  IF Pending(rec) THEN {}
  ELSE IF rec.kind = "undo" /\ rec.entry.undo = "restore"
       THEN {i \in DOMAIN rec.entry.objs : Restore(i, rec.entry.objs[i]) \in Todo(rec)}
       ELSE DOMAIN rec.entry.objs
Young(rec) ==
  IF Pending(rec) THEN {}
  ELSE IF rec.kind = "undo" THEN IF rec.entry.undo = "restore" THEN {}
        ELSE rec.entry.ids \ DOMAIN rec.entry.objs
       ELSE DOMAIN rec.got \ rec.entry.ids

\* The map m is that of the backend, sv, before what rec did to it, or once the undo rec is done.
Before(rec, m, sv) ==
  /\ \A i \in Old(rec) :
       /\ i \in DOMAIN m
       /\ m[i] = IF i \in DOMAIN sv THEN Upserted(sv[i], rec.entry.objs[i]) ELSE rec.entry.objs[i]
  /\ \A i \in Young(rec) : i \notin DOMAIN m
  /\ \A i \in Mine(rec) \ (Old(rec) \cup Young(rec)) : Alike(i, m, sv)

\* While the coroutines are f; no line of m is at a point that an undo will delete.
BaseOf(f, m) ==
  /\ \A o \in Ops : Before(f[o], m, server)
  /\ \A i : (\A o \in Ops : i \notin Mine(f[o])) => Alike(i, m, server)
  /\ \A o \in Ops : f[o].kind = "undo" /\ f[o].applied =>
       \A i \in DOMAIN m : IsLine(m[i]) => Range(m[i].ends) \cap Doors(f[o], server) = {}

\* The maps h that the entries s lead through, back to the start.
Linking(s, h) == \A k \in 1..Len(s) : Leads(s[k], h[k], h[k - 1])
Vanished(s, h) ==
  \A k \in 1..Len(s) : s[k].undo = "restore" =>
    /\ s[k].ids \cap DOMAIN server = {}
    /\ \A j \in k..Len(s) : s[k].ids \cap DOMAIN h[j] = {}
Elsewhere(f, s, h) ==
  \A k \in 0..Len(s) : \A i \in DOMAIN h[k] : \A o \in Ops : Range(h[k][i].ends) \cap Brings(f[o]) = {}
MapsOf(s, h) == \A k \in 0..Len(s) : Map(h[k], Obj(edits), nextId)
StoryOf(f, s, h) ==
  /\ BaseOf(f, h[Len(s)])
  /\ Linking(s, h) /\ Vanished(s, h) /\ Elsewhere(f, s, h) /\ MapsOf(s, h)
  /\ SameMap(h[0], Start)

Kept == \E s, h : Trail(s) /\ StoryOf(op, s, h)

\* The invariant.
RoundInv == holes \/ Doomed \/ (Discreet /\ (drift \/ InStep) /\ Kept)

-------------------------------------------------------------------------------
(* Maps the backend was at.                                                   *)

\* The objects a coroutine changes or makes are its own.
LEMMA OldAndYoung ==
  ASSUME NEW rec, DOMAIN rec.entry.objs \subseteq rec.entry.ids
  PROVE  Old(rec) \subseteq DOMAIN rec.entry.objs /\ Old(rec) \subseteq Mine(rec)
        /\ Young(rec) \subseteq Mine(rec)
BY DEF Old, Young, Mine

\* What the map was before a coroutine stands while its objects do in both maps.
LEMMA BeforeStands ==
  ASSUME NEW rec, DOMAIN rec.entry.objs \subseteq rec.entry.ids, NEW m, NEW m2, NEW sv, NEW sv2,
         Before(rec, m, sv), \A i \in Mine(rec) : Alike(i, m, m2) /\ Alike(i, sv, sv2)
  PROVE  Before(rec, m2, sv2)
<1>1. Old(rec) \subseteq Mine(rec) /\ Young(rec) \subseteq Mine(rec)
  BY OldAndYoung
<1>2. ASSUME NEW i \in Old(rec)
      PROVE  /\ i \in DOMAIN m2
             /\ m2[i] = IF i \in DOMAIN sv2 THEN Upserted(sv2[i], rec.entry.objs[i]) ELSE rec.entry.objs[i]
  <2>1. Alike(i, m, m2) /\ Alike(i, sv, sv2)
    BY <1>1
  <2>2. /\ i \in DOMAIN m
        /\ m[i] = IF i \in DOMAIN sv THEN Upserted(sv[i], rec.entry.objs[i]) ELSE rec.entry.objs[i]
    BY DEF Before
  <2>3. QED
    BY <2>1, <2>2 DEF Alike
<1>3. \A i \in Young(rec) : i \notin DOMAIN m2
  BY <1>1 DEF Before, Alike
<1>4. \A i \in Mine(rec) \ (Old(rec) \cup Young(rec)) : Alike(i, m2, sv2)
  BY DEF Before, Alike
<1>5. QED
  BY <1>2, <1>3, <1>4 DEF Before

\* A free coroutine has changed nothing.
LEMMA FreeBefore ==
  ASSUME NEW m, NEW sv PROVE Before(Free, m, sv)
BY FreeIsSafe, NoMap DEF Before, Old, Young, Pending, Free, NoEntry

\* A coroutine that only waits for the refetch has put everything back.
LEMMA WaitingIsBack ==
  ASSUME NEW rec, rec.kind = "undo", rec.err = "refetch", NEW m, NEW sv, Knows(rec, sv), Before(rec, m, sv)
  PROVE  \A i \in Mine(rec) : Alike(i, m, sv)
<1> DEFINE e == rec.entry
<1>1. rec.applied /\ Todo(rec) = {} /\ Undoer(rec, sv) /\ ~Pending(rec)
  BY DEF Knows, Pending
<1>2. CASE e.undo = "restore"
  <2>1. Old(rec) = {} /\ Young(rec) = {}
    BY <1>1, <1>2 DEF Old, Young
  <2>2. QED
    BY <2>1 DEF Before
<1>3. CASE e.undo # "restore"
  <2>1. Old(rec) = DOMAIN e.objs /\ Young(rec) = e.ids \ DOMAIN e.objs
    BY <1>1, <1>3 DEF Old, Young
  <2>2. DOMAIN rec.got \subseteq e.ids /\ DOMAIN e.objs \subseteq e.ids
    BY <1>1, <1>3 DEF Undoer, EntryOK
  <2>3. ASSUME NEW i \in DOMAIN e.objs PROVE Alike(i, m, sv)
    <3>1. i \in DOMAIN sv /\ Upserted(sv[i], e.objs[i]) = sv[i]
      BY <1>1, <1>3 DEF Undoer
    <3>2. i \in DOMAIN m /\ m[i] = Upserted(sv[i], e.objs[i])
      BY <2>1, <3>1 DEF Before
    <3>3. QED
      BY <3>1, <3>2 DEF Alike
  <2>4. ASSUME NEW i \in e.ids \ DOMAIN e.objs PROVE Alike(i, m, sv)
    <3>1. i \notin DOMAIN sv
      BY <1>1, <1>3 DEF Undoer
    <3>2. i \notin DOMAIN m
      BY <2>1 DEF Before
    <3>3. QED
      BY <3>1, <3>2 DEF Alike
  <2>5. QED
    BY <2>2, <2>3, <2>4 DEF Mine
<1>4. QED
  BY <1>2, <1>3

\* What a map is to all coroutines but one.
Undoes(rec) == rec.kind = "undo" /\ rec.applied
Spare(rec, m, sv) ==
  Undoes(rec) => \A i \in DOMAIN m : IsLine(m[i]) => Range(m[i].ends) \cap Doors(rec, sv) = {}
Others(o, m) ==
  /\ \A p \in Ops \ {o} : Before(op[p], m, server) /\ Spare(op[p], m, server)
  /\ \A i : (\A p \in Ops : i \notin Mine(op[p])) => Alike(i, m, server)

\* The map before all coroutines, seen from one of them.
LEMMA OthersOf ==
  ASSUME NEW o \in Ops, NEW m, BaseOf(op, m)
  PROVE  Others(o, m) /\ Before(op[o], m, server) /\ Spare(op[o], m, server)
BY DEF BaseOf, Others, Spare, Undoes

\* The map stands for one that stays while the backend leaves its objects alone.
LEMMA StaysBefore ==
  ASSUME NEW p \in Ops, Stays(p), Knows(op[p], server), NEW m, NEW m2,
         Before(op[p], m, server), Spare(op[p], m, server),
         \A i \in Mine(op[p]) : Alike(i, m, m2) /\ Alike(i, server, server'),
         m2 = m \/ op[p].kind # "undo"
  PROVE  /\ Before(op'[p], m2, server') /\ Spare(op'[p], m2, server')
         /\ \A i \in Mine(op[p]) \ Mine(op'[p]) : Alike(i, m2, server')
<1>0. DOMAIN op[p].entry.objs \subseteq op[p].entry.ids /\ Targets(op[p]) \subseteq Mine(op[p])
  BY DEF Knows
<1>1. Before(op[p], m2, server')
  BY <1>0, BeforeStands
<1>2. CASE op'[p] = op[p]
  <2>1. Doors(op[p], server') = Doors(op[p], server)
    BY <1>0, DoorsStand
  <2>2. QED
    BY <1>1, <1>2, <2>1 DEF Spare, Undoes
<1>3. CASE op'[p] = Free /\ op[p].kind = "undo" /\ op[p].err = "refetch"
  <2>1. \A i \in Mine(op[p]) : Alike(i, m, server)
    BY <1>3, WaitingIsBack
  <2>2. \A i \in Mine(op[p]) : Alike(i, m2, server')
    BY <2>1 DEF Alike
  <2>3. Spare(Free, m2, server')
    BY DEF Spare, Undoes, Free
  <2>4. QED
    BY <1>3, <2>2, <2>3, FreeBefore
<1>4. QED
  BY <1>2, <1>3 DEF Stays

\* The map of the history that is on top stands for m2 when coroutine o becomes r.
LEMMA BaseTurns ==
  ASSUME Discreet, NEW o \in Ops, NEW r, Turns(o, r), NEW m, NEW m2, Others(o, m),
         \A i : i \notin Mine(op[o]) \cup Mine(r) => Alike(i, m, m2) /\ Alike(i, server, server'),
         \A p \in Ops \ {o} : Mine(r) \cap Mine(op[p]) = {},
         m2 = m \/ \A p \in Ops \ {o} : op[p].kind # "undo",
         Before(r, m2, server'), Spare(r, m2, server'),
         \A i \in Mine(op[o]) \ Mine(r) : Alike(i, m2, server')
  PROVE  BaseOf(op, m2)'
<1>1. op'[o] = r
  BY DEF Turns
<1>2. ASSUME NEW p \in Ops \ {o}
      PROVE  /\ Before(op'[p], m2, server') /\ Spare(op'[p], m2, server')
             /\ \A i \in Mine(op[p]) \ Mine(op'[p]) : Alike(i, m2, server')
  <2>1. Stays(p) /\ Knows(op[p], server) /\ Before(op[p], m, server) /\ Spare(op[p], m, server)
    BY DEF Turns, Discreet, Others
  <2>2. \A i \in Mine(op[p]) : i \notin Mine(op[o]) \cup Mine(r)
    BY DEF Discreet
  <2>3. \A i \in Mine(op[p]) : Alike(i, m, m2) /\ Alike(i, server, server')
    BY <2>2
  <2>4. QED
    BY <2>1, <2>3, StaysBefore
<1>3. \A p \in Ops : Before(op'[p], m2, server') /\ Spare(op'[p], m2, server')
  BY <1>1, <1>2
<1>4. ASSUME NEW i, \A p \in Ops : i \notin Mine(op'[p]) PROVE Alike(i, m2, server')
  <2>1. CASE \E p \in Ops \ {o} : i \in Mine(op[p])
    BY <1>2, <1>4, <2>1
  <2>2. CASE i \in Mine(op[o])
    BY <1>1, <1>4, <2>2
  <2>3. CASE \A p \in Ops : i \notin Mine(op[p])
    <3>1. Alike(i, m, server) /\ i \notin Mine(op[o]) \cup Mine(r)
      BY <1>1, <1>4, <2>3 DEF Others
    <3>2. Alike(i, m, m2) /\ Alike(i, server, server')
      BY <3>1
    <3>3. QED
      BY <3>1, <3>2 DEF Alike
  <2>4. QED
    BY <2>1, <2>2, <2>3
<1>5. QED
  BY <1>3, <1>4 DEF BaseOf, Spare, Undoes

\* The map before all coroutines stands while they and the backend do.
LEMMA BaseStays ==
  ASSUME Discreet, server' = server, \A p \in Ops : Stays(p), NEW m, BaseOf(op, m)
  PROVE  BaseOf(op, m)'
<1>1. \A i : Alike(i, m, m) /\ Alike(i, server, server')
  BY DEF Alike
<1>2. ASSUME NEW p \in Ops
      PROVE  /\ Before(op'[p], m, server') /\ Spare(op'[p], m, server')
             /\ \A i \in Mine(op[p]) \ Mine(op'[p]) : Alike(i, m, server')
  <2>1. Stays(p) /\ Knows(op[p], server) /\ Before(op[p], m, server) /\ Spare(op[p], m, server)
    BY OthersOf DEF Discreet
  <2>2. QED
    BY <1>1, <2>1, StaysBefore
<1>3. ASSUME NEW i, \A p \in Ops : i \notin Mine(op'[p]) PROVE Alike(i, m, server')
  <2>1. CASE \E p \in Ops : i \in Mine(op[p])
    BY <1>2, <1>3, <2>1
  <2>2. CASE \A p \in Ops : i \notin Mine(op[p])
    BY <2>2 DEF BaseOf
  <2>3. QED
    BY <2>1, <2>2
<1>4. QED
  BY <1>2, <1>3 DEF BaseOf, Spare, Undoes

-------------------------------------------------------------------------------
(* The history.                                                               *)

\* The entries that lead back to the start are about objects that were made.
Told(s) ==
  /\ \E S : s \in Seq(S)
  /\ Len(s) \in Nat /\ DOMAIN s = 1..Len(s)
  /\ \A k \in 1..Len(s) : s[k].ids \subseteq 1..(nextId - 1)

\* The entries on the trail are typed, and there are no more of them than the stack may hold.
LEMMA TrailTyped ==
  ASSUME TypeInv, StackInv, NEW s, Trail(s)
  PROVE  Told(s)
<1>1. PICK S : stack \in Seq(S)
  BY DEF StackInv
<1>2. \A k \in DOMAIN stack : stack[k].ids \subseteq 1..(nextId - 1)
  BY DEF TypeInv, MapsTyped, EntryTyped
<1>3. CASE s = stack
  BY <1>1, <1>2, <1>3 DEF Told
<1>4. ASSUME NEW o \in Ops, s = Append(stack, op[o].entry) PROVE Told(s)
  <2>1. PICK e : e = op[o].entry
    OBVIOUS
  <2>2. e.ids \subseteq 1..(nextId - 1)
    BY <2>1, KnownIds
  <2>3. stack \in Seq(S \cup {e}) /\ e \in S \cup {e}
    BY <1>1
  <2>4. s \in Seq(S \cup {e}) /\ Len(s) = Len(stack) + 1 /\ Len(s) \in Nat /\ DOMAIN s = 1..Len(s)
    BY <1>4, <2>1, <2>3
  <2>5. \A k \in 1..Len(s) : s[k].ids \subseteq 1..(nextId - 1)
    BY <1>1, <1>2, <1>4, <2>1, <2>2
  <2>6. QED
    BY <2>4, <2>5 DEF Told
<1>5. QED
  BY <1>3, <1>4 DEF Trail

\* No object of the history is at a place of an edit to come.
LEMMA MapsOld ==
  ASSUME TypeInv, NEW m, Map(m, Obj(edits), nextId), NEW i \in DOMAIN m
  PROVE  Range(m[i].ends) \cap New = {} /\ i \in 1..(nextId - 1) /\ m[i] \in Obj(edits) /\ m[i] \in Part(edits)
<1>1. m[i] \in Obj(edits) /\ m[i] \in Part(edits) /\ i \in 1..(nextId - 1)
  BY DEF Map, Part
<1>2. QED
  BY <1>1, ObjEnds, OldPlaces

\* The same maps lead back to the start after a step that keeps the entries.
LEMMA StorySame ==
  ASSUME TypeInv, Gone, edits \in Nat, edits' \in Nat, edits <= edits', NEW f, NEW s, NEW h, StoryOf(f, s, h),
         Told(s), BaseOf(op, h[Len(s)])', nextId' \in Nat,
         \A p \in Ops : Brings(op'[p]) \subseteq Brings(f[p]) \cup New
  PROVE  StoryOf(op, s, h)'
<1>1. MapsOf(s, h)'
  <2>1. Obj(edits) \subseteq Obj(edits') /\ nextId \in Nat /\ nextId <= nextId'
    BY ObjGrows DEF Gone, TypeInv, MapsTyped
  <2>2. ASSUME NEW k \in 0..Len(s) PROVE Map(h[k], Obj(edits'), nextId')
    <3>1. Map(h[k], Obj(edits), nextId)
      BY DEF StoryOf, MapsOf
    <3>2. QED
      BY <2>1, <3>1, MapGrows
  <2>3. QED
    BY <2>2 DEF MapsOf
<1>2. Vanished(s, h)'
  <2>1. ASSUME NEW k \in 1..Len(s), s[k].undo = "restore" PROVE s[k].ids \cap DOMAIN server' = {}
    BY <2>1 DEF StoryOf, Vanished, Gone, Told
  <2>2. QED
    BY <2>1 DEF StoryOf, Vanished
<1>3. ASSUME NEW k \in 0..Len(s), NEW i \in DOMAIN h[k], NEW p \in Ops
      PROVE  Range(h[k][i].ends) \cap Brings(op'[p]) = {}
  <2>1. Map(h[k], Obj(edits), nextId) /\ Range(h[k][i].ends) \cap Brings(f[p]) = {}
    BY DEF StoryOf, MapsOf, Elsewhere
  <2>2. Range(h[k][i].ends) \cap New = {}
    BY <2>1, MapsOld
  <2>3. QED
    BY <2>1, <2>2
<1>4. Elsewhere(op, s, h)'
  BY <1>3 DEF Elsewhere
<1>5. QED
  BY <1>1, <1>2, <1>4 DEF StoryOf

\* The history of an edit.
BeforeEdit(rec, m, sv) ==
  /\ \A i \in rec.entry.ids : /\ i \in DOMAIN m
                              /\ i \in DOMAIN sv => m[i] = Upserted(sv[i], rec.entry.objs[i])
                              /\ i \notin DOMAIN sv => m[i] = rec.entry.objs[i]
  /\ \A i \in DOMAIN rec.got \ rec.entry.ids : i \notin DOMAIN m

\* What the map was before an edit: what it recorded is as recorded, and what it made is not there.
LEMMA EditBefore ==
  ASSUME NEW rec, rec.kind # "undo", rec.entry.ids = DOMAIN rec.entry.objs
  PROVE  /\ Old(rec) = rec.entry.ids /\ Young(rec) = DOMAIN rec.got \ rec.entry.ids /\ ~Pending(rec)
         /\ \A m, sv : Before(rec, m, sv) <=> BeforeEdit(rec, m, sv)
         /\ \A m, sv : Spare(rec, m, sv)
<1>1. Old(rec) = rec.entry.ids /\ Young(rec) = DOMAIN rec.got \ rec.entry.ids /\ ~Pending(rec)
  BY DEF Old, Young, Pending
<1>2. Mine(rec) \ (Old(rec) \cup Young(rec)) = {}
  BY <1>1 DEF Mine
<1>3. \A m, sv : Before(rec, m, sv) <=> BeforeEdit(rec, m, sv)
  BY <1>1, <1>2 DEF Before, BeforeEdit
<1>4. QED
  BY <1>1, <1>3 DEF Spare, Undoes

\* All edits have recorded what they change.
LEMMA EditRecorded ==
  ASSUME NEW rec, NEW sv, Knows(rec, sv), rec.kind # "undo"
  PROVE  rec.entry.ids = DOMAIN rec.entry.objs
<1>1. Free.entry.ids = {} /\ DOMAIN Free.entry.objs = {}
  BY NoMap DEF Free, NoEntry
<1>2. CASE rec.kind = "free"
  BY <1>1, <1>2 DEF Knows
<1>3. CASE rec.kind \in Changing
  BY <1>3 DEF Knows, Changer, Formed
<1>4. CASE rec.kind = "delete"
  BY <1>4 DEF Knows, Deleter
<1>5. CASE rec.kind = "unsplit"
  BY <1>5 DEF Knows, Unsplitter
<1>6. QED
  BY <1>2, <1>3, <1>4, <1>5 DEF Knows, Kinds, Changing

\* What an edit that was answered is, and that the map it began with still stands.
LEMMA EditAnswered ==
  ASSUME Discreet, TypeInv, NEW o \in Ops, op[o].kind # "undo", NEW q \in op[o].sent, Found(q), Apply(q),
         NEW r, NEW got, Answered(r, op[o], q, got), Follows(r, op[o], q),
         NEW m, Map(m, Obj(edits), nextId), Before(op[o], m, server)
  PROVE  /\ Mine(op[o]) \subseteq Mine(r) /\ Mine(r) \cap 1..(nextId - 1) \subseteq Mine(op[o])
         /\ Brings(r) \subseteq Brings(op[o])
         /\ \A i : i \notin Mine(r) => Alike(i, server, server')
         /\ Before(r, m, server') /\ ~Pending(r) /\ Spare(r, m, server')
<1> DEFINE rec == op[o]
<1>1. /\ Knows(rec, server) /\ q \in Todo(rec) /\ rec.kind \in Kinds /\ rec.kind # "free"
      /\ q.do \in {"update", "delete", "create"}
  BY FreeIsSafe DEF Discreet, Todo, Knows, TypeInv, OpsTyped, OpTyped, RequestTyped
<1>2. r.kind = rec.kind /\ r.entry = rec.entry /\ Todo(r) \subseteq Todo(rec)
  BY DEF Answered
<1>3. Load(r) \subseteq Load(rec)
  BY <1>2, TodoLess
<1>4. /\ DOMAIN rec.got \subseteq 1..(nextId - 1) /\ rec.entry.ids \subseteq 1..(nextId - 1)
      /\ DOMAIN server \subseteq 1..(nextId - 1)
  BY KnownIds
<1> HIDE DEF rec
<1>5. rec.entry.ids = DOMAIN rec.entry.objs
  BY <1>1, EditRecorded DEF rec
<1>6. BeforeEdit(rec, m, server)
  BY <1>5, EditBefore DEF rec
<1>7. ASSUME BeforeEdit(r, m, server') PROVE Before(r, m, server') /\ ~Pending(r) /\ Spare(r, m, server')
  BY <1>2, <1>5, <1>7, EditBefore DEF rec
<1>8. CASE q.do = "update"
  <2>1. rec.kind \in Changing
    BY <1>1, <1>8 DEF Knows, Deleter, Unsplitter, Kinds, Changing, Delete, rec
  <2>2. q.ids \subseteq rec.entry.ids /\ Laid(r, rec, q) /\ Changer(rec, server)
    BY <1>1, <1>8, <2>1, ChangerUpdated DEF rec, Knows
  <2>3. /\ DOMAIN server' = DOMAIN server
        /\ \A i \in DOMAIN server \ q.ids : server'[i] = server[i]
        /\ \A i \in q.ids : i \in DOMAIN server /\ server'[i] = Upserted(server[i], q.objs[1])
           /\ server'[i].ends = q.objs[1].ends
        /\ DOMAIN r.got = DOMAIN rec.got \cup q.ids
        /\ \A i \in q.ids : r.got[i] = server'[i]
        /\ \A i \in DOMAIN rec.got \ q.ids : r.got[i] = rec.got[i]
        /\ q.objs[1] \in Load(rec)
    BY <2>2 DEF Laid
  <2>4. Brings(r) \subseteq Brings(rec)
    BY <1>2, <1>3, <2>3, BringsLess DEF rec
  <2>5. Mine(r) = Mine(rec)
    BY <1>2, <2>2, <2>3 DEF Mine, rec
  <2>6. \A i : i \notin Mine(r) => Alike(i, server, server')
    BY <2>2, <2>3, <2>5 DEF Mine, Alike
  <2>7. PICK i \in rec.entry.ids : q.ids = {i} /\ DOMAIN q.objs[1] \subseteq DOMAIN rec.entry.objs[i]
    BY <1>1, <1>8, <2>2 DEF Changer, Formed, rec
  <2>8. Upserted(server'[i], rec.entry.objs[i]) = Upserted(server[i], rec.entry.objs[i])
    BY <2>3, <2>7, OverAgain
  <2>9. \A j \in rec.entry.ids \cap DOMAIN server :
          Upserted(server'[j], rec.entry.objs[j]) = Upserted(server[j], rec.entry.objs[j])
    BY <2>3, <2>7, <2>8
  <2>10. r.entry = rec.entry /\ DOMAIN r.got \ r.entry.ids = DOMAIN rec.got \ rec.entry.ids
    BY <1>2, <2>2, <2>3 DEF rec
  <2>11. BeforeEdit(r, m, server')
    BY <1>6, <2>3, <2>9, <2>10 DEF BeforeEdit
  <2>12. QED
    BY <1>7, <2>4, <2>5, <2>6, <2>11 DEF rec
<1>9. CASE q.do = "create"
  <2>1. rec.kind \in Changing
    BY <1>1, <1>9 DEF Knows, Deleter, Unsplitter, Kinds, Changing, Delete, rec
  <2>2. /\ Changer(r, server')
        /\ \A j \in DOMAIN server : j \in DOMAIN server' /\ server'[j] = server[j]
        /\ \A j \in DOMAIN server' \ DOMAIN server :
             j \in DOMAIN r.got \ 1..(nextId - 1) /\ \E x \in Load(rec) : server'[j] = x
        /\ DOMAIN r.got \cap 1..(nextId - 1) = DOMAIN rec.got
        /\ \A j \in DOMAIN rec.got : r.got[j] = rec.got[j]
    BY <1>9, <2>1, ChangerCreated DEF rec
  <2>3. ASSUME NEW j \in DOMAIN r.got
        PROVE \/ j \in DOMAIN rec.got /\ r.got[j] = rec.got[j]
              \/ \E x \in Load(rec) : x.ends = r.got[j].ends
    <3>1. CASE j \in DOMAIN rec.got
      BY <2>2, <3>1
    <3>2. CASE j \notin DOMAIN rec.got
      <4>1. j \notin 1..(nextId - 1) /\ j \in DOMAIN server' /\ r.got[j] = server'[j]
        BY <2>2, <2>3, <3>2 DEF Changer, Formed
      <4>2. j \notin DOMAIN server
        BY <1>4, <4>1
      <4>3. QED
        BY <2>2, <4>1, <4>2
    <3>3. QED
      BY <3>1, <3>2
  <2>4. Brings(r) \subseteq Brings(rec)
    BY <1>2, <1>3, <2>3, BringsLess DEF rec
  <2>5. Mine(rec) \subseteq Mine(r) /\ Mine(r) \cap 1..(nextId - 1) \subseteq Mine(rec)
    BY <1>2, <2>2 DEF Mine, rec
  <2>6. \A i : i \notin Mine(r) => Alike(i, server, server')
    BY <2>2 DEF Mine, Alike
  <2>7. DOMAIN m \subseteq 1..(nextId - 1)
    BY DEF Map
  <2>8. \A i \in rec.entry.ids : (i \in DOMAIN server' <=> i \in DOMAIN server)
        /\ (i \in DOMAIN server => server'[i] = server[i])
    BY <1>4, <2>2
  <2>9. \A i \in DOMAIN r.got \ rec.entry.ids : i \notin DOMAIN m
    BY <1>6, <2>2, <2>7 DEF BeforeEdit
  <2>10. BeforeEdit(r, m, server')
    BY <1>2, <1>6, <2>8, <2>9 DEF BeforeEdit, rec
  <2>11. QED
    BY <1>7, <2>4, <2>5, <2>6, <2>10 DEF rec
<1>10. ASSUME NEW gone, gone \subseteq Mine(rec), server' = Removed(server, gone),
              DOMAIN r.got = DOMAIN rec.got, \A j \in DOMAIN r.got : r.got[j] = rec.got[j],
              \A i \in gone \cap rec.entry.ids : m[i] = rec.entry.objs[i]
       PROVE  /\ Mine(r) = Mine(rec) /\ Brings(r) \subseteq Brings(rec)
              /\ \A i : i \notin Mine(r) => Alike(i, server, server')
              /\ Before(r, m, server') /\ ~Pending(r) /\ Spare(r, m, server')
  <2>1. Brings(r) \subseteq Brings(rec)
    BY <1>2, <1>3, <1>10, BringsLess DEF rec
  <2>2. Mine(r) = Mine(rec)
    BY <1>2, <1>10 DEF Mine, rec
  <2>3. DOMAIN server' = DOMAIN server \ gone /\ \A i \in DOMAIN server' : server'[i] = server[i]
    BY <1>10 DEF Removed, Only
  <2>4. \A i : i \notin Mine(r) => Alike(i, server, server')
    BY <1>10, <2>2, <2>3 DEF Alike
  <2>5. BeforeEdit(r, m, server')
    BY <1>2, <1>6, <1>10, <2>3 DEF BeforeEdit, rec
  <2>6. QED
    BY <1>7, <2>1, <2>2, <2>4, <2>5
<1>11. CASE rec.kind = "delete"
  <2>1. DOMAIN rec.got = {} /\ Deleter(rec, server)
    BY <1>1, <1>11 DEF Knows, Deleter, rec
  <2>2. /\ DOMAIN r.got = {}
        /\ server' = Removed(server, rec.entry.ids) /\ rec.entry.ids \subseteq DOMAIN server
    BY <1>11, DeleterAnswered DEF rec
  <2>3. \A i \in rec.entry.ids : server[i] = rec.entry.objs[i]
    BY <2>1, <2>2 DEF Deleter
  <2>4. ASSUME NEW i \in rec.entry.ids PROVE m[i] = rec.entry.objs[i]
    <3>1. m[i] = Upserted(server[i], rec.entry.objs[i]) /\ server[i] = rec.entry.objs[i]
          /\ server[i] \in Obj(edits)
      BY <1>6, <2>2, <2>3, <2>4 DEF BeforeEdit, TypeInv, MapsTyped, Map
    <3>2. QED
      BY <3>1, PartOver DEF Part
  <2>5. QED
    BY <1>10, <2>1, <2>2, <2>4 DEF Mine, rec
<1>12. CASE rec.kind = "unsplit"
  <2>1. r.got = rec.got /\ server' = Removed(server, DOMAIN rec.got)
    BY <1>12, UnsplitterAnswered DEF rec
  <2>2. DOMAIN rec.got \cap rec.entry.ids = {}
    BY <1>1, <1>12 DEF Knows, Unsplitter, rec
  <2>3. QED
    BY <1>10, <2>1, <2>2 DEF Mine, rec
<1>13. CASE q.do = "delete"
  <2>1. rec.kind \notin Changing
    BY <1>1, <1>13 DEF Knows, Changer, Formed, rec
  <2>2. QED
    BY <1>1, <1>11, <1>12, <2>1 DEF Kinds, Changing, rec
<1>14. QED
  BY <1>1, <1>8, <1>9, <1>13

\* Where the entries lead when one coroutine steps and none is pushed or popped.
LEMMA TrailTurns ==
  ASSUME Discreet, NEW s, Trail(s), NEW o \in Ops, NEW r, Turns(o, r), stack' = stack,
         Pending(r) <=> Pending(op[o]), Pending(r) => r.entry = op[o].entry
  PROVE  Trail(s)'
<1>1. ASSUME NEW p \in Ops
      PROVE  (Pending(op'[p]) <=> Pending(op[p])) /\ (Pending(op[p]) => op'[p].entry = op[p].entry)
  <2>1. CASE p = o
    BY <2>1 DEF Turns
  <2>2. CASE p # o
    <3>1. Stays(p) /\ Knows(op[p], server)
      BY <2>2 DEF Turns, Discreet
    <3>2. ~Pending(Free)
      BY DEF Pending, Free
    <3>3. QED
      BY <3>1, <3>2 DEF Stays, Knows, Pending
  <2>3. QED
    BY <2>1, <2>2
<1>2. CASE (\A p \in Ops : ~Pending(op[p])) /\ s = stack
  BY <1>1, <1>2 DEF Trail
<1>3. ASSUME NEW p \in Ops, Pending(op[p]), s = Append(stack, op[p].entry) PROVE Trail(s)'
  <2>1. Pending(op'[p]) /\ s = Append(stack', op'[p].entry)
    BY <1>1, <1>3
  <2>2. QED
    BY <2>1 DEF Trail
<1>4. QED
  BY <1>2, <1>3 DEF Trail

\* The trail stands while the stack and the coroutines do.
LEMMA TrailStays ==
  ASSUME Discreet, NEW s, Trail(s), \A p \in Ops : Stays(p), stack' = stack
  PROVE  Trail(s)'
<1>1. ASSUME NEW p \in Ops
      PROVE  (Pending(op'[p]) <=> Pending(op[p])) /\ (Pending(op[p]) => op'[p].entry = op[p].entry)
  <2>1. Stays(p) /\ Knows(op[p], server) /\ ~Pending(Free)
    BY DEF Discreet, Pending, Free
  <2>2. QED
    BY <2>1 DEF Stays, Knows, Pending
<1>2. CASE (\A p \in Ops : ~Pending(op[p])) /\ s = stack
  BY <1>1, <1>2 DEF Trail
<1>3. ASSUME NEW p \in Ops, Pending(op[p]), s = Append(stack, op[p].entry) PROVE Trail(s)'
  <2>1. Pending(op'[p]) /\ s = Append(stack', op'[p].entry)
    BY <1>1, <1>3
  <2>2. QED
    BY <2>1 DEF Trail
<1>4. QED
  BY <1>2, <1>3 DEF Trail

\* A coroutine steps, and the maps of the history stay.
LEMMA KeptTurns ==
  ASSUME TypeInv, StackInv, Discreet, Gone, nextId' \in Nat, edits' \in {edits, edits + 1}, stack' = stack,
         NEW s, NEW h, Trail(s), StoryOf(op, s, h),
         NEW o \in Ops, NEW r, Turns(o, r),
         Pending(r) <=> Pending(op[o]), Pending(r) => r.entry = op[o].entry,
         \A i : i \notin Mine(op[o]) \cup Mine(r) => Alike(i, server, server'),
         \A p \in Ops \ {o} : Mine(r) \cap Mine(op[p]) = {},
         Before(r, h[Len(s)], server'), Spare(r, h[Len(s)], server'),
         \A i \in Mine(op[o]) \ Mine(r) : Alike(i, h[Len(s)], server'),
         Brings(r) \subseteq Brings(op[o]) \cup New
  PROVE  Kept'
<1> DEFINE m == h[Len(s)]
<1>1. Told(s) /\ edits \in Nat /\ edits' \in Nat /\ edits <= edits'
  BY TrailTyped DEF TypeInv, MapsTyped
<1>2. Others(o, m)
  BY OthersOf DEF StoryOf
<1>3. BaseOf(op, m)'
  <2>1. \A i : Alike(i, m, m)
    BY DEF Alike
  <2> HIDE DEF m
  <2>2. QED
    BY <1>2, <2>1, BaseTurns DEF m
<1>4. ASSUME NEW p \in Ops PROVE Brings(op'[p]) \subseteq Brings(op[p]) \cup New
  <2>1. CASE p = o
    BY <2>1 DEF Turns
  <2>2. CASE p # o
    BY <2>2, StaysSafe DEF Turns, Discreet
  <2>3. QED
    BY <2>1, <2>2
<1>5. StoryOf(op, s, h)'
  BY <1>1, <1>3, <1>4, StorySame
<1>6. Trail(s)'
  BY TrailTurns
<1>7. QED
  BY <1>5, <1>6 DEF Kept

\* Fetches leave the history alone.
LEMMA KeptAside ==
  ASSUME TypeInv, StackInv, Discreet, Kept, Aside, ~holes'
  PROVE  Kept'
<1>1. PICK s, h : Trail(s) /\ StoryOf(op, s, h)
  BY DEF Kept
<1>2. /\ server' = server /\ nextId' = nextId /\ stack' = stack /\ edits \in Nat
         /\ edits' \in {edits, edits + 1}
      /\ \A p \in Ops : Stays(p)
  BY AsideStays
<1>3. Gone /\ nextId' \in Nat /\ edits' \in Nat /\ edits <= edits'
  BY <1>2, StandsGone DEF TypeInv, MapsTyped
<1>4. BaseOf(op, h[Len(s)])'
  BY <1>1, <1>2, BaseStays DEF StoryOf
<1>5. \A p \in Ops : Brings(op'[p]) \subseteq Brings(op[p]) \cup New
  BY <1>2, StaysSafe DEF Discreet
<1>6. Told(s)
  BY <1>1, TrailTyped
<1>7. StoryOf(op, s, h)'
  BY <1>1, <1>2, <1>3, <1>4, <1>5, <1>6, StorySame
<1>8. Trail(s)'
  BY <1>1, <1>2, TrailStays
<1>9. QED
  BY <1>7, <1>8 DEF Kept

\* An edit ends that has changed nothing, or changed it back.
LEMMA KeptGivesUp ==
  ASSUME TypeInv, StackInv, Discreet, server' = server, nextId' = nextId, edits' = edits, stack' = stack,
         NEW s, NEW h, Trail(s), StoryOf(op, s, h),
         NEW o \in Ops, Turns(o, Free), ~Pending(op[o]), \A i \in Mine(op[o]) : Alike(i, h[Len(s)], server)
  PROVE  Kept'
<1>1. Gone /\ nextId' \in Nat
  BY StandsGone DEF TypeInv, MapsTyped
<1>2. ~Pending(Free) /\ Mine(Free) = {} /\ Brings(Free) = {} /\ Spare(Free, h[Len(s)], server')
  BY FreeIsSafe DEF Pending, Spare, Undoes, Free
<1>3. Before(Free, h[Len(s)], server') /\ \A i : Alike(i, server, server')
  BY FreeBefore DEF Alike
<1>4. QED
  BY <1>1, <1>2, <1>3, KeptTurns

\* The map m, with the objects ids as the backend has them.
Now(m, ids) ==
  [i \in (DOMAIN m \ ids) \cup (DOMAIN server \cap ids) |-> IF i \in ids THEN server[i] ELSE m[i]]

\* The map before all coroutines with the objects of some taken from the backend is a map.
LEMMA NowIs ==
  ASSUME TypeInv, NEW m, Map(m, Obj(edits), nextId), NEW ids
  PROVE  /\ Map(Now(m, ids), Obj(edits), nextId)
         /\ \A i : i \notin ids => Alike(i, m, Now(m, ids))
         /\ \A i \in ids : Alike(i, Now(m, ids), server)
<1>1. Map(server, Obj(edits), nextId)
  BY DEF TypeInv, MapsTyped
<1>2. QED
  BY <1>1 DEF Now, Map, Alike

\* An entry marks an edit that was carried out on the map m.
Marks(o, e, m) ==
  /\ EntryOK(e) /\ e.ids = Mine(op[o])
  /\ e.undo = "restore" =>
       e.ids \cap DOMAIN server = {} /\ \A i \in e.ids : i \in DOMAIN m /\ m[i] = e.objs[i]
  /\ e.undo # "restore" =>
       /\ e.ids \subseteq DOMAIN server
       /\ \A i \in DOMAIN e.objs : i \in DOMAIN m /\ m[i] = Upserted(server[i], e.objs[i])
       /\ \A i \in e.ids \ DOMAIN e.objs :
            i \notin DOMAIN m /\ (~IsLine(server[i]) => server[i].ends[1] \in Brings(op[o]))

\* The entry of an edit that is done leads back from the map after it to the map before it.
LEMMA MarkLeads ==
  ASSUME TypeInv, NEW o \in Ops, NEW e, NEW m, Map(m, Obj(edits), nextId), Marks(o, e, m),
         \A j \in DOMAIN m : Range(m[j].ends) \cap Brings(op[o]) = {}
  PROVE  Leads(e, Now(m, e.ids), m)
<1> DEFINE m2 == Now(m, e.ids)
<1>1. /\ \A i : i \notin e.ids => Alike(i, m, m2)
      /\ \A i \in e.ids : Alike(i, m2, server)
  BY NowIs
<1>2. EntryOK(e) /\ DOMAIN e.objs \subseteq e.ids
  BY DEF Marks, EntryOK
<1> HIDE DEF m2
<1>3. \A i : i \notin e.ids => Alike(i, m2, m)
  BY <1>1 DEF Alike
<1>4. CASE e.undo = "restore"
  <2>1. e.ids \cap DOMAIN m2 = {}
    BY <1>1, <1>4 DEF Marks, Alike
  <2>2. \A i \in e.ids : i \in DOMAIN m /\ m[i] = e.objs[i]
    BY <1>4 DEF Marks
  <2>3. QED
    BY <1>2, <1>3, <1>4, <2>1, <2>2 DEF Leads, m2
<1>5. CASE e.undo # "restore"
  <2>1. \A i \in e.ids : i \in DOMAIN m2 /\ m2[i] = server[i]
    BY <1>1, <1>5 DEF Marks, Alike
  <2>2. \A i \in DOMAIN e.objs : i \in DOMAIN m /\ m[i] = Upserted(m2[i], e.objs[i])
    BY <1>2, <1>5, <2>1 DEF Marks
  <2>3. ASSUME NEW i \in e.ids \ DOMAIN e.objs
        PROVE  /\ i \notin DOMAIN m
               /\ ~IsLine(m2[i]) => \A j \in DOMAIN m : IsLine(m[j]) => m2[i].ends[1] \notin Range(m[j].ends)
    BY <1>5, <2>1, <2>3 DEF Marks
  <2>4. QED
    BY <1>2, <1>3, <1>5, <2>1, <2>2, <2>3 DEF Leads, m2
<1>6. QED
  BY <1>4, <1>5

\* An edit that ends and pushes its entry adds one map to the history.
LEMMA KeptPushed ==
  ASSUME TypeInv, StackInv, Discreet, server' = server, nextId' = nextId, edits' = edits,
         NEW e, Push(e), ~holes', NEW s, NEW h, Trail(s), StoryOf(op, s, h),
         NEW o \in Ops, Turns(o, Free), Marks(o, e, h[Len(s)])
  PROVE  Kept'
<1> DEFINE n == Len(s)
           m == h[n]
<1>0. PICK m2, s2, h2 : /\ m2 = Now(m, e.ids) /\ s2 = Append(stack, e)
                         /\ h2 = [k \in 0..(n + 1) |-> IF k = n + 1 THEN m2 ELSE h[k]]
  OBVIOUS
<1>1. stack' = s2 /\ ~Undoing
  BY <1>0, PushKeeps
<1>2. \A p \in Ops : op[p].kind # "undo" /\ ~Pending(op[p])
  BY <1>1 DEF Undoing, Pending
<1>3. s = stack /\ Told(s) /\ n \in Nat
  BY <1>2, TrailTyped DEF Trail, Told
<1>4. PICK S : stack \in Seq(S)
  BY DEF StackInv
<1>5. /\ Len(s2) = n + 1 /\ s2[n + 1] = e
      /\ \A k \in 1..n : s2[k] = s[k]
  BY <1>0, <1>3, <1>4
<1>6. /\ h2[n + 1] = m2
      /\ \A k \in 0..n : h2[k] = h[k]
  BY <1>0, <1>3
<1>7. Map(m, Obj(edits), nextId)
  BY <1>3 DEF StoryOf, MapsOf
<1>8. /\ Map(m2, Obj(edits), nextId)
      /\ \A i : i \notin e.ids => Alike(i, m, m2)
      /\ \A i \in e.ids : Alike(i, m2, server)
  BY <1>0, <1>7, NowIs
<1>9. e.ids = Mine(op[o])
  BY DEF Marks
<1>10. ASSUME NEW p \in Ops, NEW j \in DOMAIN m PROVE Range(m[j].ends) \cap Brings(op[p]) = {}
  <2>1. n \in 0..n
    BY <1>3
  <2>2. QED
    BY <2>1 DEF StoryOf, Elsewhere
<1>11. Leads(e, m2, m)
  BY <1>0, <1>7, <1>10, MarkLeads
<1>12. BaseOf(op, m2)'
  <2>1. Others(o, m)
    BY OthersOf DEF StoryOf
  <2>2. \A i : i \notin Mine(op[o]) \cup Mine(Free) => Alike(i, m, m2) /\ Alike(i, server, server')
    BY <1>8, <1>9 DEF Alike
  <2>3. Mine(Free) = {} /\ Before(Free, m2, server') /\ Spare(Free, m2, server')
    BY FreeIsSafe, FreeBefore DEF Spare, Undoes, Free
  <2>4. \A i \in Mine(op[o]) \ Mine(Free) : Alike(i, m2, server')
    BY <1>8, <1>9
  <2> HIDE DEF m
  <2>5. QED
    BY <1>2, <2>1, <2>2, <2>3, <2>4, BaseTurns
<1>13. Trail(s2)'
  <2>1. ASSUME NEW p \in Ops PROVE ~Pending(op'[p])
    <3>1. ~Pending(Free)
      BY DEF Pending, Free
    <3>2. QED
      BY <1>2, <3>1 DEF Turns, Stays
  <2>2. QED
    BY <1>1, <2>1 DEF Trail
<1>14. Linking(s2, h2)
  <2>1. ASSUME NEW k \in 1..(n + 1) PROVE Leads(s2[k], h2[k], h2[k - 1])
    <3>1. CASE k = n + 1
      <4>1. k - 1 = n /\ n \in 0..n
        BY <1>3, <3>1
      <4>2. QED
        BY <1>5, <1>6, <1>11, <3>1, <4>1
    <3>2. CASE k # n + 1
      <4>1. k \in 1..n /\ k \in 0..n /\ k - 1 \in 0..n
        BY <1>3, <3>2
      <4>2. Leads(s[k], h[k], h[k - 1])
        BY <4>1 DEF StoryOf, Linking
      <4>3. QED
        BY <1>5, <1>6, <4>1, <4>2
    <3>3. QED
      BY <3>1, <3>2
  <2>2. QED
    BY <1>5, <2>1 DEF Linking
<1>15. MapsOf(s2, h2)'
  <2>1. ASSUME NEW k \in 0..(n + 1) PROVE Map(h2[k], Obj(edits), nextId)
    <3>1. CASE k = n + 1
      BY <1>6, <1>8, <3>1
    <3>2. CASE k # n + 1
      <4>1. k \in 0..n
        BY <1>3, <3>2
      <4>2. QED
        BY <1>6, <4>1 DEF StoryOf, MapsOf
    <3>3. QED
      BY <3>1, <3>2
  <2>2. QED
    BY <1>5, <2>1 DEF MapsOf
<1>16. DOMAIN m2 \subseteq DOMAIN m \cup DOMAIN server
  BY <1>0 DEF Now
<1>17. Vanished(s2, h2)'
  <2>1. ASSUME NEW k \in 1..(n + 1), s2[k].undo = "restore"
        PROVE  s2[k].ids \cap DOMAIN server = {} /\ \A j \in k..(n + 1) : s2[k].ids \cap DOMAIN h2[j] = {}
    <3>1. CASE k = n + 1
      <4>1. e.undo = "restore" /\ e.ids \cap DOMAIN server = {} /\ e.ids \cap DOMAIN m2 = {}
        BY <1>5, <1>11, <2>1, <3>1 DEF Marks, Leads
      <4>2. \A j \in k..(n + 1) : j = n + 1
        BY <1>3, <3>1
      <4>3. QED
        BY <1>5, <1>6, <3>1, <4>1, <4>2
    <3>2. CASE k # n + 1
      <4>1. k \in 1..n
        BY <1>3, <3>2
      <4>2. /\ s[k].ids \cap DOMAIN server = {}
            /\ \A j \in k..n : s[k].ids \cap DOMAIN h[j] = {}
        BY <1>5, <2>1, <4>1 DEF StoryOf, Vanished
      <4>3. ASSUME NEW j \in k..(n + 1) PROVE s[k].ids \cap DOMAIN h2[j] = {}
        <5>1. CASE j = n + 1
          <6>1. n \in k..n
            BY <1>3, <4>1
          <6>2. s[k].ids \cap DOMAIN m = {}
            BY <4>2, <6>1
          <6>3. QED
            BY <1>6, <1>16, <4>2, <5>1, <6>2
        <5>2. CASE j # n + 1
          <6>1. j \in k..n /\ j \in 0..n
            BY <1>3, <4>1, <5>2
          <6>2. QED
            BY <1>6, <4>2, <6>1
        <5>3. QED
          BY <5>1, <5>2
      <4>4. QED
        BY <1>5, <4>1, <4>2, <4>3
    <3>3. QED
      BY <3>1, <3>2
  <2>2. QED
    BY <1>5, <2>1 DEF Vanished
<1>18. Elsewhere(op, s2, h2)'
  <2>1. ASSUME NEW p \in Ops
        PROVE  /\ Brings(op'[p]) \subseteq Brings(op[p])
               /\ p = o => Brings(op'[p]) = {}
    BY FreeIsSafe, StaysSafe DEF Turns, Discreet
  <2>2. ASSUME NEW p \in Ops, NEW j \in DOMAIN m2 PROVE Range(m2[j].ends) \cap Brings(op'[p]) = {}
    <3>1. CASE j \in e.ids
      <4>1. j \in DOMAIN server /\ m2[j] = server[j]
        BY <1>8, <2>2, <3>1 DEF Alike
      <4>2. p # o => j \notin Mine(op[p])
        BY <1>9, <3>1 DEF Discreet
      <4>3. p # o => Range(server[j].ends) \cap Brings(op[p]) = {}
        BY <4>1, <4>2 DEF Discreet, Safe
      <4>4. QED
        BY <2>1, <4>1, <4>3
    <3>2. CASE j \notin e.ids
      <4>1. j \in DOMAIN m /\ m[j] = m2[j]
        BY <1>8, <2>2, <3>2 DEF Alike
      <4>2. QED
        BY <1>10, <2>1, <4>1
    <3>3. QED
      BY <3>1, <3>2
  <2>3. ASSUME NEW p \in Ops, NEW k \in 0..(n + 1), NEW j \in DOMAIN h2[k]
        PROVE Range(h2[k][j].ends) \cap Brings(op'[p]) = {}
    <3>1. CASE k = n + 1
      BY <1>6, <2>2, <2>3, <3>1
    <3>2. CASE k # n + 1
      <4>1. k \in 0..n
        BY <1>3, <3>2
      <4>2. Range(h[k][j].ends) \cap Brings(op[p]) = {}
        BY <1>6, <2>3, <4>1 DEF StoryOf, Elsewhere
      <4>3. QED
        BY <1>6, <2>1, <4>1, <4>2
    <3>3. QED
      BY <3>1, <3>2
  <2>4. QED
    BY <1>5, <2>3 DEF Elsewhere
<1>19. SameMap(h2[0], Start)
  <2>1. 0 \in 0..n
    BY <1>3
  <2>2. QED
    BY <1>6, <2>1 DEF StoryOf
<1>20. StoryOf(op, s2, h2)'
  BY <1>5, <1>6, <1>12, <1>14, <1>15, <1>17, <1>18, <1>19 DEF StoryOf
<1>21. QED
  BY <1>13, <1>20 DEF Kept

-------------------------------------------------------------------------------
(* The ends of the edits.                                                     *)

\* What an edit that has changed nothing knows of the map it began with.
LEMMA UnchangedAlike ==
  ASSUME TypeInv, NEW rec, Changer(rec, server), ~rec.applied, rec.kind # "undo", NEW m, Before(rec, m, server)
  PROVE  \A i \in Mine(rec) : Alike(i, m, server)
<1>1. /\ rec.entry.ids = DOMAIN rec.entry.objs /\ rec.entry.ids \subseteq DOMAIN server /\ DOMAIN rec.got = {}
      /\ \A i \in rec.entry.ids : Upserted(server[i], rec.entry.objs[i]) = server[i]
  BY DEF Changer
<1>2. BeforeEdit(rec, m, server)
  BY <1>1, EditBefore
<1>3. QED
  BY <1>1, <1>2 DEF Mine, BeforeEdit, Alike

\* An edit ends and leaves no entry.
LEMMA GaveUp ==
  ASSUME Discreet, TypeInv, NEW o \in Ops, ~holes',
         \/ MoveFailed(o) \/ GroupFailed(o) \/ DetailFailed(o) \/ DeleteFailed(o)
         \/ PlaceFailed(o) \/ PasteFailed(o),
         NEW m, Before(op[o], m, server)
  PROVE  ~Pending(op[o]) /\ stack' = stack /\ \A i \in Mine(op[o]) : Alike(i, m, server)
<1> DEFINE rec == op[o]
<1>1. Knows(rec, server) /\ stack' = stack
  BY DEF Discreet, MoveFailed, GroupFailed, DetailFailed, DeleteFailed, PlaceFailed, PasteFailed, undoVars
<1>2. ASSUME rec.kind # "undo", \A i \in Mine(rec) : Alike(i, m, server)
      PROVE ~Pending(rec) /\ stack' = stack /\ \A i \in Mine(rec) : Alike(i, m, server)
  BY <1>1, <1>2 DEF Pending
<1>3. CASE MoveFailed(o) \/ GroupFailed(o)
  <2>1. rec.kind \in {"move", "group"} /\ ~rec.applied
    BY <1>3 DEF MoveFailed, GroupFailed, Broken, HalfDone
  <2>2. QED
    BY <1>1, <1>2, <2>1, UnchangedAlike DEF Knows, Changing
<1>4. CASE DetailFailed(o) \/ PasteFailed(o) \/ Broken(o, "place")
  <2>1. rec.kind \in {"detail", "paste", "place"} /\ rec.err = "failed"
    BY <1>4 DEF DetailFailed, PasteFailed, Broken
  <2>2. Changer(rec, server)
    BY <1>1, <2>1 DEF Knows, Changing
  <2>3. ~rec.applied
    BY <2>1, <2>2 DEF Changer, Formed, Single
  <2>4. QED
    BY <1>2, <2>1, <2>2, <2>3, UnchangedAlike
<1>5. CASE Broken(o, "split") /\ ~rec.applied
  BY <1>1, <1>2, <1>5, UnchangedAlike DEF Knows, Changing, Broken
<1>6. CASE DeleteFailed(o)
  <2>1. rec.kind = "delete" /\ rec.err = "failed"
    BY <1>6 DEF DeleteFailed, Broken
  <2>2. Deleter(rec, server) /\ ~rec.applied /\ DOMAIN rec.got = {} /\ rec.entry.ids = DOMAIN rec.entry.objs
    BY <1>1, <2>1 DEF Knows, Deleter, Single
  <2>3. BeforeEdit(rec, m, server)
    BY <2>1, <2>2, EditBefore
  <2>4. ASSUME NEW i \in Mine(rec) PROVE Alike(i, m, server)
    <3>1. i \in rec.entry.ids /\ i \in DOMAIN server /\ server[i] = rec.entry.objs[i]
          /\ server[i] \in Obj(edits)
      BY <2>2 DEF Mine, Deleter, TypeInv, MapsTyped, Map
    <3>2. i \in DOMAIN m /\ m[i] = Upserted(server[i], server[i])
      BY <2>3, <3>1 DEF BeforeEdit
    <3>3. server[i] \in Part(edits)
      BY <3>1 DEF Part
    <3>4. QED
      BY <3>1, <3>2, <3>3, PartOver DEF Alike
  <2>5. QED
    BY <1>2, <2>1, <2>4
<1>7. CASE Done(o, "unsplit")
  <2>1. rec.kind = "unsplit" /\ rec.err = "none" /\ Todo(rec) = {}
    BY <1>7, DoneTodo
  <2>2. Unsplitter(rec, server)
    BY <1>1, <2>1 DEF Knows
  <2>3. PICK p : DOMAIN rec.got = {p} /\ p \notin rec.entry.ids /\ p \notin DOMAIN server
    BY <2>1, <2>2 DEF Unsplitter
  <2>4. /\ rec.entry.ids = DOMAIN rec.entry.objs /\ rec.entry.ids \subseteq DOMAIN server
        /\ \A i \in rec.entry.ids : Upserted(server[i], rec.entry.objs[i]) = server[i]
    BY <2>2 DEF Unsplitter
  <2>5. BeforeEdit(rec, m, server)
    BY <2>1, <2>4, EditBefore
  <2>6. \A i \in Mine(rec) : Alike(i, m, server)
    BY <2>3, <2>4, <2>5 DEF Mine, BeforeEdit, Alike
  <2>7. QED
    BY <1>2, <2>1, <2>6
<1>8. ~Broken(o, "unsplit") \/ ~PlaceFailed(o)
  BY DEF PlaceFailed
<1>9. QED
  BY <1>3, <1>4, <1>5, <1>6, <1>7, <1>8 DEF PlaceFailed

\* An edit that is recorded has been carried out.
LEMMA SavedMarks ==
  ASSUME Discreet, TypeInv, NEW o \in Ops, Done(o, "move") \/ Done(o, "group") \/ Done(o, "detail"),
         NEW m, Before(op[o], m, server)
  PROVE  Marks(o, op[o].entry, m)
<1> DEFINE rec == op[o]
           e == rec.entry
<1>1. rec.kind \in {"move", "group", "detail"} /\ Knows(rec, server)
  BY DEF Done, Discreet
<1>2. Changer(rec, server) /\ Formed(rec)
  BY <1>1 DEF Knows, Changing, Changer
<1>3. /\ e.undo = "patch" /\ e.ids # {} /\ e.ids = DOMAIN e.objs /\ e.ids \subseteq DOMAIN server
      /\ Mine(rec) = e.ids
  BY <1>1, <1>2 DEF Changer, Formed, Mine
<1>4. BeforeEdit(rec, m, server)
  BY <1>1, <1>3, EditBefore
<1>5. EntryOK(e)
  BY <1>3 DEF EntryOK
<1>6. QED
  BY <1>3, <1>4, <1>5 DEF Marks, BeforeEdit

\* A delete that is done leaves the entry that undoes it.
LEMMA DeletedMarks ==
  ASSUME Discreet, TypeInv, NEW o \in Ops, Done(o, "delete"), NEW m, Before(op[o], m, server)
  PROVE  Marks(o, op[o].entry, m)
<1> DEFINE rec == op[o]
           e == rec.entry
<1>1. rec.kind = "delete" /\ rec.err = "none" /\ rec.sent = {} /\ Knows(rec, server)
  BY DEF Done, Discreet
<1>2. Deleter(rec, server)
  BY <1>1 DEF Knows
<1>3. rec.applied
  BY <1>1, <1>2 DEF Deleter, Single
<1>4. /\ e.undo = "restore" /\ e.ids # {} /\ e.ids = DOMAIN e.objs /\ e.ids \cap DOMAIN server = {}
      /\ Mine(rec) = e.ids
  BY <1>2, <1>3 DEF Deleter, Mine
<1>5. BeforeEdit(rec, m, server)
  BY <1>1, <1>4, EditBefore
<1>6. EntryOK(e)
  BY <1>4 DEF EntryOK
<1>7. QED
  BY <1>4, <1>5, <1>6 DEF Marks, BeforeEdit

\* A point that was answered is where the coroutine brought it.
LEMMA MadeBrings ==
  ASSUME TypeInv, NEW rec, Changer(rec, server), rec.kind # "undo", NEW i \in DOMAIN rec.got \ rec.entry.ids,
         ~IsLine(server[i])
  PROVE  server[i].ends[1] \in Brings(rec)
<1>1. i \in DOMAIN server /\ rec.got[i] = server[i] /\ server[i].ends[1] \notin Spots(Range(rec.entry.objs))
  BY DEF Changer
<1>2. server[i] \in Part(edits)
  BY <1>1 DEF TypeInv, MapsTyped, Map, Part
<1>3. server[i].ends[1] \in Range(server[i].ends) /\ server[i] \in Range(rec.got)
  BY <1>1, <1>2, FirstEnd DEF Range
<1>4. server[i].ends[1] \in Spots(Range(rec.got))
  BY <1>3 DEF Spots
<1>5. QED
  BY <1>1, <1>4 DEF Brings

\* A placement or a paste that is done leaves the entry that undoes it.
LEMMA MadeMarks ==
  ASSUME Discreet, TypeInv, NEW o \in Ops, Done(o, "place") \/ Done(o, "paste"), NEW m, Before(op[o], m, server)
  PROVE  Marks(o, [undo |-> "drop", ids |-> DOMAIN op[o].got, objs |-> None], m)
<1> DEFINE rec == op[o]
           e == [undo |-> "drop", ids |-> DOMAIN rec.got, objs |-> None]
<1>1. rec.kind \in {"place", "paste"} /\ rec.err = "none" /\ rec.sent = {} /\ Knows(rec, server)
  BY DEF Done, Discreet
<1>2. Changer(rec, server) /\ Formed(rec)
  BY <1>1 DEF Knows, Changing, Changer
<1>3. rec.applied /\ DOMAIN rec.got # {} /\ rec.entry = NoEntry
  BY <1>1, <1>2 DEF Formed, Single
<1>4. rec.entry.ids = {} /\ DOMAIN rec.entry.objs = {} /\ DOMAIN e.objs = {} /\ e.undo = "drop"
      /\ e.ids = DOMAIN rec.got /\ e.objs = None
  BY <1>3, NoMap DEF NoEntry
<1>5. BeforeEdit(rec, m, server)
  BY <1>1, <1>4, EditBefore
<1>6. \A i \in DOMAIN rec.got : i \in DOMAIN server
  BY <1>2 DEF Changer
<1> HIDE DEF e, rec
<1>7. EntryOK(e)
  BY <1>3, <1>4 DEF EntryOK
<1>8. \A i \in e.ids : i \notin DOMAIN m /\ (~IsLine(server[i]) => server[i].ends[1] \in Brings(rec))
  BY <1>1, <1>2, <1>4, <1>5, MadeBrings DEF BeforeEdit
<1>9. e.ids = Mine(rec)
  BY <1>4 DEF Mine
<1>10. Marks(o, e, m)
  BY <1>4, <1>6, <1>7, <1>8, <1>9 DEF Marks, rec
<1>11. QED
  BY <1>10 DEF e, rec

\* A split that is done leaves the entry that undoes it.
LEMMA SplitMarks ==
  ASSUME Discreet, TypeInv, NEW o \in Ops, Done(o, "split"), NEW m, Before(op[o], m, server)
  PROVE  Marks(o, [op[o].entry EXCEPT !.ids = DOMAIN op[o].got], m)
<1> DEFINE rec == op[o]
           e == [rec.entry EXCEPT !.ids = DOMAIN rec.got]
<1>1. rec.kind = "split" /\ rec.err = "none" /\ rec.sent = {} /\ Knows(rec, server)
  BY DEF Done, Discreet
<1>2. Changer(rec, server) /\ Formed(rec)
  BY <1>1 DEF Knows, Changing, Changer
<1>3. InTwo(rec) /\ rec.entry.undo = "split" /\ rec.entry.ids = DOMAIN rec.entry.objs
  BY <1>1, <1>2 DEF Changer, Formed, Uncut, Pointed, Cut, Awaits
<1>4. PICK p, s : /\ p \notin rec.entry.ids /\ s \notin rec.entry.ids
                  /\ DOMAIN rec.got = {p, s} \cup rec.entry.ids
  BY <1>3 DEF InTwo
<1>5. DOMAIN rec.entry = {"undo", "ids", "objs"}
  BY DEF TypeInv, OpsTyped, OpTyped, EntryTyped, NoEntry
<1>6. e.undo = "split" /\ e.ids = DOMAIN rec.got /\ e.objs = rec.entry.objs
  BY <1>3, <1>5
<1>7. BeforeEdit(rec, m, server)
  BY <1>1, <1>3, EditBefore
<1>8. DOMAIN rec.got \subseteq DOMAIN server
  BY <1>2 DEF Changer
<1> HIDE DEF e, rec
<1>9. EntryOK(e)
  BY <1>3, <1>4, <1>6 DEF EntryOK
<1>10. \A i \in e.ids \ DOMAIN e.objs : i \notin DOMAIN m
      /\ (~IsLine(server[i]) => server[i].ends[1] \in Brings(rec))
  BY <1>1, <1>2, <1>3, <1>6, <1>7, MadeBrings DEF BeforeEdit
<1>11. e.ids = Mine(rec)
  BY <1>4, <1>6 DEF Mine
<1>12. \A i \in DOMAIN e.objs : i \in DOMAIN m /\ m[i] = Upserted(server[i], e.objs[i])
  BY <1>3, <1>4, <1>6, <1>7, <1>8 DEF BeforeEdit
<1>13. Marks(o, e, m)
  BY <1>6, <1>8, <1>9, <1>10, <1>11, <1>12 DEF Marks, rec
<1>14. QED
  BY <1>13 DEF e, rec

\* The history is kept by each edit that succeeds.
LEMMA PushedKept ==
  ASSUME TypeInv, StackInv, Discreet, Kept, NEW o \in Ops, ~holes', server' = server, nextId' = nextId,
         edits' = edits, Turns(o, Free),
         \/ MoveSaved(o) \/ GroupSaved(o) \/ DetailSaved(o) \/ Deleted(o)
         \/ Placed(o) \/ SplitDone(o) \/ Pasted(o)
  PROVE  Kept'
<1>1. PICK s, h : Trail(s) /\ StoryOf(op, s, h)
  BY DEF Kept
<1>2. PICK m : m = h[Len(s)]
  OBVIOUS
<1>3. Before(op[o], m, server)
  BY <1>1, <1>2, OthersOf DEF StoryOf
<1>4. ASSUME NEW e, Push(e), Marks(o, e, m) PROVE Kept'
  BY <1>1, <1>2, <1>4, KeptPushed
<1>5. CASE MoveSaved(o) \/ GroupSaved(o) \/ DetailSaved(o)
  <2>1. Done(o, "move") \/ Done(o, "group") \/ Done(o, "detail")
    BY <1>5 DEF MoveSaved, GroupSaved, DetailSaved
  <2>2. Push(op[o].entry)
    BY <1>5 DEF MoveSaved, GroupSaved, DetailSaved
  <2>3. QED
    BY <1>3, <1>4, <2>1, <2>2, SavedMarks
<1>6. CASE Deleted(o)
  BY <1>3, <1>4, <1>6, DeletedMarks DEF Deleted
<1>7. CASE Placed(o) \/ Pasted(o)
  <2>1. Done(o, "place") \/ Done(o, "paste")
    BY <1>7 DEF Placed, Pasted
  <2>2. PICK e : e = [undo |-> "drop", ids |-> DOMAIN op[o].got, objs |-> None]
    OBVIOUS
  <2>3. Push(e)
    BY <1>7, <2>2 DEF Placed, Pasted
  <2>4. Marks(o, e, m)
    BY <1>3, <2>1, <2>2, MadeMarks
  <2>5. QED
    BY <1>4, <2>3, <2>4
<1>8. CASE SplitDone(o)
  <2>1. PICK e : e = [op[o].entry EXCEPT !.ids = DOMAIN op[o].got]
    OBVIOUS
  <2>2. Done(o, "split") /\ Push(e)
    BY <1>8, <2>1 DEF SplitDone
  <2>3. Marks(o, e, m)
    BY <1>3, <2>1, <2>2, SplitMarks
  <2>4. QED
    BY <1>4, <2>2, <2>3
<1>9. QED
  BY <1>5, <1>6, <1>7, <1>8

\* The history is kept by each edit that fails and has changed nothing.
LEMMA GaveUpKept ==
  ASSUME TypeInv, StackInv, Discreet, Kept, NEW o \in Ops, ~holes', server' = server, nextId' = nextId,
         edits' = edits, Turns(o, Free),
         \/ MoveFailed(o) \/ GroupFailed(o) \/ DetailFailed(o) \/ DeleteFailed(o)
         \/ PlaceFailed(o) \/ PasteFailed(o)
  PROVE  Kept'
<1>1. PICK s, h : Trail(s) /\ StoryOf(op, s, h)
  BY DEF Kept
<1>2. Before(op[o], h[Len(s)], server)
  BY <1>1, OthersOf DEF StoryOf
<1>3. ~Pending(op[o]) /\ stack' = stack /\ \A i \in Mine(op[o]) : Alike(i, h[Len(s)], server)
  BY <1>2, GaveUp
<1>4. QED
  BY <1>1, <1>3, KeptGivesUp

\* The entry of an undo that had no effect goes back on the stack.
LEMMA EntryBack ==
  ASSUME TypeInv, StackInv, Discreet, Kept, NEW o \in Ops, ~holes', server' = server, nextId' = nextId,
         edits' = edits, Turns(o, Free), UndoFailed(o)
  PROVE  Kept'
<1> DEFINE rec == op[o]
<1>1. PICK s, h : Trail(s) /\ StoryOf(op, s, h)
  BY DEF Kept
<1>2. PICK m : m = h[Len(s)]
  OBVIOUS
<1>3. rec.kind = "undo" /\ ~rec.applied /\ stack' = Append(stack, rec.entry) /\ Pending(rec)
  BY DEF UndoFailed, Broken, HalfDone, Pending
<1>4. \A p \in Ops \ {o} : op[p].kind # "undo"
  BY <1>3 DEF StackInv
<1>5. s = stack'
  <2>1. ASSUME NEW p \in Ops, Pending(op[p]) PROVE p = o
    BY <1>4, <2>1 DEF Pending
  <2>2. QED
    BY <1>1, <1>3, <2>1 DEF Trail
<1>6. \A p \in Ops : ~Pending(op'[p])
  <2>1. ~Pending(Free)
    BY DEF Pending, Free
  <2>2. QED
    BY <1>4, <2>1 DEF Turns, Stays, Pending
<1>7. Trail(s)'
  BY <1>5, <1>6 DEF Trail
<1>8. Others(o, m) /\ Before(rec, m, server)
  BY <1>1, <1>2, OthersOf DEF StoryOf
<1>9. \A i \in Mine(rec) : Alike(i, m, server)
  BY <1>3, <1>8 DEF Before, Old, Young
<1>10. BaseOf(op, m)'
  <2>1. \A i : Alike(i, m, m) /\ Alike(i, server, server')
    BY DEF Alike
  <2>2. Mine(Free) = {} /\ Before(Free, m, server') /\ Spare(Free, m, server')
    BY FreeIsSafe, FreeBefore DEF Spare, Undoes, Free
  <2>3. \A i \in Mine(op[o]) \ Mine(Free) : Alike(i, m, server')
    BY <1>9
  <2>4. QED
    BY <1>8, <2>1, <2>2, <2>3, BaseTurns
<1>11. \A p \in Ops : Brings(op'[p]) \subseteq Brings(op[p]) \cup New
  BY StaysSafe, FreeIsSafe DEF Turns, Discreet
<1>12. Told(s) /\ Gone /\ nextId' \in Nat /\ edits \in Nat /\ edits' \in Nat /\ edits <= edits'
  BY <1>1, TrailTyped, StandsGone DEF TypeInv, MapsTyped
<1>13. StoryOf(op, s, h)'
  BY <1>1, <1>2, <1>10, <1>11, <1>12, StorySame
<1>14. QED
  BY <1>7, <1>13 DEF Kept

\* The history is kept by a split that fails, which has its point still to delete.
LEMMA SplitFailedKept ==
  ASSUME TypeInv, StackInv, Discreet, Kept, NEW o \in Ops, ~holes', server' = server, nextId' = nextId,
         edits' = edits, SplitFailed(o)
  PROVE  Kept'
<1> DEFINE rec == op[o]
<1>1. PICK s, h : Trail(s) /\ StoryOf(op, s, h)
  BY DEF Kept
<1>2. PICK p, r : /\ Turns(o, r) /\ r.kind = "unsplit" /\ r.entry = op[o].entry /\ r.got = op[o].got
                  /\ r.err = "none" /\ r.stages = <<>> /\ r.sent = {Delete({p})}
  BY SplitTurns
<1>3. PICK m : m = h[Len(s)]
  OBVIOUS
<1>4. rec.kind = "split" /\ Knows(rec, server) /\ stack' = stack
  BY DEF SplitFailed, Broken, Discreet, undoVars
<1>5. rec.entry.ids = DOMAIN rec.entry.objs /\ Before(rec, m, server)
  BY <1>1, <1>3, <1>4, EditRecorded, OthersOf DEF StoryOf
<1> HIDE DEF rec
<1>6. Before(r, m, server) /\ Spare(r, m, server) /\ ~Pending(r) /\ ~Pending(rec)
  <2>1. BeforeEdit(rec, m, server)
    BY <1>4, <1>5, EditBefore
  <2>2. BeforeEdit(r, m, server)
    BY <1>2, <2>1 DEF BeforeEdit, rec
  <2>3. r.kind # "undo" /\ r.entry.ids = DOMAIN r.entry.objs
    BY <1>2, <1>5 DEF rec
  <2>4. QED
    BY <1>4, <1>5, <2>2, <2>3, EditBefore
<1>7. Mine(r) = Mine(op[o])
  BY <1>2 DEF Mine
<1>8. Todo(r) = {Delete({p})}
  BY <1>2, NoStages DEF Todo
<1>9. Load(r) = {}
  BY <1>8 DEF Load, Carried, Delete
<1>10. Brings(r) \subseteq Brings(op[o])
  BY <1>2, <1>4, <1>9 DEF Brings, Spots, rec
<1>11. /\ \A i : Alike(i, server, server')
       /\ \A q \in Ops \ {o} : Mine(r) \cap Mine(op[q]) = {}
  BY <1>7 DEF Alike, Discreet
<1>12. Gone /\ nextId' \in Nat
  BY StandsGone DEF TypeInv, MapsTyped
<1>13. QED
  BY <1>1, <1>2, <1>3, <1>4, <1>6, <1>7, <1>10, <1>11, <1>12, KeptTurns DEF rec

\* The history is kept by an undo that is done.
LEMMA UndoDoneKept ==
  ASSUME TypeInv, StackInv, Discreet, Kept, NEW o \in Ops, server' = server, nextId' = nextId,
         edits' = edits, UndoDone(o)
  PROVE  Kept'
<1> DEFINE rec == op[o]
<1>1. PICK s, h : Trail(s) /\ StoryOf(op, s, h)
  BY DEF Kept
<1>2. PICK m : m = h[Len(s)]
  OBVIOUS
<1>3. rec.kind = "undo" /\ rec.applied /\ Todo(rec) = {} /\ stack' = stack
  BY UndoDoneTurns DEF UndoDone, undoVars
<1>4. PICK r : /\ Turns(o, r) /\ r.kind = "undo" /\ r.entry = rec.entry /\ r.got = rec.got
               /\ r.err = "refetch" /\ r.applied /\ Todo(r) = {}
  BY UndoDoneTurns
<1>5. Before(rec, m, server)
  BY <1>1, <1>2, OthersOf DEF StoryOf
<1> HIDE DEF rec
<1>6. ~Pending(r) /\ ~Pending(rec) /\ Old(r) = Old(rec) /\ Young(r) = Young(rec) /\ Mine(r) = Mine(rec)
  BY <1>3, <1>4 DEF Pending, Old, Young, Mine
<1>7. Before(r, m, server)
  BY <1>4, <1>5, <1>6 DEF Before
<1>8. Doors(r, server) = {} /\ Brings(r) = {}
  BY <1>4 DEF Doors, Targets, Brings
<1>9. Spare(r, m, server)
  BY <1>8 DEF Spare
<1>10. /\ \A i : Alike(i, server, server')
       /\ \A q \in Ops \ {o} : Mine(r) \cap Mine(op[q]) = {}
  BY <1>6 DEF Alike, Discreet, rec
<1>11. Gone /\ nextId' \in Nat
  BY StandsGone DEF TypeInv, MapsTyped
<1>12. QED
  BY <1>1, <1>2, <1>3, <1>4, <1>6, <1>7, <1>8, <1>9, <1>10, <1>11, KeptTurns DEF rec

\* The history is kept by whatever a coroutine ends with.
LEMMA EndsKept ==
  ASSUME TypeInv, StackInv, Discreet, Kept, NEW o \in Ops, EditEnds(o), ~holes'
  PROVE  Kept'
<1>1. server' = server /\ nextId' = nextId /\ edits' = edits
      /\ (Turns(o, Free) \/ SplitFailed(o) \/ UndoDone(o))
  BY EndsTurn
<1>2. QED
  BY <1>1, PushedKept, GaveUpKept, EntryBack, SplitFailedKept, UndoDoneKept DEF EditEnds

-------------------------------------------------------------------------------
(* The requests of an undo.                                                   *)

\* What an undo knows whose first request is answered: the map that it leads to.
Poised(o, v, h) ==
  LET m == h[Len(stack)] IN
  /\ op[o].kind = "undo" /\ v.kind = "undo" /\ v.entry = op[o].entry /\ v.got = op[o].got
     /\ v.applied /\ Todo(v) = Todo(op[o])
  /\ Others(o, m) /\ Before(v, m, server) /\ Spare(v, m, server)
  /\ Linking(stack, h) /\ Vanished(stack, h) /\ Elsewhere(op, stack, h) /\ MapsOf(stack, h)
  /\ SameMap(h[0], Start)

\* The beginning of an undo, seen from the map it leads to.
LEMMA UndoLeads ==
  ASSUME NEW e, EntryOK(e), e.ids \subseteq Nat, NEW m, NEW m0, Leads(e, m, m0),
         \A i \in e.ids : Alike(i, m, server),
         NEW v, v.kind = "undo", v.entry = e, DOMAIN v.got = {}, v.applied, Todo(v) = UndoReqs(e)
  PROVE  Before(v, m0, server) /\ Spare(v, m0, server)
<1>1. Mine(v) = e.ids /\ ~Pending(v) /\ DOMAIN e.objs \subseteq e.ids
  BY DEF Mine, Pending, EntryOK
<1>2. CASE e.undo = "restore"
  <2>1. e.ids = DOMAIN e.objs /\ e.ids \cap DOMAIN m = {}
    BY <1>2 DEF EntryOK, Leads
  <2>2. UndoReqs(e) = {Restore(i, e.objs[i]) : i \in e.ids}
    BY <1>2, UndoAsks
  <2>3. Old(v) = e.ids /\ Young(v) = {}
    BY <1>1, <1>2, <2>1, <2>2 DEF Old, Young
  <2>4. \A i \in e.ids : i \in DOMAIN m0 /\ m0[i] = e.objs[i] /\ i \notin DOMAIN server
    BY <1>2, <2>1 DEF Leads, Alike
  <2>5. Before(v, m0, server)
    BY <1>1, <2>3, <2>4 DEF Before
  <2>6. Targets(v) = {}
    BY <2>2 DEF Targets, Restore
  <2>7. QED
    BY <2>5, <2>6 DEF Spare, Doors
<1>3. CASE e.undo # "restore"
  <2>1. /\ e.ids \subseteq DOMAIN m
        /\ \A i \in DOMAIN e.objs : i \in DOMAIN m0 /\ m0[i] = Upserted(m[i], e.objs[i])
        /\ \A i \in e.ids \ DOMAIN e.objs : i \notin DOMAIN m0
    BY <1>3 DEF Leads
  <2>2. \A i \in e.ids : i \in DOMAIN server /\ m[i] = server[i]
    BY <2>1 DEF Alike
  <2>3. Old(v) = DOMAIN e.objs /\ Young(v) = e.ids \ DOMAIN e.objs
    BY <1>1, <1>3 DEF Old, Young
  <2>4. Before(v, m0, server)
    BY <1>1, <2>1, <2>2, <2>3 DEF Before
  <2>5. ASSUME NEW j \in DOMAIN m0, IsLine(m0[j]), NEW z \in Range(m0[j].ends) \cap Doors(v, server) PROVE FALSE
    <3>1. PICK t \in Targets(v) \cap DOMAIN server : ~IsLine(server[t]) /\ z = server[t].ends[1]
      BY <2>5 DEF Doors
    <3>2. PICK q \in UndoReqs(e) : q.do = "delete" /\ t \in q.ids
      BY <3>1 DEF Targets
    <3>3. t \in e.ids \ DOMAIN e.objs
      <4>1. PICK i \in e.ids \ DOMAIN e.objs : q.ids = {i}
        BY <3>2, UndoRequest
      <4>2. QED
        BY <3>2, <4>1
    <3>4. m[t] = server[t]
      BY <2>2, <3>3
    <3>5. m[t].ends[1] \notin Range(m0[j].ends)
      BY <1>3, <2>5, <3>1, <3>3, <3>4 DEF Leads
    <3>6. QED
      BY <2>5, <3>1, <3>4, <3>5
  <2>6. QED
    BY <2>4, <2>5 DEF Spare
<1>4. QED
  BY <1>2, <1>3

\* An undo that has not failed stands between two maps of the history.
LEMMA UndoPoised ==
  ASSUME TypeInv, StackInv, Discreet, Kept, NEW o \in Ops, op[o].kind = "undo", op[o].err = "none"
  PROVE  \E v, h : Poised(o, v, h)
<1> DEFINE rec == op[o]
           e == rec.entry
<1>1. PICK s, h : Trail(s) /\ StoryOf(op, s, h)
  BY DEF Kept
<1>2. \A p \in Ops \ {o} : op[p].kind # "undo"
  BY DEF StackInv
<1>3. Undoer(rec, server) /\ e.ids \subseteq Nat /\ DOMAIN rec = DOMAIN Free
  BY KnownIds DEF Discreet, Knows, TypeInv, OpsTyped, OpTyped
<1>4. CASE rec.applied
  <2>1. s = stack
    BY <1>1, <1>2, <1>4 DEF Trail, Pending
  <2>2. Others(o, h[Len(s)]) /\ Before(rec, h[Len(s)], server) /\ Spare(rec, h[Len(s)], server)
    BY <1>1, OthersOf DEF StoryOf
  <2>3. Poised(o, rec, h)
    BY <1>1, <1>4, <2>1, <2>2 DEF Poised, StoryOf
  <2>4. QED
    BY <2>3
<1>5. CASE ~rec.applied
  <2> DEFINE v == [rec EXCEPT !.applied = TRUE]
             n == Len(stack)
  <2>1. s = Append(stack, e)
    BY <1>1, <1>2, <1>5 DEF Trail, Pending
  <2>2. PICK S : stack \in Seq(S)
    BY DEF StackInv
  <2>3. n \in Nat /\ Len(s) = n + 1 /\ s[n + 1] = e /\ \A k \in 1..n : s[k] = stack[k]
    <3> HIDE DEF e
    <3>1. QED
      BY <2>1, <2>2
  <2>4. PICK m, m0 : m = h[n + 1] /\ m0 = h[n]
    OBVIOUS
  <2>5. /\ v.kind = "undo" /\ v.entry = e /\ v.got = rec.got /\ v.applied
        /\ v.sent = rec.sent /\ v.stages = rec.stages
    BY <1>3 DEF Free
  <2>6. Todo(v) = Todo(rec)
    BY <2>5 DEF Todo
  <2>7. DOMAIN rec.got = {} /\ Todo(rec) = UndoReqs(e) /\ EntryOK(e) /\ Mine(rec) = e.ids
    BY <1>3, <1>5 DEF Undoer, Mine
  <2> HIDE DEF v
  <2>8. Leads(e, m, m0)
    <3>1. n + 1 \in 1..Len(s) /\ n + 1 - 1 = n
      BY <2>3
    <3>2. QED
      BY <1>1, <2>3, <2>4, <3>1 DEF StoryOf, Linking
  <2>9. Others(o, m) /\ Before(rec, m, server)
    BY <1>1, <2>3, <2>4, OthersOf DEF StoryOf
  <2>10. \A i \in e.ids : Alike(i, m, server)
    BY <1>5, <2>7, <2>9 DEF Before, Old, Young, Pending
  <2>11. Before(v, m0, server) /\ Spare(v, m0, server)
    <3> HIDE DEF e, rec
    <3>1. QED
      BY <1>3, <2>5, <2>6, <2>7, <2>8, <2>10, UndoLeads
  <2>12. Others(o, m0)
    <3>1. \A i : i \notin e.ids => Alike(i, m, m0)
      BY <2>8 DEF Leads
    <3>2. ASSUME NEW p \in Ops \ {o} PROVE Before(op[p], m0, server) /\ Spare(op[p], m0, server)
      <4>1. \A i \in Mine(op[p]) : Alike(i, m, m0) /\ Alike(i, server, server)
        BY <2>7, <3>1 DEF Discreet, Alike
      <4>2. DOMAIN op[p].entry.objs \subseteq op[p].entry.ids
        BY DEF Discreet, Knows
      <4>3. Before(op[p], m, server)
        BY <2>9 DEF Others
      <4>4. Before(op[p], m0, server)
        BY <4>1, <4>2, <4>3, BeforeStands
      <4>5. QED
        BY <1>2, <4>4 DEF Spare, Undoes
    <3>3. ASSUME NEW i, \A p \in Ops : i \notin Mine(op[p]) PROVE Alike(i, m0, server)
      <4>1. i \notin e.ids /\ Alike(i, m, server)
        BY <2>7, <2>9, <3>3 DEF Others
      <4>2. QED
        BY <3>1, <4>1 DEF Alike
    <3>4. QED
      BY <3>2, <3>3 DEF Others
  <2>13. Linking(stack, h)
    <3>1. \A k \in 1..n : k \in 1..Len(s)
      BY <2>3
    <3>2. QED
      BY <1>1, <2>3, <3>1 DEF StoryOf, Linking
  <2>14. Vanished(stack, h)
    <3>1. \A k \in 1..n : k \in 1..Len(s) /\ \A j \in k..n : j \in k..Len(s)
      BY <2>3
    <3>2. QED
      BY <1>1, <2>3, <3>1 DEF StoryOf, Vanished
  <2>15. Elsewhere(op, stack, h) /\ MapsOf(stack, h)
    <3>1. \A k \in 0..n : k \in 0..Len(s)
      BY <2>3
    <3>2. QED
      BY <1>1, <3>1 DEF StoryOf, Elsewhere, MapsOf
  <2>16. Poised(o, v, h)
    BY <1>1, <2>4, <2>5, <2>6, <2>11, <2>12, <2>13, <2>14, <2>15 DEF Poised, StoryOf
  <2>17. QED
    BY <2>16
<1>6. QED
  BY <1>4, <1>5

\* No line of the backend, but those of the undo itself, is at a point the undo will delete.
LEMMA PoisedUnhinged ==
  ASSUME TypeInv, Discreet, NEW o \in Ops, NEW v, NEW h, Poised(o, v, h)
  PROVE  Unhinged(op[o], server)
<1> DEFINE rec == op[o]
           e == rec.entry
<1>1. PICK m : m = h[Len(stack)]
  OBVIOUS
<1>2. /\ v.kind = "undo" /\ v.entry = e /\ v.applied /\ Todo(v) = Todo(rec)
      /\ Before(v, m, server) /\ Spare(v, m, server)
  BY <1>1 DEF Poised
<1>3. Doors(v, server) = Doors(rec, server) /\ ~Pending(v)
  BY <1>2 DEF Doors, Targets, Pending
<1>4. ASSUME NEW i \in DOMAIN e.objs, i \in DOMAIN server, IsLine(server[i]),
      Upserted(server[i], e.objs[i]) = server[i]
      PROVE  Range(server[i].ends) \cap Doors(rec, server) = {}
  <2>1. CASE i \in Old(v)
    <3>1. i \in DOMAIN m /\ m[i] = server[i]
      BY <1>2, <1>4, <2>1 DEF Before
    <3>2. QED
      BY <1>2, <1>3, <1>4, <3>1 DEF Spare, Undoes
  <2>2. CASE i \notin Old(v)
    <3>1. e.undo = "restore"
      BY <1>2, <1>3, <2>2 DEF Old
    <3>2. rec.kind = "undo" => Undoer(rec, server)
      BY DEF Discreet, Knows
    <3>3. QED
      <4>1. CASE rec.kind = "undo"
        <5>1. EntryOK(e) /\ Todo(rec) \subseteq UndoReqs(e) /\ e.ids \subseteq Nat
          BY <3>2, <4>1, KnownIds DEF Undoer
        <5>2. \A q \in Todo(rec) : q.do = "create"
          BY <3>1, <5>1, UndoRequest
        <5>3. Targets(rec) = {}
          BY <5>2 DEF Targets
        <5>4. QED
          BY <5>3 DEF Doors
      <4>2. QED
        BY <4>1 DEF Poised
  <2>3. QED
    BY <2>1, <2>2
<1>5. QED
  BY <1>4 DEF Unhinged

\* Where the entries lead when a request of the undo has been carried out.
LEMMA PoisedKept ==
  ASSUME StackInv, NEW o \in Ops, op[o].kind = "undo", NEW r, Turns(o, r), r.applied,
         NEW s, s = stack, stack' = stack, NEW h, StoryOf(op, s, h)'
  PROVE  Kept'
<1>1. ASSUME NEW p \in Ops PROVE ~Pending(op'[p])
  <2>1. CASE p = o
    BY <2>1 DEF Turns, Pending
  <2>2. CASE p # o
    <3>1. op[p].kind # "undo" /\ (op'[p] = op[p] \/ op'[p] = Free)
      BY <2>2 DEF Turns, Stays, StackInv
    <3>2. ~Pending(Free)
      BY DEF Pending, Free
    <3>3. QED
      BY <3>1, <3>2 DEF Pending
  <2>3. QED
    BY <2>1, <2>2
<1>2. Trail(s)'
  BY <1>1 DEF Trail
<1>3. QED
  BY <1>2 DEF Kept

\* The history goes on as it was when an undo gets an answer that leaves the map before it as it was.
LEMMA PoisedStory ==
  ASSUME TypeInv, StackInv, Discreet, NEW o \in Ops, NEW v, NEW h, Poised(o, v, h), NEW r, Turns(o, r),
         Gone, edits' = edits, nextId' \in Nat, NEW s, s = stack, stack' = stack, r.kind = "undo", r.applied,
         \A i : i \notin Mine(op[o]) \cup Mine(r) => Alike(i, server, server'),
         \A p \in Ops \ {o} : Mine(r) \cap Mine(op[p]) = {},
         Before(r, h[Len(s)], server'), Spare(r, h[Len(s)], server'),
         \A i \in Mine(op[o]) \ Mine(r) : Alike(i, h[Len(s)], server')
  PROVE  StoryOf(op, s, h)' /\ Kept'
<1> DEFINE m == h[Len(s)]
<1>1. Others(o, m) /\ op[o].kind = "undo"
  BY DEF Poised
<1>2. BaseOf(op, m)'
  <2>1. \A i : Alike(i, m, m)
    BY DEF Alike
  <2> HIDE DEF m
  <2>2. QED
    BY <1>1, <2>1, BaseTurns DEF m
<1>3. PICK g : g = [op EXCEPT ![o] = v]
  OBVIOUS
<1>4. g[o] = v /\ \A p \in Ops \ {o} : g[p] = op[p]
  BY <1>3 DEF TypeInv, OpsTyped
<1>5. Brings(v) = {} /\ Brings(op[o]) = {} /\ Brings(r) = {}
  BY DEF Brings, Poised
<1>6. StoryOf(g, s, h)
  <2>1. BaseOf(g, m)
    <3>1. Mine(v) = Mine(op[o])
      BY DEF Mine, Poised
    <3>2. \A p \in Ops : Before(g[p], m, server) /\ Spare(g[p], m, server)
      BY <1>1, <1>4 DEF Others, Poised
    <3>3. \A i : (\A p \in Ops : i \notin Mine(g[p])) => Alike(i, m, server)
      BY <1>1, <1>4, <3>1 DEF Others
    <3>4. QED
      BY <3>2, <3>3 DEF BaseOf, Spare, Undoes
  <2>2. \A p \in Ops : Brings(g[p]) = Brings(op[p])
    BY <1>4, <1>5
  <2>3. Elsewhere(g, s, h)
    BY <2>2 DEF Poised, Elsewhere
  <2>4. QED
    BY <2>1, <2>3 DEF StoryOf, Poised
<1>7. \A p \in Ops : Brings(op'[p]) \subseteq Brings(g[p]) \cup New
  <2>1. ASSUME NEW p \in Ops PROVE Brings(op'[p]) \subseteq Brings(g[p]) \cup New
    <3>1. CASE p = o
      BY <1>5, <3>1 DEF Turns
    <3>2. CASE p # o
      BY <1>4, <3>2, StaysSafe DEF Turns, Discreet
    <3>3. QED
      BY <3>1, <3>2
  <2>2. QED
    BY <2>1
<1>8. Told(s) /\ edits \in Nat
  <2>1. \A k \in DOMAIN stack : stack[k].ids \subseteq 1..(nextId - 1)
    BY DEF TypeInv, MapsTyped, EntryTyped
  <2>2. PICK S : stack \in Seq(S)
    BY DEF StackInv
  <2>3. QED
    BY <2>1, <2>2 DEF Told, TypeInv, MapsTyped
<1>9. StoryOf(op, s, h)'
  BY <1>2, <1>6, <1>7, <1>8, StorySame
<1>10. QED
  BY <1>1, <1>9, PoisedKept

\* The points that an undo will delete are fewer, and where they were.
LEMMA FewerDoors ==
  ASSUME NEW rec, NEW r, Todo(r) \subseteq Todo(rec), NEW sv, NEW sv2,
         \A t \in Targets(r) \cap DOMAIN sv2 : t \in DOMAIN sv /\ sv2[t] = sv[t]
  PROVE  Doors(r, sv2) \subseteq Doors(rec, sv)
<1>1. Targets(r) \subseteq Targets(rec)
  BY DEF Targets
<1>2. QED
  BY <1>1 DEF Doors

\* An undo deletes only what was made.
LEMMA UndoDeletion ==
  ASSUME NEW e, EntryOK(e), e.ids \subseteq Nat, NEW q \in UndoReqs(e), q.do = "delete", NEW t \in q.ids
  PROVE  t \in e.ids \ DOMAIN e.objs
<1>1. PICK j \in e.ids \ DOMAIN e.objs : q.ids = {j}
  BY UndoRequest
<1>2. QED
  BY <1>1

\* The history is kept by an undo that puts an object back or takes one out.
LEMMA UndoPutsBack ==
  ASSUME TypeInv, StackInv, Discreet, NEW o \in Ops, NEW v, NEW h, Poised(o, v, h), NEW r, Turns(o, r),
         NEW i, PutBack(o, i) \/ TakenOut(o, i),
         edits' = edits, stack' = stack, NEW q, NEW got, Answered(r, op[o], q, got),
         Undoer(r, server'), Undoer(op[o], server),
         op[o].entry.undo # "restore"
  PROVE  Kept'
<1> DEFINE rec == op[o]
           e == rec.entry
<1>0. PICK m : m = h[Len(stack)]
  OBVIOUS
<1>1. /\ op[o].kind = "undo" /\ v.kind = "undo" /\ v.entry = e /\ v.got = rec.got /\ v.applied
         /\ Todo(v) = Todo(rec)
      /\ Before(v, m, server) /\ Spare(v, m, server)
  BY <1>0 DEF Poised
<1>2. r.kind = "undo" /\ r.entry = e /\ r.applied /\ Todo(r) \subseteq Todo(rec)
  BY <1>1 DEF Answered
<1> HIDE DEF rec
<1>3. /\ EntryOK(e) /\ DOMAIN e.objs \subseteq e.ids /\ DOMAIN rec.got \subseteq e.ids
         /\ DOMAIN r.got \subseteq e.ids
      /\ Todo(rec) \subseteq UndoReqs(e)
  BY <1>2 DEF Undoer, EntryOK, rec
<1>4. Mine(r) = e.ids /\ Mine(v) = e.ids /\ Mine(op[o]) = e.ids /\ i \in e.ids
  BY <1>1, <1>2, <1>3 DEF Mine, PutBack, TakenOut, rec
<1>5. /\ Old(r) = DOMAIN e.objs /\ Young(r) = e.ids \ DOMAIN e.objs
      /\ Old(v) = DOMAIN e.objs /\ Young(v) = e.ids \ DOMAIN e.objs
  BY <1>1, <1>2 DEF Old, Young, Pending, rec
<1>6. /\ DOMAIN server' \subseteq DOMAIN server /\ nextId' = nextId
      /\ \A j \in DOMAIN server \ {i} : j \in DOMAIN server' /\ server'[j] = server[j]
  BY DEF PutBack, TakenOut
<1>7. ASSUME NEW j \in DOMAIN e.objs
      PROVE  /\ j \in DOMAIN m
             /\ m[j] = IF j \in DOMAIN server' THEN Upserted(server'[j], e.objs[j]) ELSE e.objs[j]
  <2>1. j \in DOMAIN m /\ m[j] = IF j \in DOMAIN server THEN Upserted(server[j], e.objs[j]) ELSE e.objs[j]
    BY <1>1, <1>5 DEF Before
  <2>2. CASE j # i
    <3>1. j \in DOMAIN server <=> j \in DOMAIN server'
      BY <1>6, <2>2
    <3>2. QED
      BY <1>6, <2>1, <2>2, <3>1
  <2>3. CASE j = i
    <3>1. j \in DOMAIN server /\ j \in DOMAIN server' /\ server'[j] = Upserted(server[j], e.objs[j])
      BY <2>3 DEF PutBack, TakenOut, rec
    <3>2. Upserted(server'[j], e.objs[j]) = Upserted(server[j], e.objs[j])
      BY <3>1, OverAgain
    <3>3. QED
      BY <2>1, <3>1, <3>2
  <2>4. QED
    BY <2>2, <2>3
<1>8. Before(r, m, server')
  <2>1. \A j \in Young(r) : j \notin DOMAIN m
    BY <1>1, <1>5 DEF Before
  <2>2. Mine(r) \ (Old(r) \cup Young(r)) = {}
    BY <1>4, <1>5
  <2>3. QED
    BY <1>2, <1>5, <1>7, <2>1, <2>2 DEF Before
<1>9. Spare(r, m, server')
  <2>1. ASSUME NEW t \in Targets(r) \cap DOMAIN server' PROVE t \in DOMAIN server /\ server'[t] = server[t]
    <3>1. PICK x \in UndoReqs(e) : x.do = "delete" /\ t \in x.ids
      BY <1>2, <1>3 DEF Targets
    <3>2. e.ids \subseteq Nat
      BY KnownIds DEF rec
    <3>3. t \in e.ids \ DOMAIN e.objs
      BY <1>3, <3>1, <3>2, UndoDeletion
    <3>4. CASE t = i
      BY <2>1, <3>3, <3>4 DEF PutBack, TakenOut, rec
    <3>5. CASE t # i
      BY <1>6, <3>5
    <3>6. QED
      BY <3>4, <3>5
  <2>2. Doors(r, server') \subseteq Doors(v, server)
    BY <1>1, <1>2, <2>1, FewerDoors
  <2>3. QED
    BY <1>1, <2>2 DEF Spare, Undoes
<1>10. \A j : j \notin Mine(op[o]) \cup Mine(r) => Alike(j, server, server')
  BY <1>4, <1>6 DEF Alike
<1>11. \A p \in Ops \ {o} : Mine(r) \cap Mine(op[p]) = {}
  BY <1>4 DEF Discreet
<1>12. Gone /\ nextId' \in Nat
  BY <1>6 DEF Gone, TypeInv, MapsTyped
<1>13. Mine(op[o]) \ Mine(r) = {}
  BY <1>4
<1>14. PICK s : s = stack
  OBVIOUS
<1>15. Before(r, h[Len(s)], server') /\ Spare(r, h[Len(s)], server')
  BY <1>0, <1>8, <1>9, <1>14
<1>16. QED
  BY <1>2, <1>10, <1>11, <1>12, <1>13, <1>14, <1>15, PoisedStory

-------------------------------------------------------------------------------
(* What is made again gets a new id, and the history is told with it.         *)

\* The map m, with the object i under the id n.
Renamed(m, i, n) ==
  [j \in {x \in DOMAIN m \cup {n} : x # i /\ (x = n => i \in DOMAIN m)} |-> IF j = n THEN m[i] ELSE m[j]]

\* What renaming an object does to a map.
LEMMA RenamedIs ==
  ASSUME NEW m, NEW i, NEW n, n \notin DOMAIN m, i # n
  PROVE  LET m2 == Renamed(m, i, n) IN
         /\ i \notin DOMAIN m2
         /\ n \in DOMAIN m2 <=> i \in DOMAIN m
         /\ n \in DOMAIN m2 => m2[n] = m[i]
         /\ \A j : j # i /\ j # n => Alike(j, m, m2)
         /\ \A j \in DOMAIN m2 : \E x \in DOMAIN m : m2[j] = m[x]
         /\ DOMAIN m2 \subseteq DOMAIN m \cup {n}
BY DEF Renamed, Alike

\* A map with an object renamed to the next id is a map.
LEMMA RenamedTyped ==
  ASSUME NEW S, NEW k \in Nat \ {0}, NEW m, Map(m, S, k), NEW i
  PROVE  Map(Renamed(m, i, k), S, k + 1)
<1>1. DOMAIN m \subseteq 1..(k - 1) /\ \A j \in DOMAIN m : m[j] \in S
  BY DEF Map
<1>2. DOMAIN Renamed(m, i, k) \subseteq 1..k
  BY <1>1 DEF Renamed
<1>3. \A j \in DOMAIN Renamed(m, i, k) : Renamed(m, i, k)[j] \in S
  BY <1>1 DEF Renamed
<1>4. Renamed(m, i, k) = [j \in DOMAIN Renamed(m, i, k) |-> Renamed(m, i, k)[j]]
  BY DEF Renamed
<1>5. k + 1 - 1 = k
  OBVIOUS
<1>6. QED
  BY <1>2, <1>3, <1>4, <1>5 DEF Map

\* Renaming an object leaves how often each object occurs in the map.
LEMMA RenamedSame ==
  ASSUME NEW S, NEW k \in Nat \ {0}, NEW m, Map(m, S, k), NEW i \in 1..(k - 1), NEW n, SameMap(m, n)
  PROVE  SameMap(Renamed(m, i, k), n)
<1> DEFINE m2 == Renamed(m, i, k)
           At(f, x) == {j \in DOMAIN f : f[j] = x}
<1>0. k \notin DOMAIN m /\ i # k /\ IsFiniteSet(DOMAIN m)
  <2>1. DOMAIN m \subseteq 1..(k - 1) /\ k \notin 1..(k - 1)
    BY DEF Map
  <2>2. IsFiniteSet(1..(k - 1))
    BY FS_Interval
  <2>3. QED
    BY <2>1, <2>2, FS_Subset
<1>1. /\ i \notin DOMAIN m2
      /\ k \in DOMAIN m2 <=> i \in DOMAIN m
      /\ k \in DOMAIN m2 => m2[k] = m[i]
      /\ \A j : j # i /\ j # k => Alike(j, m, m2)
  BY <1>0, RenamedIs
<1> HIDE DEF m2
<1>2. ASSUME NEW x PROVE Cardinality(At(m2, x)) = Cardinality(At(m, x))
  <2>1. IsFiniteSet(At(m, x)) /\ k \notin At(m, x)
    BY <1>0, FS_Subset
  <2>2. CASE i \in At(m, x)
    <3>1. At(m2, x) = (At(m, x) \ {i}) \cup {k}
      BY <1>0, <1>1, <2>2 DEF Alike
    <3>2. PICK T : T = At(m, x) \ {i}
      OBVIOUS
    <3>3. IsFiniteSet(T) /\ Cardinality(T) = Cardinality(At(m, x)) - 1 /\ k \notin T
      BY <2>1, <2>2, <3>2, FS_RemoveElement
    <3>4. Cardinality(T \cup {k}) = Cardinality(T) + 1
      BY <3>3, FS_AddElement
    <3>5. Cardinality(At(m, x)) \in Nat
      BY <2>1, FS_CardinalityType
    <3>6. QED
      BY <3>1, <3>2, <3>3, <3>4, <3>5
  <2>3. CASE i \notin At(m, x)
    <3>1. At(m2, x) = At(m, x)
      BY <1>0, <1>1, <2>3 DEF Alike
    <3>2. QED
      BY <3>1
  <2>4. QED
    BY <2>2, <2>3
<1>3. Range(m2) = Range(m)
  <2>1. ASSUME NEW j \in DOMAIN m2 PROVE m2[j] \in Range(m)
    BY <1>0, <1>1 DEF Alike, Range
  <2>2. ASSUME NEW j \in DOMAIN m PROVE m[j] \in Range(m2)
    BY <1>0, <1>1 DEF Alike, Range
  <2>3. QED
    BY <2>1, <2>2 DEF Range
<1>4. QED
  BY <1>2, <1>3 DEF SameMap, m2

\* An object that is gone is named by no entry that can still be undone, but where it is restored.
LEMMA NotNamed ==
  ASSUME TypeInv, StackInv, ~Doomed, NEW h, Linking(stack, h), Vanished(stack, h),
         NEW i, i \notin DOMAIN server, i \in DOMAIN h[Len(stack)], NEW k \in 1..Len(stack)
  PROVE  i \notin stack[k].ids
<1>1. PICK e : e = stack[k]
  OBVIOUS
<1>2. PICK S : stack \in Seq(S)
  BY DEF StackInv
<1>3. k \in DOMAIN stack /\ Len(stack) \in k..Len(stack)
  BY <1>2
<1>4. EntryOK(e)
  BY <1>1 DEF Linking, Leads
<1>5. e.ids \subseteq 1..(nextId - 1) /\ e.ids \subseteq Nat
  BY <1>1, <1>3 DEF TypeInv, MapsTyped, EntryTyped
<1>6. CASE e.undo = "restore"
  BY <1>1, <1>3, <1>6 DEF Vanished
<1>7. CASE e.undo # "restore"
  <2>1. SUFFICES ASSUME i \in e.ids PROVE FALSE
    BY <1>1
  <2>2. UndoReqs(e) = {Update(j, e.objs[j]) : j \in DOMAIN e.objs}
                        \cup {Delete({j}) : j \in e.ids \ DOMAIN e.objs}
    BY <1>4, <1>5, <1>7, UndoAsks
  <2>3. Update(i, e.objs[i]).ids = {i} /\ Delete({i}).ids = {i}
    BY DEF Update, Delete
  <2>4. \E q : q \in UndoReqs(e) /\ i \in q.ids
    <3>1. CASE i \in DOMAIN e.objs
      BY <2>2, <2>3, <3>1
    <3>2. CASE i \notin DOMAIN e.objs
      BY <2>1, <2>2, <2>3, <3>2
    <3>3. QED
      BY <3>1, <3>2
  <2>5. \E q : Vain(q, e)
    BY <2>1, <2>4 DEF Vain
  <2>6. QED
    BY <1>1, <1>3, <2>5 DEF Doomed
<1>8. QED
  BY <1>6, <1>7

\* An entry that names neither id leads on between maps where the object is renamed.
LEMMA RenamedLeads ==
  ASSUME NEW e, NEW m, NEW m0, Leads(e, m, m0), NEW i, NEW n, i # n, n \notin DOMAIN m, n \notin DOMAIN m0,
         i \notin e.ids, n \notin e.ids
  PROVE  Leads(e, Renamed(m, i, n), Renamed(m0, i, n))
<1> DEFINE m2 == Renamed(m, i, n)
           m3 == Renamed(m0, i, n)
<1>1. EntryOK(e) /\ DOMAIN e.objs \subseteq e.ids
  BY DEF Leads, EntryOK
<1>2. /\ i \notin DOMAIN m2 /\ (n \in DOMAIN m2 <=> i \in DOMAIN m) /\ (n \in DOMAIN m2 => m2[n] = m[i])
      /\ \A j : j # i /\ j # n => Alike(j, m, m2)
  BY RenamedIs
<1>3. /\ i \notin DOMAIN m3 /\ (n \in DOMAIN m3 <=> i \in DOMAIN m0) /\ (n \in DOMAIN m3 => m3[n] = m0[i])
      /\ \A j : j # i /\ j # n => Alike(j, m0, m3)
      /\ \A j \in DOMAIN m3 : \E x \in DOMAIN m0 : m3[j] = m0[x]
  BY RenamedIs
<1> HIDE DEF m2, m3
<1>4. ASSUME NEW j, j \notin e.ids PROVE Alike(j, m2, m3)
  <2>1. Alike(j, m, m0) /\ Alike(i, m, m0)
    BY <1>4 DEF Leads
  <2>2. QED
    BY <1>2, <1>3, <2>1 DEF Alike
<1>5. ASSUME NEW j \in e.ids PROVE Alike(j, m, m2) /\ Alike(j, m0, m3)
  <2>1. j # i /\ j # n
    OBVIOUS
  <2>2. QED
    BY <1>2, <1>3, <2>1
<1>6. CASE e.undo = "restore"
  <2>1. e.ids \cap DOMAIN m2 = {} /\ \A j \in e.ids : j \in DOMAIN m3 /\ m3[j] = e.objs[j]
    BY <1>5, <1>6 DEF Leads, Alike
  <2>2. QED
    BY <1>1, <1>4, <1>6, <2>1 DEF Leads, m2, m3
<1>7. CASE e.undo # "restore"
  <2>1. e.ids \subseteq DOMAIN m2 /\ \A j \in e.ids : m2[j] = m[j]
    BY <1>5, <1>7 DEF Leads, Alike
  <2>2. \A j \in DOMAIN e.objs : j \in DOMAIN m3 /\ m3[j] = Upserted(m2[j], e.objs[j])
    <3>1. ASSUME NEW j \in DOMAIN e.objs PROVE j \in DOMAIN m3 /\ m3[j] = Upserted(m2[j], e.objs[j])
      <4>1. j \in DOMAIN m0 /\ m0[j] = Upserted(m[j], e.objs[j]) /\ j \in e.ids
        BY <1>1, <1>7 DEF Leads
      <4>2. QED
        BY <1>5, <2>1, <4>1 DEF Alike
    <3>2. QED
      BY <3>1
  <2>3. ASSUME NEW j \in e.ids \ DOMAIN e.objs
        PROVE  /\ j \notin DOMAIN m3
               /\ ~IsLine(m2[j]) => \A l \in DOMAIN m3 : IsLine(m3[l]) => m2[j].ends[1] \notin Range(m3[l].ends)
    <3>1. j \notin DOMAIN m3
      BY <1>5, <1>7, <2>3 DEF Leads, Alike
    <3>2. ASSUME ~IsLine(m2[j]), NEW l \in DOMAIN m3, IsLine(m3[l]) PROVE m2[j].ends[1] \notin Range(m3[l].ends)
      <4>1. PICK x \in DOMAIN m0 : m3[l] = m0[x]
        BY <1>3
      <4>2. m2[j] = m[j]
        BY <2>1
      <4>3. QED
        BY <1>7, <3>2, <4>1, <4>2 DEF Leads
    <3>3. QED
      BY <3>1, <3>2
  <2>4. QED
    BY <1>1, <1>4, <1>7, <2>1, <2>2, <2>3 DEF Leads, m2, m3
<1>8. QED
  BY <1>6, <1>7

\* An object remade under a new id is that of the map before, renamed.
LEMMA RemadeBefore ==
  ASSUME TypeInv, Discreet, NEW o \in Ops, NEW v, NEW h, Poised(o, v, h), NEW m, m = h[Len(stack)],
         NEW q \in Todo(op[o]), NEW r, NEW i, Remade(o, i, q, r), r.kind = "undo",
         r.entry = op[o].entry, r.applied,
         NEW n, n = nextId, n \notin DOMAIN m, Undoer(op[o], server)
  PROVE  /\ i \in DOMAIN m /\ i \notin DOMAIN server /\ i # n
         /\ Before(r, Renamed(m, i, n), server') /\ Spare(r, Renamed(m, i, n), server')
         /\ Mine(r) = Mine(op[o]) \cup {n}
<1> DEFINE rec == op[o]
           e == rec.entry
           m2 == Renamed(m, i, n)
<1>1. /\ rec.kind = "undo" /\ v.kind = "undo" /\ v.entry = e /\ v.got = rec.got /\ v.applied
         /\ Todo(v) = Todo(rec)
      /\ Before(v, m, server)
  BY DEF Poised
<1>2. /\ e.undo = "restore" /\ q = Restore(i, e.objs[i]) /\ Todo(r) = Todo(rec) \ {q} /\ i \in e.ids
      /\ DOMAIN r.got = DOMAIN rec.got \cup {n}
      /\ DOMAIN server' = DOMAIN server \cup {n} /\ server'[n] = e.objs[i]
      /\ \A j \in DOMAIN server : server'[j] = server[j]
  BY DEF Remade, MadeAgain
<1>3. /\ EntryOK(e) /\ e.ids = DOMAIN e.objs /\ e.ids \cap DOMAIN server = {} /\ Todo(rec) \subseteq UndoReqs(e)
  BY <1>2 DEF Undoer, EntryOK
<1>4. e.ids \subseteq 1..(n - 1) /\ DOMAIN rec.got \subseteq 1..(n - 1) /\ n \notin 1..(n - 1)
      /\ DOMAIN server \subseteq 1..(n - 1)
  BY KnownIds
<1> HIDE DEF rec
<1>5. /\ Old(v) = {j \in DOMAIN e.objs : Restore(j, e.objs[j]) \in Todo(rec)} /\ Young(v) = {}
      /\ Old(r) = {j \in DOMAIN e.objs : Restore(j, e.objs[j]) \in Todo(r)} /\ Young(r) = {}
  BY <1>1, <1>2 DEF Old, Young, Pending, rec
<1>6. \A j : Restore(j, e.objs[j]) = q <=> j = i
  BY <1>2 DEF Restore
<1>7. Old(r) = Old(v) \ {i} /\ i \in Old(v)
  <2>1. i \in Old(v)
    BY <1>2, <1>3, <1>5 DEF rec
  <2>2. QED
    BY <1>2, <1>5, <1>6, <2>1
<1>8. Mine(r) = Mine(rec) \cup {n} /\ Mine(v) = Mine(rec) /\ n \notin Mine(rec) /\ i \in Mine(rec)
      /\ i # n /\ n \notin DOMAIN server
  BY <1>1, <1>2, <1>4 DEF Mine, rec
<1>9. i \in DOMAIN m /\ i \notin DOMAIN server /\ m[i] = e.objs[i]
  BY <1>1, <1>2, <1>3, <1>7 DEF Before
<1>10. /\ i \notin DOMAIN m2 /\ n \in DOMAIN m2 /\ m2[n] = m[i]
       /\ \A j : j # i /\ j # n => Alike(j, m, m2)
  BY <1>8, <1>9, RenamedIs
<1> HIDE DEF m2
<1>11. ASSUME NEW j \in Old(r)
       PROVE  /\ j \in DOMAIN m2
              /\ m2[j] = IF j \in DOMAIN server' THEN Upserted(server'[j], e.objs[j]) ELSE e.objs[j]
  <2>1. j \in Old(v) /\ j # i /\ j \in e.ids /\ j # n
    BY <1>3, <1>4, <1>5, <1>7
  <2>2. j \in DOMAIN m /\ m[j] = IF j \in DOMAIN server THEN Upserted(server[j], e.objs[j]) ELSE e.objs[j]
    BY <1>1, <2>1 DEF Before
  <2>3. j \notin DOMAIN server /\ j \notin DOMAIN server'
    BY <1>2, <1>3, <2>1
  <2>4. QED
    BY <1>10, <2>1, <2>2, <2>3 DEF Alike
<1>12. ASSUME NEW j \in Mine(r) \ Old(r) PROVE Alike(j, m2, server')
  <2>1. CASE j = n
    BY <1>2, <1>9, <1>10, <2>1 DEF Alike
  <2>2. CASE j = i
    BY <1>2, <1>8, <1>9, <1>10, <2>2 DEF Alike
  <2>3. CASE j # i /\ j # n
    <3>1. j \in Mine(v) \ (Old(v) \cup Young(v))
      BY <1>5, <1>7, <1>8, <2>3
    <3>2. Alike(j, m, server)
      BY <1>1, <3>1 DEF Before
    <3>3. QED
      BY <1>2, <1>10, <2>3, <3>2 DEF Alike
  <2>4. QED
    BY <2>1, <2>2, <2>3
<1>13. Before(r, m2, server')
  BY <1>5, <1>11, <1>12 DEF Before, rec
<1>14. Spare(r, m2, server')
  <2>1. \A x \in UndoReqs(e) : x.do # "delete"
    <3>1. UndoReqs(e) = {Restore(j, e.objs[j]) : j \in e.ids}
      <4>1. e.ids \subseteq Nat
        BY KnownIds DEF rec
      <4>2. PICK d : d = e
        OBVIOUS
      <4>3. UndoReqs(d) = {Restore(j, d.objs[j]) : j \in d.ids}
        BY <1>2, <1>3, <4>1, <4>2, UndoAsks
      <4>4. QED
        BY <4>2, <4>3
    <3>2. QED
      BY <3>1 DEF Restore
  <2>2. Targets(r) = {}
    BY <1>2, <1>3, <2>1 DEF Targets
  <2>3. QED
    BY <2>2 DEF Spare, Doors
<1>15. QED
  BY <1>8, <1>9, <1>13, <1>14 DEF rec, m2

\* The history is kept, up to ids, by an undo that remakes what was deleted.
LEMMA UndoRemakes ==
  ASSUME TypeInv, StackInv, Discreet, ~Doomed, NEW o \in Ops, NEW v, NEW h, Poised(o, v, h),
         NEW r, Turns(o, r), NEW q \in Todo(op[o]), NEW i, Remade(o, i, q, r),
         r.kind = "undo", r.entry = op[o].entry, r.applied,
         edits' = edits, stack' = stack, Undoer(op[o], server)
  PROVE  Kept'
<1>0. PICK s, n, m : s = stack /\ n = nextId /\ m = h[Len(s)]
  OBVIOUS
<1>1. PICK g : g = [k \in 0..Len(s) |-> Renamed(h[k], i, n)]
  OBVIOUS
<1>2. PICK S : s \in Seq(S)
  BY <1>0 DEF StackInv
<1>3. Len(s) \in Nat /\ Len(s) \in 0..Len(s) /\ 0 \in 0..Len(s)
  BY <1>2
<1>4. n \in Nat \ {0} /\ n \notin 1..(n - 1) /\ nextId' = n + 1
  BY <1>0 DEF TypeInv, MapsTyped, Remade, MadeAgain
<1>5. ASSUME NEW k \in 0..Len(s) PROVE Map(h[k], Obj(edits), n) /\ n \notin DOMAIN h[k]
  <2>1. Map(h[k], Obj(edits), n)
    BY <1>0 DEF Poised, MapsOf
  <2>2. QED
    BY <1>4, <2>1 DEF Map
<1>6. /\ i \in DOMAIN m /\ i \notin DOMAIN server /\ i # n
      /\ Before(r, Renamed(m, i, n), server') /\ Spare(r, Renamed(m, i, n), server')
      /\ Mine(r) = Mine(op[o]) \cup {n} /\ i \in Mine(op[o])
  <2>1. n \notin DOMAIN m
    BY <1>0, <1>3, <1>5
  <2>2. i \in Mine(op[o])
    BY DEF Remade, MadeAgain, Mine
  <2>3. QED
    BY <1>0, <2>1, <2>2, RemadeBefore
<1>7. ASSUME NEW k \in 1..Len(s) PROVE i \notin s[k].ids /\ n \notin s[k].ids
  <2>1. i \notin s[k].ids
    BY <1>0, <1>6, NotNamed DEF Poised
  <2>2. n \notin s[k].ids
    BY <1>0, <1>2, <1>4 DEF TypeInv, MapsTyped, EntryTyped
  <2>3. QED
    BY <2>1, <2>2
<1>8. ASSUME NEW k \in 0..Len(s)
      PROVE  /\ g[k] = Renamed(h[k], i, n) /\ DOMAIN g[k] \subseteq DOMAIN h[k] \cup {n}
             /\ \A j \in DOMAIN g[k] : \E x \in DOMAIN h[k] : g[k][j] = h[k][x]
  BY <1>1, <1>5, <1>6, RenamedIs
<1>9. BaseOf(op, g[Len(s)])'
  <2>1. g[Len(s)] = Renamed(m, i, n)
    BY <1>0, <1>1, <1>3
  <2>2. PICK m2 : m2 = Renamed(m, i, n)
    OBVIOUS
  <2>3. \A j : j # i /\ j # n => Alike(j, m, m2)
    <3>1. n \notin DOMAIN m
      BY <1>0, <1>3, <1>5
    <3>2. QED
      BY <1>6, <2>2, <3>1, RenamedIs
  <2>4. \A j : j \notin Mine(op[o]) \cup Mine(r) => Alike(j, m, m2) /\ Alike(j, server, server')
    <3>1. \A j : j # n => Alike(j, server, server')
      BY <1>0 DEF Remade, MadeAgain, Alike
    <3>2. QED
      BY <1>6, <2>3, <3>1
  <2>5. \A p \in Ops \ {o} : Mine(r) \cap Mine(op[p]) = {}
    <3>1. ASSUME NEW p \in Ops PROVE n \notin Mine(op[p])
      BY <1>0, KnownIds DEF Mine
    <3>2. QED
      BY <1>6, <3>1 DEF Discreet
  <2>6. \A p \in Ops \ {o} : op[p].kind # "undo"
    BY DEF Poised, StackInv
  <2>7. Others(o, m) /\ Mine(op[o]) \ Mine(r) = {}
    BY <1>0, <1>6 DEF Poised
  <2>8. Before(r, m2, server') /\ Spare(r, m2, server')
    BY <1>6, <2>2
  <2>9. BaseOf(op, m2)'
    BY <2>4, <2>5, <2>6, <2>7, <2>8, BaseTurns
  <2>10. QED
    BY <2>1, <2>2, <2>9
<1>10. Linking(s, g)
  <2>1. ASSUME NEW k \in 1..Len(s) PROVE Leads(s[k], g[k], g[k - 1])
    <3>1. k \in 0..Len(s) /\ k - 1 \in 0..Len(s)
      BY <1>3
    <3>2. Leads(s[k], h[k], h[k - 1])
      BY <1>0 DEF Poised, Linking
    <3>3. Leads(s[k], Renamed(h[k], i, n), Renamed(h[k - 1], i, n))
      BY <1>5, <1>6, <1>7, <3>1, <3>2, RenamedLeads
    <3>4. QED
      BY <1>8, <3>1, <3>3
  <2>2. QED
    BY <2>1 DEF Linking
<1>11. Vanished(s, g)'
  <2>1. ASSUME NEW k \in 1..Len(s), s[k].undo = "restore"
        PROVE  s[k].ids \cap DOMAIN server' = {} /\ \A j \in k..Len(s) : s[k].ids \cap DOMAIN g[j] = {}
    <3>1. s[k].ids \cap DOMAIN server = {} /\ \A j \in k..Len(s) : s[k].ids \cap DOMAIN h[j] = {}
      BY <1>0, <2>1 DEF Poised, Vanished
    <3>2. DOMAIN server' = DOMAIN server \cup {n}
      BY <1>0 DEF Remade, MadeAgain
    <3>3. \A j \in k..Len(s) : j \in 0..Len(s)
      BY <1>3
    <3>4. QED
      BY <1>7, <1>8, <3>1, <3>2, <3>3
  <2>2. QED
    BY <2>1 DEF Vanished
<1>12. Elsewhere(op, s, g)'
  <2>1. ASSUME NEW p \in Ops PROVE Brings(op'[p]) \subseteq Brings(op[p])
    <3>1. CASE p = o
      BY <3>1 DEF Turns, Brings
    <3>2. CASE p # o
      BY <3>2, StaysSafe DEF Turns, Discreet
    <3>3. QED
      BY <3>1, <3>2
  <2>2. ASSUME NEW k \in 0..Len(s), NEW j \in DOMAIN g[k], NEW p \in Ops
        PROVE Range(g[k][j].ends) \cap Brings(op'[p]) = {}
    <3>1. PICK x \in DOMAIN h[k] : g[k][j] = h[k][x]
      BY <1>8
    <3>2. Range(h[k][x].ends) \cap Brings(op[p]) = {}
      BY <1>0 DEF Poised, Elsewhere
    <3>3. QED
      BY <2>1, <3>1, <3>2
  <2>3. QED
    BY <2>2 DEF Elsewhere
<1>13. MapsOf(s, g)'
  <2>1. ASSUME NEW k \in 0..Len(s) PROVE Map(g[k], Obj(edits), n + 1)
    BY <1>4, <1>5, <1>8, RenamedTyped
  <2>2. QED
    BY <1>4, <2>1 DEF MapsOf
<1>14. SameMap(g[0], Start)
  <2>1. SameMap(h[0], Start)
    BY DEF Poised
  <2>2. i \in 1..(n - 1)
    BY <1>0, <1>3, <1>5, <1>6 DEF Map
  <2>3. SameMap(Renamed(h[0], i, n), Start)
    BY <1>3, <1>4, <1>5, <2>1, <2>2, RenamedSame
  <2>4. QED
    BY <1>3, <1>8, <2>3
<1>15. StoryOf(op, s, g)'
  BY <1>9, <1>10, <1>11, <1>12, <1>13, <1>14 DEF StoryOf
<1>16. op[o].kind = "undo"
  BY DEF Poised
<1>17. QED
  BY <1>0, <1>15, <1>16, PoisedKept

\* A request fails.
LEMMA FailedKept ==
  ASSUME TypeInv, StackInv, Discreet, Kept, NEW o \in Ops, NEW q \in op[o].sent, NEW r, r = Failed(op[o], q),
         Turns(o, r), server' = server, nextId' = nextId, edits' = edits, stack' = stack, ~Doomed'
  PROVE  Kept'
<1> DEFINE rec == op[o]
<1>1. PICK s, h : Trail(s) /\ StoryOf(op, s, h)
  BY DEF Kept
<1>2. PICK m : m = h[Len(s)]
  OBVIOUS
<1>3. DOMAIN rec = DOMAIN Free /\ Knows(rec, server) /\ Before(rec, m, server)
  BY <1>1, <1>2, OthersOf DEF TypeInv, OpsTyped, OpTyped, Discreet, StoryOf
<1>4. /\ r.kind = rec.kind /\ r.entry = rec.entry /\ r.got = rec.got /\ r.err = "failed"
         /\ r.applied = rec.applied
      /\ Todo(r) \subseteq Todo(rec)
  BY <1>3, FailedLess
<1>5. ~(rec.kind = "undo" /\ rec.applied)
  <2>1. SUFFICES ASSUME rec.kind = "undo", rec.applied PROVE FALSE
    OBVIOUS
  <2>2. op'[o] = r
    BY DEF Turns
  <2>3. Hopeless(op[o])'
    BY <1>4, <2>1, <2>2 DEF Hopeless
  <2>4. QED
    BY <2>3 DEF Doomed
<1> HIDE DEF rec
<1>6. Mine(r) = Mine(rec) /\ (Pending(r) <=> Pending(rec)) /\ Old(r) = Old(rec) /\ Young(r) = Young(rec)
  <2>1. CASE rec.kind = "undo"
    BY <1>4, <1>5, <2>1 DEF Mine, Pending, Old, Young
  <2>2. CASE rec.kind # "undo"
    BY <1>4, <2>2 DEF Mine, Pending, Old, Young
  <2>3. QED
    BY <2>1, <2>2
<1>7. Before(r, m, server) /\ Spare(r, m, server)
  BY <1>3, <1>4, <1>5, <1>6 DEF Before, Spare, Undoes
<1>8. Brings(r) \subseteq Brings(rec)
  BY <1>4, TodoLess, BringsLess
<1>9. /\ \A i : Alike(i, server, server')
      /\ \A p \in Ops \ {o} : Mine(r) \cap Mine(op[p]) = {}
  BY <1>6 DEF Alike, Discreet, rec
<1>10. Gone /\ nextId' \in Nat
  BY StandsGone DEF TypeInv, MapsTyped
<1>11. Before(r, h[Len(s)], server') /\ Spare(r, h[Len(s)], server')
      /\ Brings(r) \subseteq Brings(op[o]) \cup New
       /\ Mine(op[o]) \ Mine(r) = {} /\ (Pending(r) <=> Pending(op[o])) /\ (Pending(r) => r.entry = op[o].entry)
  BY <1>2, <1>4, <1>6, <1>7, <1>8 DEF rec
<1>12. QED
  BY <1>1, <1>9, <1>10, <1>11, KeptTurns

\* A request of an edit is carried out.
LEMMA EditKept ==
  ASSUME TypeInv, StackInv, Discreet, Kept, NEW o \in Ops, op[o].kind # "undo", NEW q \in op[o].sent,
         Found(q), Apply(q), NEW r, NEW got, Answered(r, op[o], q, got), Follows(r, op[o], q),
         Turns(o, r), Gone, nextId' \in Nat, edits' = edits, stack' = stack
  PROVE  Kept'
<1>1. PICK s, h : Trail(s) /\ StoryOf(op, s, h)
  BY DEF Kept
<1>2. PICK m : m = h[Len(s)]
  OBVIOUS
<1>3. Before(op[o], m, server)
  BY <1>1, <1>2, OthersOf DEF StoryOf
<1>4. Map(m, Obj(edits), nextId)
  <2>1. Len(s) \in 0..Len(s)
    BY <1>1, TrailTyped DEF Told
  <2>2. QED
    BY <1>1, <1>2, <2>1 DEF StoryOf, MapsOf
<1>5. /\ Mine(op[o]) \subseteq Mine(r) /\ Mine(r) \cap 1..(nextId - 1) \subseteq Mine(op[o])
      /\ Brings(r) \subseteq Brings(op[o])
      /\ \A i : i \notin Mine(r) => Alike(i, server, server')
      /\ Before(r, m, server') /\ ~Pending(r) /\ Spare(r, m, server')
  BY <1>3, <1>4, EditAnswered
<1>6. \A p \in Ops \ {o} : Mine(r) \cap Mine(op[p]) = {}
  <2>1. \A p \in Ops : Mine(op[p]) \subseteq 1..(nextId - 1)
    BY KnownIds DEF Mine
  <2>2. QED
    BY <1>5, <2>1 DEF Discreet
<1>7. ~Pending(op[o])
  BY DEF Pending
<1>8. QED
  BY <1>1, <1>2, <1>5, <1>6, <1>7, KeptTurns

\* A request of an undo is carried out.
LEMMA UndoKept ==
  ASSUME TypeInv, StackInv, Discreet, Kept, ~Doomed, ~Doomed', NEW o \in Ops, op[o].kind = "undo",
         NEW q \in op[o].sent,
         Found(q), Apply(q), NEW r, NEW got, Answered(r, op[o], q, got), Follows(r, op[o], q),
         Turns(o, r), edits' = edits, stack' = stack
  PROVE  Unhinged(op[o], server) /\ Kept'
<1>1. ~Hopeless(op[o]) /\ ~Hopeless(r)'
  <2>1. op'[o] = r
    BY DEF Turns
  <2>2. QED
    BY <2>1 DEF Doomed, Hopeless
<1>2. /\ op[o].err = "none" /\ Undoer(op[o], server) /\ q \in Todo(op[o])
      /\ EntryOK(op[o].entry) /\ q \in UndoReqs(op[o].entry) /\ op[o].entry.ids \subseteq Nat
      /\ r.kind = "undo" /\ r.entry = op[o].entry /\ r.applied
  BY <1>1, UndoerGoesOn
<1>3. PICK v, h : Poised(o, v, h)
  BY <1>2, UndoPoised
<1>4. Unhinged(op[o], server)
  BY <1>3, PoisedUnhinged
<1>5. /\ q.do \in {"update", "delete", "create"}
      /\ q.do = "create" <=> op[o].entry.undo = "restore"
  BY <1>2, UndoRequest
<1>6. CASE q.do = "update"
  <2>1. Undoer(r, server') /\ \E i : PutBack(o, i)
    BY <1>1, <1>6, UndoUpdates
  <2>2. QED
    BY <1>2, <1>3, <1>4, <1>5, <1>6, <2>1, UndoPutsBack
<1>7. CASE q.do = "delete"
  <2>1. Undoer(r, server') /\ \E i : TakenOut(o, i)
    BY <1>1, <1>4, <1>7, UndoDeletes
  <2>2. QED
    BY <1>2, <1>3, <1>4, <1>5, <1>7, <2>1, UndoPutsBack
<1>8. CASE q.do = "create"
  <2>1. \E i : Remade(o, i, q, r)
    BY <1>1, <1>8, UndoRestores
  <2>2. QED
    BY <1>2, <1>3, <1>4, <2>1, UndoRemakes
<1>9. QED
  BY <1>5, <1>6, <1>7, <1>8

\* The history, and discretion, are kept by whatever becomes of a request.
LEMMA RequestsKept ==
  ASSUME TypeInv, StackInv, Discreet, Kept, ~Doomed, ~Doomed', NEW o \in Ops,
         Serve(o) \/ RequestFails(o), ~holes'
  PROVE  Discreet' /\ Kept'
<1>1. PICK q, r :
        /\ q \in op[o].sent
        /\ op' = [op EXCEPT ![o] = r]
        /\ \/ Found(q) /\ Apply(q) /\ r \in GoOn(Served(op[o], q))
           \/ r = Failed(op[o], q) /\ server' = server /\ nextId' = nextId
  BY RequestTurns
<1>2. stack' = stack /\ edits' = edits /\ Turns(o, r)
  BY <1>1, RequestTurns, OneTurnsTo DEF Serve, RequestFails, bounds, TypeInv
<1>3. CASE r = Failed(op[o], q) /\ server' = server /\ nextId' = nextId
  BY <1>1, <1>2, <1>3, FailureDiscreet, FailedKept
<1>4. CASE Found(q) /\ Apply(q) /\ r \in GoOn(Served(op[o], q))
  <2>1. PICK got : Answered(r, op[o], q, got)
    BY <1>1, <1>4, ServedGoesOn
  <2>2. Follows(r, op[o], q)
    BY <1>1, <1>4, ServedGoesOn
  <2>3. CASE op[o].kind = "undo"
    <3>1. Unhinged(op[o], server) /\ Kept'
      BY <1>1, <1>2, <1>4, <2>1, <2>2, <2>3, UndoKept
    <3>2. Discreet'
      BY <1>1, <1>4, <3>1, SuccessDiscreet
    <3>3. QED
      BY <3>1, <3>2
  <2>4. CASE op[o].kind # "undo"
    <3>1. Discreet'
      BY <1>1, <1>4, <2>4, SuccessDiscreet
    <3>2. Gone /\ nextId' \in Nat
      <4>1. Gone
        BY RequestGone
      <4>2. RequestTyped(q, edits)
        BY <1>1 DEF TypeInv, OpsTyped, OpTyped, Todo
      <4>3. nextId' \in Nat
        BY <1>4, <4>2, ApplyTyped DEF TypeInv, MapsTyped
      <4>4. QED
        BY <4>1, <4>3
    <3>3. Kept'
      BY <1>1, <1>2, <1>4, <2>1, <2>2, <2>4, <3>2, EditKept
    <3>4. QED
      BY <3>1, <3>3
  <2>5. QED
    BY <2>3, <2>4
<1>5. QED
  BY <1>1, <1>3, <1>4

-------------------------------------------------------------------------------
(* An undo begins.                                                            *)

\* The requests of an undo that restores objects are sent points first.
LEMMA RestoresSent ==
  ASSUME NEW T, NEW U, T \cap U = {}, \A q \in T \cup U : q.do = "create", T \cup U # {},
         NEW rec, DOMAIN rec = DOMAIN Free, rec.stages = Stage(T) \o Stage(U), NEW r \in Send(rec)
  PROVE  r.stages = <<>> \/ \E V : r.stages = <<V>> /\ r.sent \cap V = {}
<1>1. PICK stage, rest : stage = Head(rec.stages) /\ rest = Tail(rec.stages)
  OBVIOUS
<1>2. ASSUME stage # {}, \A q \in stage : q.do = "create" PROVE r.sent = stage /\ r.stages = rest
  <2>1. ~(\A q \in stage : q.do = "update")
    BY <1>2
  <2>2. r = [rec EXCEPT !.sent = stage, !.stages = rest]
    BY <1>1, <2>1 DEF Send
  <2>3. QED
    BY <2>2 DEF Free
<1>3. CASE T = {}
  <2>1. rec.stages = <<U>>
    BY <1>3 DEF Stage
  <2>2. stage = U /\ rest = <<>>
    BY <1>1, <2>1
  <2>3. QED
    BY <1>2, <1>3, <2>2
<1>4. CASE T # {} /\ U = {}
  <2>1. rec.stages = <<T>>
    BY <1>4 DEF Stage
  <2>2. stage = T /\ rest = <<>>
    BY <1>1, <2>1
  <2>3. QED
    BY <1>2, <1>4, <2>2
<1>5. CASE T # {} /\ U # {}
  <2>1. rec.stages = <<T, U>>
    <3>1. Stage(T) = <<T>> /\ Stage(U) = <<U>>
      BY <1>5 DEF Stage
    <3>2. <<T>> \o <<U>> = <<T, U>>
      <4>1. <<T>> \in Seq({T, U}) /\ <<U>> \in Seq({T, U}) /\ <<T, U>> \in Seq({T, U})
        OBVIOUS
      <4>2. <<T>> \o <<U>> \in Seq({T, U}) /\ Len(<<T>> \o <<U>>) = 2
        BY <4>1
      <4>3. (<<T>> \o <<U>>)[1] = T /\ (<<T>> \o <<U>>)[2] = U
        BY <4>1
      <4>4. PICK c, d : c = <<T>> \o <<U>> /\ d = <<T, U>>
        OBVIOUS
      <4>5. c \in Seq({T, U}) /\ d \in Seq({T, U}) /\ Len(c) = 2 /\ Len(d) = 2
        BY <4>1, <4>2, <4>4
      <4>6. c[1] = d[1] /\ c[2] = d[2]
        BY <4>3, <4>4
      <4>7. c = d
        <5>1. \A i \in 1..Len(c) : c[i] = d[i]
          BY <4>5, <4>6
        <5>2. QED
          BY <4>5, <5>1, SeqEqual
      <4>8. QED
        BY <4>4, <4>7
    <3>3. QED
      BY <3>1, <3>2
  <2>2. stage = T /\ rest = <<U>>
    BY <1>1, <2>1
  <2>3. QED
    BY <1>2, <1>5, <2>2
<1>6. QED
  BY <1>3, <1>4, <1>5

\* An undo of an entry has a request to send.
LEMMA UndoAsksSomething ==
  ASSUME NEW e, EntryOK(e), e.ids \subseteq Nat
  PROVE  UndoReqs(e) # {}
<1>1. PICK i : i \in e.ids
  BY DEF EntryOK
<1>2. CASE e.undo = "restore"
  <2>1. UndoReqs(e) = {Restore(j, e.objs[j]) : j \in e.ids}
    BY <1>2, UndoAsks
  <2>2. QED
    BY <1>1, <2>1
<1>3. CASE e.undo # "restore"
  <2>1. UndoReqs(e) = {Update(j, e.objs[j]) : j \in DOMAIN e.objs}
                        \cup {Delete({j}) : j \in e.ids \ DOMAIN e.objs}
    BY <1>3, UndoAsks
  <2>2. QED
    BY <1>1, <2>1
<1>4. QED
  BY <1>2, <1>3

\* What an undo knows when it begins.
LEMMA UndoKnows ==
  ASSUME NEW e, EntryOK(e), e.ids \subseteq Nat, NEW sv, e.undo = "restore" => e.ids \cap DOMAIN sv = {},
         NEW rec, rec = [Free EXCEPT !.kind = "undo", !.entry = e, !.stages = UndoStages(e)],
         NEW r \in Send(rec),
         r.kind = "undo", r.entry = e, r.err = "none", ~r.applied, r.got = None, Todo(r) = UndoReqs(e)
  PROVE  /\ Knows(r, sv) /\ Mine(r) = e.ids /\ Brings(r) = {}
         /\ Load(r) \subseteq Range(e.objs)
         /\ Targets(r) \subseteq e.ids \ DOMAIN e.objs
<1>1. DOMAIN None = {} /\ Mine(r) = e.ids /\ Brings(r) = {} /\ DOMAIN e.objs \subseteq e.ids
  BY NoMap DEF Mine, Brings, EntryOK
<1>2. ASSUME NEW x \in Load(r) PROVE \E i \in DOMAIN e.objs : x = e.objs[i]
  <2>1. PICK q \in UndoReqs(e) : x \in Carried(q)
    BY DEF Load
  <2>2. q.do # "delete"
    BY <2>1 DEF Carried
  <2>3. \/ \E i \in DOMAIN e.objs : Carried(q) = {e.objs[i]}
        \/ q.do = "create" /\ e.undo = "restore" /\ \E i \in e.ids : Carried(q) = {e.objs[i]}
    BY <2>1, <2>2, UndoRequest
  <2>4. e.undo = "restore" => DOMAIN e.objs = e.ids
    BY DEF EntryOK
  <2>5. QED
    BY <2>1, <2>3, <2>4
<1>3. Load(r) \subseteq Range(e.objs)
  BY <1>2 DEF Range
<1>4. Targets(r) \subseteq e.ids \ DOMAIN e.objs
  BY UndoDeletion DEF Targets
<1>5. \A x \in Load(r) : IsLine(x) =>
         Range(x.ends) \cap Spots(Range(e.objs)) \subseteq Spots({y \in Range(e.objs) : IsLine(y)})
  BY <1>3 DEF Spots
<1>6. UndoReqs(e) # {}
  BY UndoAsksSomething
<1>7. e.undo = "restore" => r.stages = <<>> \/ \E V : r.stages = <<V>> /\ r.sent \cap V = {}
  <2>1. SUFFICES ASSUME e.undo = "restore" PROVE r.stages = <<>> \/ \E V : r.stages = <<V>>
        /\ r.sent \cap V = {}
    OBVIOUS
  <2>2. PICK T, U : UndoStages(e) = Stage(T) \o Stage(U) /\ T \cap U = {} /\ UndoReqs(e) = T \cup U
    BY <2>1, UndoAsks
  <2>3. \A q \in UndoReqs(e) : q.do = "create"
    BY <2>1, UndoRequest
  <2>4. DOMAIN rec = DOMAIN Free /\ rec.stages = UndoStages(e)
    BY DEF Free
  <2>5. QED
    <3>1. T \cup U # {} /\ (\A q \in T \cup U : q.do = "create") /\ rec.stages = Stage(T) \o Stage(U)
      BY <1>6, <2>2, <2>3, <2>4
    <3>2. T \cap U = {} /\ DOMAIN rec = DOMAIN Free /\ r \in Send(rec)
      BY <2>2, <2>4
    <3>3. r.stages = <<>> \/ \E V : r.stages = <<V>> /\ r.sent \cap V = {}
      BY ONLY <3>1, <3>2, RestoresSent
    <3>4. QED
      BY <3>3
<1>8. Undoer(r, sv)
  BY <1>1, <1>6, <1>7 DEF Undoer
<1>9. Knows(r, sv)
  BY <1>1, <1>4, <1>5, <1>8 DEF Knows, Kinds, Changing
<1>10. QED
  BY <1>1, <1>3, <1>4, <1>9

\* The entry that leads from m to m0 can be undone beside the others.
LEMMA UndoDiscreet ==
  ASSUME TypeInv, Discreet, NEW o \in Ops, op[o] = Free, NEW r, Turns(o, r), server' = server,
         NEW e, EntryTyped(e, edits, nextId), NEW m, NEW m0, Map(m, Obj(edits), nextId),
         Leads(e, m, m0), ~InTheWay(e),
         r.entry = e, r.got = None, Knows(r, server), Mine(r) = e.ids, Brings(r) = {},
         Load(r) \subseteq Range(e.objs), Targets(r) \subseteq e.ids \ DOMAIN e.objs,
         e.undo = "restore" => Targets(r) = {},
         BaseOf(op, m), \A p \in Ops : \A j \in DOMAIN m0 : Range(m0[j].ends) \cap Brings(op[p]) = {}
  PROVE  Discreet' /\ \A i \in e.ids : Alike(i, m, server)
<1>1. \A p \in Ops : e.ids \cap Mine(op[p]) = {}
  BY NothingInTheWay
<1>2. \A i \in e.ids : Alike(i, m, server)
  BY <1>1 DEF BaseOf
<1>3. ASSUME NEW i \in DOMAIN e.objs PROVE i \in DOMAIN m0 /\ m0[i].ends = e.objs[i].ends
  <2>1. CASE e.undo = "restore"
    BY <2>1 DEF Leads, EntryOK
  <2>2. CASE e.undo # "restore"
    <3>1. i \in DOMAIN m /\ i \in DOMAIN m0 /\ m0[i] = Upserted(m[i], e.objs[i])
      BY <2>2 DEF Leads, EntryOK
    <3>2. m[i] \in Obj(edits) /\ e.objs[i] \in Part(edits)
      BY <3>1 DEF Map, EntryTyped
    <3>3. QED
      BY <3>1, <3>2, OverEnds
  <2>3. QED
    BY <2>1, <2>2
<1>4. ASSUME NEW p \in Ops PROVE Spots(Range(e.objs)) \cap Brings(op[p]) = {}
  BY <1>3 DEF Spots, Range
<1>5. ASSUME NEW i \in DOMAIN server \ e.ids, \A p \in Ops : i \notin Mine(op[p]), IsLine(server[i]),
             NEW z \in Range(server[i].ends) \cap Doors(r, server)
      PROVE  FALSE
  <2>1. i \in DOMAIN m0 /\ m0[i] = server[i]
    BY <1>5 DEF BaseOf, Leads, Alike
  <2>2. PICK t \in Targets(r) \cap DOMAIN server : ~IsLine(server[t]) /\ z = server[t].ends[1]
    BY <1>5 DEF Doors
  <2>3. t \in e.ids \ DOMAIN e.objs /\ e.undo # "restore" /\ m[t] = server[t]
    BY <1>2, <2>2 DEF Alike
  <2>4. m[t].ends[1] \notin Range(m0[i].ends)
    BY <1>5, <2>1, <2>2, <2>3 DEF Leads
  <2>5. QED
    BY <1>5, <2>1, <2>2, <2>3, <2>4
<1>6. Spots(Load(r)) \subseteq Spots(Range(e.objs)) /\ DOMAIN r.got = {}
  BY NoMap DEF Spots
<1>7. Discreet'
  <2>1. \A i \in DOMAIN server \ r.entry.ids : (\A p \in Ops : i \notin Mine(op[p])) =>
           (IsLine(server[i]) => Range(server[i].ends) \cap Doors(r, server) = {})
    BY <1>5
  <2>2. \A p \in Ops : Spots(Range(r.entry.objs)) \cap Brings(op[p]) = {}
    BY <1>4
  <2>3. ~InTheWay(r.entry) /\ Brings(r) \subseteq New /\ Spots(Load(r)) \subseteq New \cup Spots(Range(r.entry.objs))
    BY <1>6
  <2>4. QED
    BY <1>6, <2>1, <2>2, <2>3, BeginDiscreet
<1>8. QED
  BY <1>2, <1>7

\* A stack is what is left when its last entry is popped, with that entry appended.
LEMMA PoppedIsBack ==
  ASSUME NEW S, NEW s \in Seq(S), s # <<>>
  PROVE  /\ Len(s) \in 1..Len(s) /\ Len(s) \in Nat \ {0} /\ s[Len(s)] \in S
         /\ s = Append(SubSeq(s, 1, Len(s) - 1), s[Len(s)])
<1>1. Len(s) \in Nat \ {0} /\ Len(s) \in 1..Len(s) /\ DOMAIN s = 1..Len(s)
  BY EmptySeq
<1>2. PICK n : n = Len(s)
  OBVIOUS
<1>3. SubSeq(s, 1, n - 1) \in Seq(S) /\ Len(SubSeq(s, 1, n - 1)) = n - 1
      /\ \A i \in 1..(n - 1) : SubSeq(s, 1, n - 1)[i] = s[i]
  BY <1>1, <1>2
<1>4. PICK t : t = Append(SubSeq(s, 1, n - 1), s[n])
  OBVIOUS
<1>5. s[n] \in S
  BY <1>1, <1>2
<1>6. t \in Seq(S) /\ Len(t) = n /\ \A i \in 1..n : t[i] = s[i]
  <2>1. PICK u : u = SubSeq(s, 1, n - 1)
    OBVIOUS
  <2>2. u \in Seq(S) /\ Len(u) = n - 1 /\ \A i \in 1..(n - 1) : u[i] = s[i]
    BY <1>3, <2>1
  <2>3. t = Append(u, s[n])
    BY <1>4, <2>1
  <2>4. t \in Seq(S) /\ Len(t) = n /\ t[n] = s[n] /\ \A i \in 1..(n - 1) : t[i] = u[i]
    <3>1. PICK x : x = s[n]
      OBVIOUS
    <3>2. x \in S /\ t = Append(u, x)
      BY <1>5, <2>3, <3>1
    <3>3. /\ t \in Seq(S) /\ Len(t) = Len(u) + 1 /\ t[Len(u) + 1] = x
          /\ \A i \in 1..Len(u) : t[i] = u[i]
      BY <2>2, <3>2, AppendProperties
    <3>4. QED
      BY <1>1, <1>2, <2>2, <3>1, <3>3
  <2>5. QED
    BY <1>1, <1>2, <2>2, <2>4
<1>7. t = s
  BY <1>2, <1>6, SeqEqual
<1>8. QED
  BY <1>1, <1>2, <1>4, <1>5, <1>7

\* The history, and discretion, are kept by an undo that begins.
LEMMA UndoBegins ==
  ASSUME TypeInv, StackInv, Discreet, Kept, NEW o \in Ops, Undo(o), ~holes'
  PROVE  Discreet' /\ Kept'
<1>1. PICK e, r : /\ e = stack[Len(stack)] /\ Len(stack) \in DOMAIN stack
                     /\ stack' = SubSeq(stack, 1, Len(stack) - 1)
                  /\ op[o] = Free /\ Turns(o, r) /\ ~InTheWay(e) /\ ~Undoing
                  /\ server' = server /\ nextId' = nextId /\ edits' = edits
                  /\ r \in Send([Free EXCEPT !.kind = "undo", !.entry = e, !.stages = UndoStages(e)])
                  /\ r.kind = "undo" /\ r.entry = e /\ r.err = "none" /\ ~r.applied /\ r.got = None
                  /\ Todo(r) = UndoReqs(e)
  BY UndoTurns
<1>2. PICK s, h : Trail(s) /\ StoryOf(op, s, h)
  BY DEF Kept
<1>3. \A p \in Ops : op[p].kind # "undo"
  BY <1>1 DEF Undoing
<1>4. s = stack
  BY <1>2, <1>3 DEF Trail, Pending
<1>5. PICK n : n = Len(stack)
  OBVIOUS
<1>6. n \in Nat \ {0} /\ n \in 1..Len(s) /\ n = Len(s) /\ n - 1 \in 0..Len(s) /\ n \in 0..Len(s)
      /\ e = s[n] /\ s = Append(stack', e)
  <2>1. PICK S : stack \in Seq(S)
    BY DEF StackInv
  <2>2. stack # <<>>
    BY <1>1, <2>1
  <2>3. QED
    BY <1>1, <1>4, <1>5, <2>1, <2>2, PoppedIsBack
<1>7. PICK m, m0 : m = h[n] /\ m0 = h[n - 1]
  OBVIOUS
<1>8. EntryTyped(e, edits, nextId)
  BY <1>1 DEF TypeInv, MapsTyped
<1>9. e.ids \subseteq Nat /\ EntryOK(e) /\ Leads(e, m, m0)
  <2>1. Leads(e, m, m0)
    BY <1>2, <1>6, <1>7 DEF StoryOf, Linking
  <2>2. e.ids \subseteq 1..(nextId - 1) /\ nextId \in Nat
    BY <1>8 DEF EntryTyped, TypeInv, MapsTyped
  <2>3. QED
    BY <2>1, <2>2 DEF Leads
<1>10. e.undo = "restore" => e.ids \cap DOMAIN server = {}
  BY <1>2, <1>6 DEF StoryOf, Vanished
<1>11. Map(m, Obj(edits), nextId) /\ BaseOf(op, m)
  BY <1>2, <1>6, <1>7 DEF StoryOf, MapsOf
<1>12. \A p \in Ops : \A j \in DOMAIN m0 : Range(m0[j].ends) \cap Brings(op[p]) = {}
  BY <1>2, <1>6, <1>7 DEF StoryOf, Elsewhere
<1>13. /\ Knows(r, server) /\ Mine(r) = e.ids /\ Brings(r) = {}
       /\ Load(r) \subseteq Range(e.objs)
       /\ Targets(r) \subseteq e.ids \ DOMAIN e.objs
  BY <1>1, <1>9, <1>10, UndoKnows
<1>14. e.undo = "restore" => Targets(r) = {}
  BY <1>9, <1>13 DEF EntryOK
<1>15. Discreet' /\ \A i \in e.ids : Alike(i, m, server)
  BY <1>1, <1>8, <1>9, <1>11, <1>12, <1>13, <1>14, UndoDiscreet
<1>16. Pending(r) /\ Pending(op'[o]) /\ op'[o].entry = e
  BY <1>1 DEF Pending, Turns
<1>17. Trail(s)'
  BY <1>6, <1>16 DEF Trail
<1>18. Before(r, m, server') /\ Spare(r, m, server')
  <2>1. Old(r) = {} /\ Young(r) = {}
    BY <1>16 DEF Old, Young
  <2>2. Before(r, m, server')
    BY <1>1, <1>13, <1>15, <2>1 DEF Before
  <2>3. QED
    BY <1>1, <2>2 DEF Spare, Undoes
<1>19. BaseOf(op, m)'
  <2>1. \A i : Alike(i, m, m) /\ Alike(i, server, server')
    BY <1>1 DEF Alike
  <2>2. \A p \in Ops \ {o} : Mine(r) \cap Mine(op[p]) = {}
    BY <1>1, <1>13, NothingInTheWay
  <2>3. \A i \in Mine(op[o]) \ Mine(r) : Alike(i, m, server')
    BY <1>1, FreeIsSafe
  <2>4. Others(o, m)
    BY <1>11, OthersOf
  <2>5. QED
    BY <1>1, <1>18, <2>1, <2>2, <2>3, <2>4, BaseTurns
<1>20. \A p \in Ops : Brings(op'[p]) \subseteq Brings(op[p]) \cup New
  BY <1>1, <1>13, StaysSafe DEF Turns, Discreet
<1>21. Told(s) /\ Gone /\ nextId' \in Nat /\ edits \in Nat /\ edits' \in Nat /\ edits <= edits'
  BY <1>1, <1>2, TrailTyped, StandsGone DEF TypeInv, MapsTyped
<1>22. StoryOf(op, s, h)'
  <2>1. BaseOf(op, h[Len(s)])'
    BY <1>6, <1>7, <1>19
  <2>2. QED
    BY <1>2, <1>20, <1>21, <2>1, StorySame
<1>23. QED
  BY <1>15, <1>17, <1>22 DEF Kept

-------------------------------------------------------------------------------
(* An edit begins.                                                            *)

\* Nothing of an edit that is in nobody's way is out of date in the cache.
LEMMA NobodysInStep ==
  ASSUME InStep, NEW entry, ~InTheWay(entry)
  PROVE  \A i \in entry.ids \cup Expand(server, entry.ids \cap DOMAIN server) : Settled(i, server, cache)
<1>1. ASSUME NEW i \in entry.ids \cup Expand(server, entry.ids \cap DOMAIN server), NEW p \in Ops
      PROVE  i \notin Claim(op[p])
  BY <1>1, NothingInTheWay DEF Claim
<1>2. QED
  BY <1>1 DEF InStep, Settled

\* What an edit records, as it begins, of objects that the backend has so.
Records(rec) ==
  /\ rec.kind \in Changing \cup {"delete"}
  /\ rec.entry.ids = DOMAIN rec.entry.objs /\ rec.got = None
  /\ \A i \in rec.entry.ids : /\ i \in DOMAIN server /\ Upserted(server[i], rec.entry.objs[i]) = server[i]
                              /\ rec.entry.objs[i].ends = server[i].ends
  /\ \A x \in Load(rec) : Range(x.ends) \subseteq New \cup Spots(Range(rec.entry.objs))

\* The history, and discretion, are kept by an edit that begins with what it has recorded.
LEMMA EditOpens ==
  ASSUME TypeInv, StackInv, Discreet, Kept, NEW o \in Ops, op[o] = Free, NEW r, Turns(o, r),
         server' = server, nextId' = nextId, stack' = stack, edits' = edits + 1,
         ~InTheWay(r.entry), Knows(r, server), Records(r),
         \A i \in DOMAIN server \ r.entry.ids : (\A p \in Ops : i \notin Mine(op[p])) =>
           (IsLine(server[i]) => Range(server[i].ends) \cap Doors(r, server) = {})
  PROVE  Discreet' /\ Kept'
<1> DEFINE e == r.entry
<1>1. /\ r.kind # "undo" /\ e.ids = DOMAIN e.objs /\ DOMAIN r.got = {} /\ Range(r.got) = {} /\ Mine(r) = e.ids
      /\ e.ids \subseteq DOMAIN server
  BY NoMap DEF Records, Changing, Mine, Range
<1>2. \A p \in Ops : e.ids \cap Mine(op[p]) = {}
  BY NothingInTheWay
<1>3. Spots(Load(r)) \subseteq New \cup Spots(Range(e.objs))
  BY DEF Records, Spots
<1>4. Brings(r) \subseteq New
  <2>1. Spots(Range(r.got)) = {}
    BY <1>1 DEF Spots
  <2>2. QED
    BY <1>1, <1>3, <2>1 DEF Brings
<1>5. \A p \in Ops : Spots(Range(e.objs)) \cap Brings(op[p]) = {}
  <2>1. SUFFICES ASSUME NEW p \in Ops, NEW z \in Spots(Range(e.objs)) PROVE z \notin Brings(op[p])
    OBVIOUS
  <2>2. PICK i \in e.ids : z \in Range(e.objs[i].ends)
    BY <1>1 DEF Spots, Range
  <2>3. Safe(server[i], op[p], server)
    BY <1>1, <1>2 DEF Discreet
  <2>4. QED
    BY <2>2, <2>3 DEF Safe, Records
<1>6. Discreet'
  BY <1>1, <1>3, <1>4, <1>5, BeginDiscreet
<1>7. PICK s, h : Trail(s) /\ StoryOf(op, s, h)
  BY DEF Kept
<1>8. PICK m : m = h[Len(s)]
  OBVIOUS
<1>9. BaseOf(op, m)
  BY <1>7, <1>8 DEF StoryOf
<1>10. \A i \in e.ids : Alike(i, m, server)
  BY <1>2, <1>9 DEF BaseOf
<1>11. Before(r, m, server') /\ Spare(r, m, server')
  <2>1. BeforeEdit(r, m, server)
    BY <1>1, <1>10 DEF BeforeEdit, Alike, Records
  <2>2. QED
    BY <1>1, <2>1, EditBefore
<1>12. ~Pending(r) /\ ~Pending(op[o])
  BY <1>1 DEF Pending, Free
<1>13. Gone /\ nextId' \in Nat /\ edits' \in {edits, edits + 1}
  BY StandsGone DEF TypeInv, MapsTyped
<1>14. /\ \A i : Alike(i, server, server')
       /\ \A i \in Mine(op[o]) \ Mine(r) : Alike(i, m, server')
       /\ \A p \in Ops \ {o} : Mine(r) \cap Mine(op[p]) = {}
       /\ Brings(r) \subseteq Brings(op[o]) \cup New
  BY <1>1, <1>2, <1>4, FreeIsSafe DEF Alike
<1>15. Kept'
  BY <1>7, <1>8, <1>11, <1>12, <1>13, <1>14, KeptTurns
<1>16. QED
  BY <1>6, <1>15

\* What grew in the cache grew in the backend.
LEMMA GrownIn ==
  ASSUME NEW x, NEW ids, ids \subseteq DOMAIN cache, Grown(x, ids), NEW objs, DOMAIN objs = ids,
         \A i \in ids : objs[i].ends = cache[i].ends,
         New \cap Places(edits) = {}, \A i \in ids : Range(cache[i].ends) \subseteq Places(edits)
  PROVE  /\ Range(x.ends) \subseteq New \cup Spots(Range(objs))
         /\ IsLine(x) => Range(x.ends) \cap Spots(Range(objs)) \subseteq Spots({y \in Range(objs) : IsLine(y)})
<1>1. ASSUME NEW j \in ids, NEW z \in Range(cache[j].ends)
      PROVE  /\ z \in Spots(Range(objs))
             /\ IsLine(cache[j]) => z \in Spots({y \in Range(objs) : IsLine(y)})
  <2>1. objs[j] \in Range(objs) /\ z \in Range(objs[j].ends) /\ (IsLine(cache[j]) => IsLine(objs[j]))
    BY DEF Range, IsLine
  <2>2. QED
    BY <2>1 DEF Spots
<1>2. ASSUME NEW z \in Spots(Range(objs)) PROVE z \notin New
  <2>1. PICK i \in ids : z \in Range(objs[i].ends)
    BY DEF Spots, Range
  <2>2. QED
    BY <2>1
<1>3. QED
  BY <1>1, <1>2 DEF Grown

\* An edit that changes objects, by what the cache shows of them as it begins.
Opens(rec) ==
  LET ids == rec.entry.ids  objs == rec.entry.objs IN
  /\ Unsent(rec) /\ ~rec.applied /\ rec.kind \in Changing
  /\ ids = DOMAIN objs /\ ids \subseteq DOMAIN cache
  /\ \A i \in ids : objs[i].ends = cache[i].ends /\ Upserted(cache[i], objs[i]) = cache[i]
  /\ \A x \in Load(rec) : Grown(x, ids)
  /\ \A q \in Todo(rec) :
       \/ /\ q.do = "update"
          /\ \E i \in ids : q.ids = {i} /\ DOMAIN q.objs[1] \subseteq DOMAIN objs[i]
       \/ /\ q.do = "create" /\ rec.kind \in {"place", "split", "paste"} /\ q.objs # <<>>
          /\ \A x \in Range(q.objs) : ~IsLine(x) => x.ends[1] \in New \/ objs = None

\* An edit that begins knows its objects: the backend has them as the cache does.
LEMMA OpensKnows ==
  ASSUME TypeInv, NEW rec, Opens(rec), \A i \in rec.entry.ids : Settled(i, server, cache),
         NEW r \in Send(rec), Formed(r)
  PROVE  /\ r.entry = rec.entry /\ Knows(r, server) /\ Records(r) /\ Targets(r) = {}
<1> DEFINE ids == rec.entry.ids
           objs == rec.entry.objs
<1>1. Same(r, rec)
  BY SendSame DEF Opens, Unsent
<1>2. /\ r.kind = rec.kind /\ r.entry = rec.entry /\ r.got = None /\ r.err = "none" /\ ~r.applied
      /\ Todo(r) = Todo(rec) /\ Load(r) = Load(rec) /\ DOMAIN r.got = {} /\ r.kind \in Changing
  BY <1>1, SameHolds, NoMap DEF Same, Opens, Unsent
<1>3. ids = DOMAIN objs /\ ids \subseteq DOMAIN cache /\ \A i \in ids : i \in DOMAIN server
      /\ server[i] = cache[i]
  BY DEF Opens, Settled
<1>4. \A x \in Load(r) :
        /\ Range(x.ends) \subseteq New \cup Spots(Range(objs))
        /\ IsLine(x) => Range(x.ends) \cap Spots(Range(objs)) \subseteq Spots({y \in Range(objs) : IsLine(y)})
  <2>1. New \cap Places(edits) = {} /\ \A i \in ids : Range(cache[i].ends) \subseteq Places(edits)
    BY <1>3, OldPlaces
  <2>2. \A x \in Load(r) : Grown(x, ids)
    BY <1>2 DEF Opens
  <2>3. \A i \in ids : objs[i].ends = cache[i].ends
    BY DEF Opens
  <2>4. QED
    BY <1>3, <2>1, <2>2, <2>3, GrownIn
<1>5. \A q \in Todo(r) : q.do \in {"update", "create"}
  BY <1>2 DEF Opens
<1>6. Targets(r) = {}
  BY <1>5, NoTargets
<1>7. \A z \in Spots(Range(objs)) : z \notin New /\ objs # None
  <2>1. SUFFICES ASSUME NEW i \in ids, NEW z \in Range(objs[i].ends) PROVE z \notin New /\ objs # None
    <3>1. \A z \in Spots(Range(objs)) : \E i \in ids : z \in Range(objs[i].ends)
      BY <1>3 DEF Spots, Range
    <3>2. QED
      BY <3>1
  <2>2. z \in Places(edits)
    BY <1>3, OldPlaces DEF Opens
  <2>3. QED
    BY <1>3, <2>2, OldPlaces, NoMap
<1>8. Changer(r, server)
  <2>1. \A i \in ids : i \in DOMAIN server /\ Upserted(server[i], objs[i]) = server[i]
    BY <1>3 DEF Opens
  <2>2. \A q \in Todo(r) :
       \/ /\ q.do = "update"
          /\ \E i \in ids : q.ids = {i} /\ DOMAIN q.objs[1] \subseteq DOMAIN objs[i]
       \/ /\ q.do = "create" /\ r.kind \in {"place", "split", "paste"} /\ q.objs # <<>>
          /\ \A x \in Range(q.objs) : ~IsLine(x) => x.ends[1] \notin Spots(Range(objs))
    BY <1>2, <1>7 DEF Opens
  <2>3. QED
    BY <1>2, <1>3, <2>1, <2>2 DEF Changer
<1>9. Knows(r, server)
  BY <1>2, <1>3, <1>4, <1>6, <1>8 DEF Knows, Changing, Kinds
<1>10. Records(r)
  BY <1>2, <1>3, <1>4 DEF Records, Opens
<1>11. QED
  BY <1>2, <1>6, <1>9, <1>10

\* The history, and discretion, are kept by a changing edit that begins.
LEMMA ChangerBegins ==
  ASSUME TypeInv, StackInv, Discreet, Kept, drift \/ InStep, ~holes',
         NEW rec, NEW f, f = op \/ f = Released(op), Begin(rec, f), Opens(rec),
         \A r \in Send(rec) : Formed(r),
         server' = server, nextId' = nextId, stack' = stack
  PROVE  Discreet' /\ Kept'
<1>1. PICK o \in Ops, r \in Send(rec) : op[o] = Free /\ Turns(o, r) /\ edits' = edits + 1 /\ ~drift
      /\ ~InTheWay(rec.entry)
  BY BeginTurns DEF TypeInv
<1>2. \A i \in rec.entry.ids : Settled(i, server, cache)
  BY <1>1, NobodysInStep
<1>3. r.entry = rec.entry /\ Knows(r, server) /\ Records(r) /\ Targets(r) = {}
  BY <1>2, OpensKnows
<1>4. Doors(r, server) = {}
  BY <1>3 DEF Doors
<1>5. QED
  BY <1>1, <1>3, <1>4, EditOpens

\* Laying an object, or its geometry, over itself changes nothing.
LEMMA OverItself ==
  ASSUME NEW n, NEW x \in Obj(n)
  PROVE  Upserted(x, x) = x /\ Upserted(x, Geometry(x)) = x
<1>1. DOMAIN x = {"ends", "path", "form"} /\ x = [f \in {"ends", "path", "form"} |-> x[f]]
  BY DEF Obj
<1>2. DOMAIN Geometry(x) = {"ends", "path"} /\ Geometry(x).ends = x.ends /\ Geometry(x).path = x.path
  BY DEF Geometry
<1>3. Upserted(x, x) = [f \in {"ends", "path", "form"} |-> x[f]]
  BY <1>1 DEF Upserted
<1>4. Upserted(x, Geometry(x)) = [f \in {"ends", "path", "form"} |-> x[f]]
  <2>1. DOMAIN Geometry(x) \cup DOMAIN x = {"ends", "path", "form"}
    BY <1>1, <1>2
  <2>2. \A f \in {"ends", "path", "form"} :
          (IF f \in DOMAIN Geometry(x) THEN Geometry(x)[f] ELSE x[f]) = x[f]
    BY <1>2
  <2>3. QED
    BY <2>1, <2>2 DEF Upserted
<1>5. QED
  BY <1>1, <1>3, <1>4

\* A drag begins as a changing edit does.
LEMMA DrawnOpens ==
  ASSUME TypeInv, NEW rec, NEW new, Drawn(rec, new)
  PROVE  Opens(rec) /\ \A r \in Send(rec) : Formed(r)
<1> DEFINE ids == DOMAIN new
<1>1. /\ Unsent(rec) /\ ~rec.applied /\ rec.entry.undo = "patch" /\ ids # {} /\ Changes(rec, ids)
      /\ rec.kind \in {"move", "group"} /\ rec.entry.ids = ids /\ rec.entry.objs = Geometries(cache, ids)
      /\ Todo(rec) = {Update(i, Geometry(new[i])) : i \in ids}
  BY DEF Drawn, Redraws
<1>2. ids \subseteq DOMAIN cache /\ \A i \in ids : cache[i] \in Obj(edits)
  BY <1>1 DEF Changes, TypeInv, MapsTyped, Map
<1>3. DOMAIN rec.entry.objs = ids /\ \A i \in ids : rec.entry.objs[i] = Geometry(cache[i])
  BY <1>1 DEF Geometries
<1>4. \A i \in ids : /\ rec.entry.objs[i].ends = cache[i].ends
                     /\ Upserted(cache[i], rec.entry.objs[i]) = cache[i]
                     /\ DOMAIN rec.entry.objs[i] = {"ends", "path"}
  <2>1. SUFFICES ASSUME NEW i \in ids PROVE /\ rec.entry.objs[i].ends = cache[i].ends
                                           /\ Upserted(cache[i], rec.entry.objs[i]) = cache[i]
                                           /\ DOMAIN rec.entry.objs[i] = {"ends", "path"}
    OBVIOUS
  <2>2. PICK x : x = cache[i]
    OBVIOUS
  <2>3. x \in Obj(edits) /\ rec.entry.objs[i] = Geometry(x)
    BY <1>2, <1>3, <2>2
  <2>4. Upserted(x, Geometry(x)) = x
    BY <2>3, OverItself
  <2>5. Geometry(x).ends = x.ends /\ DOMAIN Geometry(x) = {"ends", "path"}
    BY DEF Geometry
  <2>6. QED
    BY <2>2, <2>3, <2>4, <2>5
<1>5. \A x \in Load(rec) : Grown(x, ids)
  BY <1>1, ChangesReady DEF Ready
<1>6. ASSUME NEW q \in Todo(rec)
      PROVE  /\ q.do = "update"
             /\ \E i \in ids : q.ids = {i} /\ DOMAIN q.objs[1] \subseteq DOMAIN rec.entry.objs[i]
  <2>1. PICK i \in ids : q = Update(i, Geometry(new[i]))
    BY <1>1
  <2>2. q.do = "update" /\ q.ids = {i} /\ DOMAIN q.objs[1] = {"ends", "path"}
    BY <2>1 DEF Update, Geometry
  <2>3. QED
    BY <1>4, <2>2
<1>7. Opens(rec)
  BY <1>1, <1>2, <1>3, <1>4, <1>5, <1>6 DEF Opens, Changing
<1>8. ASSUME NEW r \in Send(rec) PROVE Formed(r)
  <2>1. Same(r, rec)
    BY <1>1, SendSame DEF Unsent
  <2>2. DOMAIN r.got = {}
    BY <1>1, <2>1, NoMap DEF Same, Unsent
  <2>3. QED
    BY <1>1, <2>1, <2>2 DEF Formed, Same
<1>9. QED
  BY <1>7, <1>8

\* A coroutine of one request, as it is sent.
LEMMA OneIsSent ==
  ASSUME NEW rec, Unsent(rec), ~rec.applied, NEW q, rec.stages = <<{q}>>, NEW r \in Send(rec)
  PROVE  Single(r) /\ Same(r, rec) /\ DOMAIN r.got = {}
<1>1. r.stages = <<>> /\ r.sent = {q}
  BY SendOne DEF Unsent
<1>2. Same(r, rec)
  BY SendSame DEF Unsent
<1>3. r.err = "none" /\ ~r.applied /\ DOMAIN r.got = {}
  BY <1>2, NoMap DEF Same, Unsent
<1>4. QED
  BY <1>1, <1>2, <1>3 DEF Single

\* The history is kept by the save of a detail that begins.
LEMMA DetailBegins ==
  ASSUME TypeInv, StackInv, Discreet, Kept, drift \/ InStep, ~holes',
         NEW i \in DOMAIN cache, SaveDetail(i)
  PROVE  Discreet' /\ Kept'
<1>1. PICK rec, q : /\ Begin(rec, op) /\ Unsent(rec) /\ ~rec.applied /\ rec.kind = "detail"
                       /\ rec.entry.undo = "patch"
                    /\ Changes(rec, {i}) /\ rec.entry.objs[i] = cache[i]
                    /\ rec.stages = <<{q}>> /\ Todo(rec) = {q} /\ q.do = "update" /\ q.ids = {i}
                    /\ DOMAIN q.objs[1] = {"ends", "path", "form"}
  BY DetailChanges
<1>2. rec.entry.ids = {i} /\ DOMAIN rec.entry.objs = {i} /\ {i} \subseteq DOMAIN cache
      /\ cache[i] \in Obj(edits)
  BY <1>1 DEF Changes, TypeInv, MapsTyped, Map
<1>3. Upserted(cache[i], rec.entry.objs[i]) = cache[i] /\ DOMAIN rec.entry.objs[i] = {"ends", "path", "form"}
      /\ rec.entry.objs[i].ends = cache[i].ends
  BY <1>1, <1>2, OverItself DEF Obj
<1>4. \A x \in Load(rec) : Grown(x, {i})
  <2>1. Ready(rec)
    BY <1>1, ChangesReady
  <2>2. QED
    BY <1>2, <2>1 DEF Ready
<1>5. Opens(rec)
  BY <1>1, <1>2, <1>3, <1>4 DEF Opens, Changing
<1>6. ASSUME NEW r \in Send(rec) PROVE Formed(r)
  <2>1. Single(r) /\ Same(r, rec) /\ DOMAIN r.got = {}
    BY <1>1, OneIsSent
  <2>2. QED
    BY <1>1, <1>2, <2>1 DEF Formed, Same
<1>7. server' = server /\ nextId' = nextId /\ stack' = stack
  BY DEF SaveDetail, undoVars
<1>8. QED
  BY <1>1, <1>5, <1>6, <1>7, ChangerBegins

\* The history is kept by a drag, of one object or many, that begins.
LEMMA DragsBegin ==
  ASSUME TypeInv, StackInv, Discreet, Kept, drift \/ InStep, ~holes',
         (\E i \in DOMAIN cache : Move(i)) \/ \E ids \in SUBSET DOMAIN cache : MoveGroup(ids)
  PROVE  Discreet' /\ Kept'
<1>1. PICK rec, new : Begin(rec, op) /\ Drawn(rec, new)
  BY MoveDraws, GroupDraws
<1>2. server' = server /\ nextId' = nextId /\ stack' = stack
  BY DEF Move, MoveGroup
<1>3. QED
  BY <1>1, <1>2, DrawnOpens, ChangerBegins

\* A create begins as a changing edit of nothing does.
LEMMA CreatesOpens ==
  ASSUME NEW rec, rec.kind \in {"place", "paste"}, Unsent(rec), ~rec.applied, Creates(rec, {}), NEW q,
         rec.stages = <<{q}>>, Todo(rec) = {q}, q.do = "create", q.objs # <<>>
  PROVE  Opens(rec) /\ \A r \in Send(rec) : Formed(r)
<1>1. rec.entry = NoEntry /\ rec.entry.ids = {} /\ rec.entry.objs = None /\ DOMAIN rec.entry.objs = {}
  BY NoMap DEF Creates, NoEntry
<1>2. Opens(rec)
  BY <1>1 DEF Opens, Changing, Creates
<1>3. ASSUME NEW r \in Send(rec) PROVE Formed(r)
  <2>1. Single(r) /\ Same(r, rec) /\ DOMAIN r.got = {}
    BY OneIsSent
  <2>2. QED
    BY <1>1, <2>1 DEF Formed, Same
<1>4. QED
  BY <1>2, <1>3

\* The history is kept by a placement or a paste that begins.
LEMMA CreationBegins ==
  ASSUME TypeInv, StackInv, Discreet, Kept, drift \/ InStep, ~holes', PlacePoint \/ Paste
  PROVE  Discreet' /\ Kept'
<1>1. PICK rec, f, q : /\ f = op \/ f = Released(op)
                       /\ Begin(rec, f) /\ Unsent(rec) /\ ~rec.applied
                       /\ Creates(rec, {}) /\ rec.kind \in {"place", "paste"}
                       /\ rec.stages = <<{q}>> /\ Todo(rec) = {q} /\ q.do = "create" /\ q.objs # <<>>
  BY PlaceCreates, PasteCreates
<1>2. server' = server /\ nextId' = nextId /\ stack' = stack
  BY DEF PlacePoint, Paste, undoVars
<1>3. Opens(rec) /\ \A r \in Send(rec) : Formed(r)
  BY <1>1, CreatesOpens
<1>4. QED
  BY <1>1, <1>2, <1>3, ChangerBegins

\* The history is kept by a split that begins.
LEMMA SplitBegins ==
  ASSUME TypeInv, StackInv, Discreet, Kept, drift \/ InStep, ~holes',
         NEW i \in DOMAIN cache, SplitLine(i)
  PROVE  Discreet' /\ Kept'
<1>1. PICK rec, c, u, d :
           /\ Begin(rec, Released(op)) /\ Unsent(rec) /\ ~rec.applied
           /\ Creates(rec, {i}) /\ rec.kind = "split" /\ rec.entry.undo = "split"
           /\ rec.entry.objs[i] = Geometry(cache[i])
           /\ rec.stages = <<{c}, {u}, {d}>> /\ Todo(rec) = {c, u, d}
           /\ c.do = "create" /\ c.objs = <<NewPoint>>
           /\ u.do = "update" /\ u.ids = {i} /\ DOMAIN u.objs[1] = {"ends", "path"}
           /\ d.do = "create" /\ \E x : d.objs = <<x>> /\ IsLine(x)
  BY SplitCreates
<1>2. rec.entry.ids = {i} /\ DOMAIN rec.entry.objs = {i} /\ cache[i] \in Obj(edits)
      /\ rec.entry.objs[i].ends = cache[i].ends /\ \A x \in Load(rec) : Grown(x, {i})
  BY <1>1 DEF Creates, TypeInv, MapsTyped, Map
<1>3. Upserted(cache[i], rec.entry.objs[i]) = cache[i] /\ DOMAIN rec.entry.objs[i] = {"ends", "path"}
  BY <1>1, <1>2, OverItself DEF Geometry
<1>4. c.objs # <<>> /\ Len(c.objs) = 1 /\ d.objs # <<>> /\ Len(d.objs) = 1 /\ ~IsLine(NewPoint)
      /\ c.objs[1] = NewPoint
  BY <1>1 DEF IsLine, NewPoint
<1>5. (\A x \in Range(c.objs) : x.ends[1] \in New) /\ \A x \in Range(d.objs) : IsLine(x)
  <2>1. Place(0) \in New
    BY DEF New
  <2>2. NewPoint.ends[1] = Place(0)
    BY DEF NewPoint
  <2>3. Range(c.objs) = {NewPoint}
    BY <1>1 DEF Range
  <2>4. \E x : Range(d.objs) = {x} /\ IsLine(x)
    BY <1>1 DEF Range
  <2>5. QED
    BY <2>1, <2>2, <2>3, <2>4
<1>6. Opens(rec)
  BY <1>1, <1>2, <1>3, <1>4, <1>5 DEF Opens, Changing
<1>7. ASSUME NEW r \in Send(rec) PROVE Formed(r)
  <2>1. Same(r, rec)
    BY <1>1, SendSame DEF Unsent
  <2>2. r.entry = rec.entry /\ r.kind = "split" /\ DOMAIN r.got = {} /\ ~r.applied /\ r.err = "none"
    BY <1>1, <2>1, NoMap DEF Same, Unsent
  <2>3. r.sent = {c} /\ r.stages = <<{u}, {d}>>
    <3>1. Head(rec.stages) = {c} /\ Tail(rec.stages) = <<{u}, {d}>>
      BY <1>1
    <3>2. ~\A q \in {c} : q.do = "update"
      BY <1>1
    <3>3. r = [rec EXCEPT !.sent = {c}, !.stages = <<{u}, {d}>>]
      BY <3>1, <3>2 DEF Send
    <3>4. DOMAIN rec = DOMAIN Free
      BY <1>1 DEF Unsent
    <3>5. QED
      BY <3>3, <3>4 DEF Free
  <2>4. Making(c) /\ ~IsLine(c.objs[1]) /\ Cutting(r, u) /\ Making(d) /\ Awaits(r, {c}, <<{u}, {d}>>)
    BY <1>1, <1>2, <1>4, <2>2, <2>3 DEF Making, Cutting, Awaits
  <2>5. Uncut(r)
    BY <2>2, <2>4 DEF Uncut
  <2>6. QED
    BY <1>1, <1>2, <2>2, <2>5 DEF Formed
<1>8. server' = server /\ nextId' = nextId /\ stack' = stack
  BY DEF SplitLine, undoVars
<1>9. QED
  BY <1>1, <1>6, <1>7, <1>8, ChangerBegins

\* The history is kept by a delete that begins.
LEMMA DeleteBegins ==
  ASSUME TypeInv, StackInv, Discreet, Kept, drift \/ InStep, ~holes',
         NEW ids \in SUBSET DOMAIN cache, DeleteSelection(ids)
  PROVE  Discreet' /\ Kept'
<1> DEFINE all == TabExpand(cache, ids)
           q == Delete(ids)
           entry == [undo |-> "restore", ids |-> all, objs |-> Only(cache, all)]
           rec == [Free EXCEPT !.kind = "delete", !.stages = <<{q}>>, !.snap = cache, !.entry = entry]
<1>1. Begin(rec, Released(op)) /\ server' = server /\ nextId' = nextId /\ stack' = stack /\ ids # {}
  BY DEF DeleteSelection, undoVars
<1>2. Fresh(rec, "delete", 0, <<{q}>>, entry, cache)
  BY DEF Fresh, Free
<1>3. q.do = "delete" /\ q.ids = ids /\ Carried(q) = {}
  BY DEF Delete, Carried
<1>4. entry.ids = all /\ entry.undo = "restore" /\ DOMAIN entry.objs = all
      /\ \A i \in all : entry.objs[i] = cache[i]
  BY DEF Only
<1> HIDE DEF q, rec, entry
<1>5. Unsent(rec) /\ Todo(rec) = {q}
  BY <1>2, OneStage, FreshUnsent
<1>6. rec.kind = "delete" /\ rec.entry = entry /\ rec.stages = <<{q}>> /\ ~rec.applied
  BY <1>2 DEF Fresh
<1>7. PICK o \in Ops, r \in Send(rec) : op[o] = Free /\ Turns(o, r) /\ edits' = edits + 1 /\ ~drift
      /\ ~InTheWay(rec.entry) /\ ~Misjudged(rec)
  BY <1>1, BeginTurns DEF TypeInv
<1>8. /\ all \subseteq DOMAIN server /\ \A i \in all : server[i] = cache[i]
      /\ Expand(server, ids) = all /\ ids \subseteq all /\ all \subseteq DOMAIN cache
  <2>1. \A i \in all : Settled(i, server, cache)
    BY <1>4, <1>6, <1>7, NobodysInStep
  <2>2. all \subseteq DOMAIN server /\ \A i \in all : server[i] = cache[i]
    BY <2>1, DeletedKnown
  <2>3. Expand(server, ids) = all
    BY <1>3, <1>4, <1>6, <1>7 DEF Misjudged
  <2>4. QED
    BY <2>2, <2>3, TabExpandTyped
<1>9. /\ Single(r) /\ r.kind = "delete" /\ r.entry = entry /\ DOMAIN r.got = {} /\ r.got = None /\ Todo(r) = {q}
      /\ ~r.applied /\ r.err = "none"
  <2>1. Single(r) /\ Same(r, rec) /\ DOMAIN r.got = {}
    BY <1>5, <1>6, OneIsSent
  <2>2. QED
    BY <1>5, <1>6, <2>1 DEF Same, Unsent
<1>10. Load(r) = {} /\ Targets(r) = ids
  BY <1>3, <1>9 DEF Load, Targets
<1> HIDE DEF all
<1>11. Deleter(r, server)
  <2>1. \A i \in entry.ids : i \in DOMAIN server /\ server[i] = entry.objs[i]
    BY <1>4, <1>8
  <2>2. entry.ids # {} /\ entry.ids = DOMAIN entry.objs
    BY <1>1, <1>4, <1>8
  <2>3. \A t \in Todo(r) : t.do = "delete" /\ t.ids \subseteq entry.ids /\ Expand(server, t.ids) = entry.ids
    BY <1>3, <1>4, <1>8, <1>9
  <2>4. QED
    BY <1>4, <1>9, <2>1, <2>2, <2>3 DEF Deleter
<1>12. Knows(r, server)
  <2>1. Targets(r) \subseteq Mine(r)
    BY <1>4, <1>8, <1>9, <1>10 DEF Mine
  <2>2. r.kind \in Kinds \ Changing
    BY <1>9 DEF Kinds, Changing
  <2>3. QED
    BY <1>4, <1>9, <1>10, <1>11, <2>1, <2>2 DEF Knows
<1>13. Records(r)
  <2>1. ASSUME NEW i \in all
        PROVE  i \in DOMAIN server /\ Upserted(server[i], entry.objs[i]) = server[i]
              /\ entry.objs[i].ends = server[i].ends
    <3>1. PICK x : x = server[i]
      OBVIOUS
    <3>2. x \in Obj(edits) /\ entry.objs[i] = x /\ i \in DOMAIN server
      BY <1>4, <1>8, <3>1 DEF TypeInv, MapsTyped, Map
    <3>3. Upserted(x, x) = x
      BY <3>2, OverItself
    <3>4. QED
      BY <3>1, <3>2, <3>3
  <2>2. QED
    BY <1>4, <1>9, <1>10, <2>1 DEF Records
<1>14. ASSUME NEW i \in DOMAIN server \ all, IsLine(server[i]),
      NEW z \in Range(server[i].ends) \cap Doors(r, server)
       PROVE  FALSE
  <2>1. PICK t \in ids : t \in DOMAIN server /\ ~IsLine(server[t]) /\ z = server[t].ends[1]
    BY <1>10, <1>14 DEF Doors
  <2>2. i \in Linked(server, t)
    BY <1>14, <2>1 DEF Linked
  <2>3. i \in Expand(server, ids)
    BY <2>2 DEF Expand
  <2>4. QED
    BY <1>8, <1>14, <2>3
<1>15. \A i \in DOMAIN server \ r.entry.ids : (\A p \in Ops : i \notin Mine(op[p])) =>
           (IsLine(server[i]) => Range(server[i].ends) \cap Doors(r, server) = {})
  BY <1>4, <1>9, <1>14
<1>16. QED
  BY <1>1, <1>6, <1>7, <1>9, <1>12, <1>13, <1>15, EditOpens

\* The history, and discretion, are kept by every edit that begins.
LEMMA EditsOpen ==
  ASSUME TypeInv, StackInv, Discreet, Kept, drift \/ InStep, ~holes', Edits
  PROVE  Discreet' /\ Kept'
<1>5. (\E i \in DOMAIN cache : Move(i) \/ SaveDetail(i) \/ SplitLine(i)) \/
      (\E ids \in SUBSET DOMAIN cache : MoveGroup(ids) \/ DeleteSelection(ids)) \/ PlacePoint \/ Paste
  BY Zenon DEF Edits
<1>6. ASSUME NEW i \in DOMAIN cache, Move(i) PROVE Discreet' /\ Kept'
  <2>1. \E j \in DOMAIN cache : Move(j)
    BY <1>6
  <2>2. QED BY <2>1, DragsBegin
<1>7. ASSUME NEW i \in DOMAIN cache, SaveDetail(i) PROVE Discreet' /\ Kept'
  BY <1>7, DetailBegins
<1>8. ASSUME NEW i \in DOMAIN cache, SplitLine(i) PROVE Discreet' /\ Kept'
  BY <1>8, SplitBegins
<1>9. ASSUME NEW ids \in SUBSET DOMAIN cache, MoveGroup(ids) PROVE Discreet' /\ Kept'
  <2>1. \E j \in SUBSET DOMAIN cache : MoveGroup(j)
    BY <1>9
  <2>2. QED BY <2>1, DragsBegin
<1>10. ASSUME NEW ids \in SUBSET DOMAIN cache, DeleteSelection(ids) PROVE Discreet' /\ Kept'
  BY <1>10, DeleteBegins
<1>11. ASSUME PlacePoint \/ Paste PROVE Discreet' /\ Kept'
  BY <1>11, CreationBegins
<1>12. QED
  BY <1>5, <1>6, <1>7, <1>8, <1>9, <1>10, <1>11

-------------------------------------------------------------------------------
(* The cache stays in step.                                                  *)

\* What a coroutine trusts the cache for stands while its objects do in both maps.
LEMMA TrustsAlike ==
  ASSUME NEW rec, NEW sv, NEW ca, NEW sv2, NEW ca2, Trusts(rec, sv, ca),
         \A i \in rec.entry.ids : Alike(i, sv, sv2) /\ Alike(i, ca, ca2)
  PROVE  Trusts(rec, sv2, ca2)
<1> DEFINE ids == rec.entry.ids
<1>1. ASSUME UpdaterHolds(rec, sv, ca) PROVE UpdaterHolds(rec, sv2, ca2)
  <2>1. ids \subseteq DOMAIN sv2 \cap DOMAIN ca2
    BY <1>1 DEF UpdaterHolds, Alike
  <2>2. \A i \in ids : sv2[i] = sv[i] /\ ca2[i] = ca[i]
    BY <1>1 DEF UpdaterHolds, Alike
  <2>3. \A q \in Todo(rec) : \E i \in ids :
          /\ q.do = "update" /\ q.ids = {i}
          /\ \A f \in DOMAIN q.objs[1] : q.objs[1][f] = ca2[i][f]
    BY <1>1, <2>2 DEF UpdaterHolds
  <2>4. rec.err # "failed" =>
          \A i \in ids : \A f \in {"ends", "path", "form"} :
            \/ ca2[i][f] = sv2[i][f]
            \/ \E q \in Todo(rec) : q.ids = {i} /\ f \in DOMAIN q.objs[1]
    <3> DEFINE Sent(i, f) == \E q \in Todo(rec) : q.ids = {i} /\ f \in DOMAIN q.objs[1]
    <3>1. rec.err # "failed" => \A i \in ids : \A f \in {"ends", "path", "form"} :
            ca[i][f] = sv[i][f] \/ Sent(i, f)
      BY <1>1 DEF UpdaterHolds
    <3> HIDE DEF Sent
    <3>2. rec.err # "failed" => \A i \in ids : \A f \in {"ends", "path", "form"} :
            ca2[i][f] = sv2[i][f] \/ Sent(i, f)
      BY <2>2, <3>1
    <3>3. QED
      BY <3>2 DEF Sent
  <2>5. /\ DOMAIN rec.got \subseteq ids
        /\ rec.kind = "move" /\ ~rec.applied /\ (rec.err = "failed" \/ Todo(rec) # {}) =>
             /\ DOMAIN rec.snap = ids
             /\ \A i \in ids : Upserted(ca2[i], rec.snap[i]) = sv2[i]
    BY <1>1, <2>2 DEF UpdaterHolds
  <2>6. QED
    BY <2>1, <2>3, <2>4, <2>5 DEF UpdaterHolds
<1>2. ids \cap DOMAIN ca = {} => ids \cap DOMAIN ca2 = {}
  BY DEF Alike
<1>3. QED
  BY <1>1, <1>2 DEF Trusts

\* One coroutine takes a step: it must know what it is answerable for, and what of it is settled.
LEMMA OneInStep ==
  ASSUME Discreet, Discreet', InStep, NEW o \in Ops, NEW r, Turns(o, r),
         \A i : i \notin Mine(op[o]) \cup Mine(r) => Alike(i, server, server') /\ Alike(i, cache, cache'),
         Trusts(r, server', cache'),
         \A i \in Mine(op[o]) \cup Mine(r) :
           \/ i \in Claim(r) \/ Settled(i, server', cache')
           \/ i \notin Claim(op[o]) /\ Alike(i, server, server') /\ Alike(i, cache, cache')
  PROVE  InStep'
<1>1. op'[o] = r /\ \A p \in Ops \ {o} : op'[p] = op[p]
  BY DEF Turns, Stays, InStep, Trusts
<1>2. \A p \in Ops \ {o} : Mine(op[p]) \cap (Mine(op[o]) \cup Mine(r)) = {}
  <2>1. \A p \in Ops \ {o} : Mine(op'[p]) \cap Mine(op'[o]) = {}
    BY DEF Discreet
  <2>2. QED
    BY <1>1, <2>1 DEF Discreet
<1>3. ASSUME NEW p \in Ops PROVE Trusts(op'[p], server', cache')
  <2>1. CASE p = o
    BY <1>1, <2>1
  <2>2. CASE p # o
    <3>1. \A i \in op[p].entry.ids : Alike(i, server, server') /\ Alike(i, cache, cache')
      BY <1>2, <2>2 DEF Mine
    <3>2. Trusts(op[p], server, cache)
      BY DEF InStep
    <3>3. Trusts(op[p], server', cache')
      BY <3>1, <3>2, TrustsAlike
    <3>4. QED
      BY <1>1, <2>2, <3>3
  <2>3. QED
    BY <2>1, <2>2
<1>4. \A rec : Claim(rec) \subseteq Mine(rec)
  BY DEF Claim
<1>5. ASSUME NEW i, ~Settled(i, server', cache'), i \in DOMAIN server' \cup DOMAIN cache'
      PROVE  \E p \in Ops : i \in Claim(op'[p])
  <2>1. CASE i \in Claim(r)
    BY <1>1, <2>1
  <2>2. CASE i \notin Claim(r)
    <3>1. Alike(i, server, server') /\ Alike(i, cache, cache') /\ i \notin Claim(op[o])
      BY <1>4, <1>5, <2>2
    <3>2. ~Settled(i, server, cache) /\ i \in DOMAIN server \cup DOMAIN cache
      BY <1>5, <3>1 DEF Settled, Alike
    <3>3. PICK p \in Ops : i \in Claim(op[p])
      BY <3>2 DEF InStep
    <3>4. p # o
      BY <3>1, <3>3
    <3>5. QED
      BY <1>1, <3>3, <3>4
  <2>3. QED
    BY <2>1, <2>2
<1>6. QED
  BY <1>3, <1>5 DEF InStep

\* A free coroutine has no objects and trusts the cache for none.
LEMMA FreeTrusts ==
  /\ Mine(Free) = {} /\ Claim(Free) = {}
  /\ \A sv, ca : Trusts(Free, sv, ca)
<1>1. Free.kind = "free" /\ Free.err = "none"
  BY DEF Free
<1>2. QED
  BY <1>1, FreeIsSafe DEF Claim, Trusts

\* A request that fails leaves the cache in step.
LEMMA RefusedInStep ==
  ASSUME Discreet, Discreet', TypeInv, InStep, NEW o \in Ops, NEW q \in op[o].sent, NEW r, r = Failed(op[o], q),
         Turns(o, r), server' = server, cache' = cache
  PROVE  InStep'
<1>1. PICK rec : rec = op[o]
  OBVIOUS
<1>2. /\ r.kind = rec.kind /\ r.entry = rec.entry /\ r.got = rec.got /\ r.err = "failed"
         /\ r.applied = rec.applied
      /\ Todo(r) \subseteq Todo(rec) /\ q \in Todo(rec) /\ r.snap = rec.snap
  BY <1>1, FailedLess DEF TypeInv, OpsTyped, OpTyped, Failed, Todo, Free
<1>3. Mine(r) = Mine(rec) /\ Claim(r) = Claim(rec)
  BY <1>2 DEF Mine, Claim
<1>4. \A i : Alike(i, server, server') /\ Alike(i, cache, cache')
  BY DEF Alike
<1>5. Trusts(rec, server, cache)
  BY <1>1 DEF InStep
<1>6. Trusts(r, server', cache')
  <2>1. CASE r.kind = "move" /\ ~r.applied
    <3>1. UpdaterHolds(rec, server, cache)
      BY <1>2, <1>5, <2>1 DEF Trusts
    <3>2. UpdaterHolds(r, server, cache)
      BY <1>2, <2>1, <3>1 DEF UpdaterHolds
    <3>3. QED
      BY <1>2, <2>1, <3>2 DEF Trusts
  <2>2. CASE ~(r.kind = "move" /\ ~r.applied)
    BY <1>2, <2>2 DEF Trusts
  <2>3. QED
    BY <2>1, <2>2
<1>7. QED
  BY <1>1, <1>3, <1>4, <1>6, OneInStep

\* What a request carried out changes is the coroutine's.
LEMMA UndoFrame ==
  ASSUME TypeInv, Discreet, ~Doomed, ~Doomed', NEW o \in Ops, op[o].kind = "undo", NEW q \in op[o].sent,
         Found(q), Apply(q), NEW r, NEW got, Answered(r, op[o], q, got), Follows(r, op[o], q), Turns(o, r),
         Unhinged(op[o], server)
  PROVE  \A i : i \notin Mine(r) => Alike(i, server, server')
<1>1. ~Hopeless(op[o]) /\ ~Hopeless(r)'
  <2>1. op'[o] = r
    BY DEF Turns
  <2>2. QED
    BY <2>1 DEF Doomed, Hopeless
<1>2. /\ op[o].kind = "undo" /\ EntryOK(op[o].entry) /\ q \in UndoReqs(op[o].entry)
         /\ op[o].entry.ids \subseteq Nat
      /\ r.entry = op[o].entry
  BY <1>1, UndoerGoesOn
<1>3. q.do \in {"update", "delete", "create"}
  BY <1>2, UndoRequest
<1>4. CASE q.do = "update"
  <2>1. PICK i : PutBack(o, i)
    BY <1>1, <1>4, UndoUpdates
  <2>2. i \in Mine(r)
    BY <1>2, <2>1 DEF PutBack, EntryOK, Mine
  <2>3. QED
    BY <2>1, <2>2 DEF PutBack, Alike
<1>5. CASE q.do = "delete"
  <2>1. PICK i : TakenOut(o, i)
    BY <1>1, <1>5, UndoDeletes
  <2>2. i \in Mine(r)
    BY <1>2, <2>1 DEF TakenOut, Mine
  <2>3. QED
    BY <2>1, <2>2 DEF TakenOut, Alike
<1>6. CASE q.do = "create"
  <2>1. PICK i : Remade(o, i, q, r)
    BY <1>1, <1>6, UndoRestores
  <2>2. nextId \in Mine(r)
    BY <2>1 DEF Remade, Mine
  <2>3. QED
    BY <2>1, <2>2 DEF Remade, MadeAgain, Alike
<1>7. QED
  BY <1>3, <1>4, <1>5, <1>6

\* A request of an edit changes the objects of that edit only.
LEMMA EditFrame ==
  ASSUME TypeInv, StackInv, Discreet, Kept, NEW o \in Ops, op[o].kind # "undo", NEW q \in op[o].sent,
         Found(q), Apply(q), NEW r, NEW got, Answered(r, op[o], q, got), Follows(r, op[o], q)
  PROVE  \A i : i \notin Mine(r) => Alike(i, server, server')
<1>1. PICK s, h : Trail(s) /\ StoryOf(op, s, h)
  BY DEF Kept
<1>2. PICK m : m = h[Len(s)]
  OBVIOUS
<1>3. Before(op[o], m, server)
  BY <1>1, <1>2, OthersOf DEF StoryOf
<1>4. Map(m, Obj(edits), nextId)
  <2>1. Len(s) \in 0..Len(s)
    BY <1>1, TrailTyped DEF Told
  <2>2. QED
    BY <1>1, <1>2, <2>1 DEF StoryOf, MapsOf
<1>5. QED
  BY <1>3, <1>4, EditAnswered

\* An answer leaves the cache as it is.
LEMMA AnsweredInStep ==
  ASSUME TypeInv, Discreet, Discreet', InStep, NEW o \in Ops, NEW q \in op[o].sent,
         Found(q), Apply(q), NEW r, NEW got, Answered(r, op[o], q, got), Turns(o, r),
         \A i : i \notin Mine(r) => Alike(i, server, server'), cache' = cache
  PROVE  InStep'
<1>1. PICK rec : rec = op[o]
  OBVIOUS
<1>2. /\ r.kind = rec.kind /\ r.entry = rec.entry /\ r.err = rec.err /\ r.applied
      /\ Mine(rec) \subseteq Mine(r) /\ Claim(r) = Mine(r)
  BY <1>1 DEF Answered, Mine, Claim, Upserted
<1>3. Trusts(rec, server, cache)
  BY <1>1 DEF InStep
<1>4. rec.kind \in {"move", "group", "detail"} /\ rec.err = "none" => UpdaterHolds(r, server', cache')
  <2>1. SUFFICES ASSUME rec.kind \in {"move", "group", "detail"}, rec.err = "none"
        PROVE UpdaterHolds(r, server', cache')
    OBVIOUS
  <2>2. UpdaterHolds(op[o], server, cache) /\ op[o].err # "failed"
    BY <1>1, <1>3, <2>1 DEF Trusts
  <2>3. UpdaterHolds(r, server', cache)
    BY <2>2, UpdaterServed
  <2>4. QED
    BY <2>3
<1>5. Trusts(r, server', cache')
  BY <1>2, <1>3, <1>4 DEF Trusts
<1>6. \A i : i \notin Mine(op[o]) \cup Mine(r) => Alike(i, server, server') /\ Alike(i, cache, cache')
  BY DEF Alike
<1>7. \A i \in Mine(op[o]) \cup Mine(r) : i \in Claim(r)
  BY <1>1, <1>2
<1>8. QED
  BY <1>5, <1>6, <1>7, OneInStep

\* A request, carried out or failed, leaves the cache in step or counts as a drift.
LEMMA RequestsInStep ==
  ASSUME TypeInv, StackInv, Discreet, Kept, drift \/ InStep, ~Doomed, ~Doomed',
         NEW o \in Ops, Serve(o) \/ RequestFails(o), ~holes', Discreet'
  PROVE  drift' \/ InStep'
<1>1. PICK q, r :
        /\ q \in op[o].sent
        /\ op' = [op EXCEPT ![o] = r]
        /\ \/ Found(q) /\ Apply(q) /\ r \in GoOn(Served(op[o], q))
           \/ r = Failed(op[o], q) /\ server' = server /\ nextId' = nextId
  BY RequestTurns
<1>2. stack' = stack /\ edits' = edits /\ Turns(o, r) /\ cache' = cache
  BY <1>1, RequestTurns, OneTurnsTo DEF Serve, RequestFails, bounds, TypeInv
<1>3. SUFFICES ASSUME InStep PROVE InStep'
  BY DEF Serve, RequestFails, history
<1>4. CASE r = Failed(op[o], q) /\ server' = server /\ nextId' = nextId
  BY <1>1, <1>2, <1>3, <1>4, RefusedInStep
<1>5. CASE Found(q) /\ Apply(q) /\ r \in GoOn(Served(op[o], q))
  <2>1. PICK got : Answered(r, op[o], q, got)
    BY <1>1, <1>5, ServedGoesOn
  <2>2. Follows(r, op[o], q)
    BY <1>1, <1>5, ServedGoesOn
  <2>3. \A i : i \notin Mine(r) => Alike(i, server, server')
    <3>1. CASE op[o].kind = "undo"
      <4>1. Unhinged(op[o], server)
        BY <1>1, <1>2, <1>5, <2>1, <2>2, <3>1, UndoKept
      <4>2. QED
        BY <1>1, <1>2, <1>5, <2>1, <2>2, <3>1, <4>1, UndoFrame
    <3>2. CASE op[o].kind # "undo"
      BY <1>1, <1>5, <2>1, <2>2, <3>2, EditFrame
    <3>3. QED
      BY <3>1, <3>2
  <2>4. QED
    BY <1>1, <1>2, <1>3, <1>5, <2>1, <2>3, AnsweredInStep
<1>6. QED
  BY <1>1, <1>4, <1>5

\* A coroutine whose objects are settled when it ends leaves the cache in step.
LEMMA OneEndsInStep ==
  ASSUME Discreet, Discreet', InStep, NEW o \in Ops, Turns(o, Free), server' = server,
         \A i : i \notin Mine(op[o]) => Alike(i, cache, cache'),
         \A i \in Mine(op[o]) : Settled(i, server, cache')
  PROVE  InStep'
<1>1. \A i : i \notin Mine(op[o]) \cup Mine(Free) => Alike(i, server, server') /\ Alike(i, cache, cache')
  BY DEF Alike
<1>2. Trusts(Free, server', cache') /\ Mine(Free) = {}
  BY FreeTrusts
<1>3. \A i \in Mine(op[o]) \cup Mine(Free) : Settled(i, server', cache')
  BY <1>2
<1>4. QED
  BY <1>1, <1>2, <1>3, OneInStep

\* The objects of a save that is done are in the backend as they are in the cache.
LEMMA SaverSettled ==
  ASSUME TypeInv, Discreet, InStep, NEW o \in Ops, Done(o, "move") \/ Done(o, "group") \/ Done(o, "detail")
  PROVE  /\ DOMAIN op[o].got \subseteq op[o].entry.ids
         /\ \A i \in Mine(op[o]) : i \in DOMAIN server \cap DOMAIN cache /\ server[i] = cache[i]
<1>1. PICK rec : rec = op[o]
  OBVIOUS
<1>2. rec.kind \in {"move", "group", "detail"} /\ rec.err = "none" /\ Todo(rec) = {}
  BY <1>1, DoneTodo
<1>3. UpdaterHolds(rec, server, cache)
  BY <1>1, <1>2 DEF InStep, Trusts
<1>4. DOMAIN rec.got \subseteq rec.entry.ids /\ rec.entry.ids \subseteq DOMAIN server \cap DOMAIN cache
  BY <1>3 DEF UpdaterHolds
<1>5. \A i \in rec.entry.ids : \A f \in {"ends", "path", "form"} : cache[i][f] = server[i][f]
  BY <1>2, <1>3 DEF UpdaterHolds
<1>6. \A i \in rec.entry.ids : cache[i] \in Obj(edits) /\ server[i] \in Obj(edits)
  BY <1>4 DEF TypeInv, MapsTyped, Map
<1>7. \A i \in rec.entry.ids : cache[i] = server[i]
  BY <1>5, <1>6, SameFields
<1>8. QED
  BY <1>1, <1>4, <1>7 DEF Mine

\* What was answered with is put over the cache.
LEMMA GotInStep ==
  ASSUME Discreet, Discreet', InStep, NEW o \in Ops, op[o].kind \in Changing, Turns(o, Free), server' = server,
         cache' = Upserted(cache, op[o].got),
         \A i \in Mine(op[o]) \ DOMAIN op[o].got : Settled(i, server, cache)
  PROVE  InStep'
<1>1. \A i \in DOMAIN op[o].got : i \in DOMAIN server /\ op[o].got[i] = server[i]
  BY DEF Discreet, Knows, Changer
<1>2. /\ \A i \in DOMAIN op[o].got : i \in DOMAIN cache' /\ cache'[i] = op[o].got[i]
      /\ \A i : i \notin DOMAIN op[o].got => Alike(i, cache, cache')
  BY DEF Upserted, Alike
<1>3. \A i \in Mine(op[o]) : Settled(i, server, cache')
  BY <1>1, <1>2 DEF Settled, Alike
<1>4. \A i : i \notin Mine(op[o]) => Alike(i, cache, cache')
  BY <1>2 DEF Mine
<1>5. QED
  BY <1>3, <1>4, OneEndsInStep

\* A save that succeeds settles its objects.
LEMMA SavedInStep ==
  ASSUME TypeInv, Discreet, Discreet', InStep, NEW o \in Ops, Turns(o, Free), server' = server, ~holes',
         MoveSaved(o) \/ GroupSaved(o) \/ DetailSaved(o)
  PROVE  InStep'
<1>1. Done(o, "move") \/ Done(o, "group") \/ Done(o, "detail")
  BY DEF MoveSaved, GroupSaved, DetailSaved
<1>2. /\ DOMAIN op[o].got \subseteq op[o].entry.ids
      /\ \A i \in Mine(op[o]) : i \in DOMAIN server \cap DOMAIN cache /\ server[i] = cache[i]
  BY <1>1, SaverSettled
<1>3. \A i \in Mine(op[o]) : Settled(i, server, cache)
  BY <1>2 DEF Settled
<1>4. op[o].kind \in Changing
  BY <1>1 DEF Done, Changing
<1>5. CASE cache' = cache
  <2>1. \A i : Alike(i, cache, cache')
    BY <1>5 DEF Alike
  <2>2. QED
    BY <1>3, <1>5, <2>1, OneEndsInStep
<1>6. CASE cache' = Upserted(cache, op[o].got)
  BY <1>3, <1>4, <1>6, GotInStep
<1>7. QED
  BY <1>5, <1>6 DEF MoveSaved, GroupSaved, DetailSaved

\* A creation that succeeds settles its objects.
LEMMA CreatedInStep ==
  ASSUME TypeInv, Discreet, Discreet', InStep, NEW o \in Ops, Turns(o, Free), server' = server,
         Placed(o) \/ SplitDone(o) \/ Pasted(o)
  PROVE  InStep'
<1>1. PICK rec : rec = op[o]
  OBVIOUS
<1>2. /\ rec.kind \in {"place", "split", "paste"} /\ rec.err = "none" /\ rec.sent = {}
      /\ cache' = Upserted(cache, rec.got)
  BY <1>1 DEF Placed, SplitDone, Pasted, Done
<1>3. Changer(rec, server) /\ Formed(rec) /\ rec.kind \in Changing
  BY <1>1, <1>2 DEF Discreet, Knows, Changing, Changer
<1>4. rec.entry.ids \subseteq DOMAIN rec.got
  <2>1. CASE rec.kind = "split"
    <3>1. InTwo(rec)
      BY <1>2, <1>3, <2>1 DEF Formed, Uncut, Pointed, Cut, Awaits
    <3>2. QED
      BY <3>1 DEF InTwo
  <2>2. CASE rec.kind # "split"
    BY <1>2, <1>3, <2>2 DEF Formed, NoEntry
  <2>3. QED
    BY <2>1, <2>2
<1>5. Mine(rec) \ DOMAIN rec.got = {}
  BY <1>4 DEF Mine
<1>6. QED
  BY <1>1, <1>2, <1>3, <1>5, GotInStep

\* A delete that succeeds settles its objects.
LEMMA DeletedInStep ==
  ASSUME TypeInv, Discreet, Discreet', InStep, NEW o \in Ops, Turns(o, Free), server' = server, Deleted(o)
  PROVE  InStep'
<1>1. PICK rec : rec = op[o]
  OBVIOUS
<1>2. rec.kind = "delete" /\ rec.err = "none" /\ rec.sent = {} /\ cache' = cache
  BY <1>1 DEF Deleted, Done
<1>3. Deleter(rec, server)
  BY <1>1, <1>2 DEF Discreet, Knows
<1>4. rec.entry.ids \cap DOMAIN server = {} /\ DOMAIN rec.got = {}
  BY <1>2, <1>3 DEF Deleter, Single
<1>5. rec.entry.ids \cap DOMAIN cache = {}
  BY <1>1, <1>2 DEF InStep, Trusts
<1>6. \A i \in Mine(rec) : Settled(i, server, cache')
  BY <1>2, <1>4, <1>5 DEF Mine, Settled
<1>7. \A i : Alike(i, cache, cache')
  BY <1>2 DEF Alike
<1>8. QED
  BY <1>1, <1>6, <1>7, OneEndsInStep

\* A drag that failed before anything of it was carried out is taken back in the cache.
LEMMA MoveFailedInStep ==
  ASSUME TypeInv, Discreet, Discreet', InStep, NEW o \in Ops, Turns(o, Free), server' = server,
         ~drift', MoveFailed(o)
  PROVE  InStep'
<1>1. PICK rec : rec = op[o]
  OBVIOUS
<1>2. rec.kind = "move" /\ rec.err = "failed" /\ ~rec.applied /\ cache' = Patched(cache, rec.snap)
  BY <1>1 DEF MoveFailed, Broken, HalfDone
<1>3. UpdaterHolds(rec, server, cache)
  BY <1>1, <1>2 DEF InStep, Trusts
<1>4. Changer(rec, server)
  BY <1>1, <1>2 DEF Discreet, Knows, Changing
<1>5. Mine(rec) = rec.entry.ids
  BY <1>2, <1>4 DEF Changer, Mine
<1>6. /\ DOMAIN rec.snap = rec.entry.ids /\ rec.entry.ids \subseteq DOMAIN server \cap DOMAIN cache
      /\ \A i \in rec.entry.ids : Upserted(cache[i], rec.snap[i]) = server[i]
  BY <1>2, <1>3 DEF UpdaterHolds
<1>7. /\ \A i \in rec.entry.ids : i \in DOMAIN cache' /\ cache'[i] = server[i]
      /\ \A i : i \notin rec.entry.ids => Alike(i, cache, cache')
  BY <1>2, <1>6 DEF Patched, Alike
<1>8. \A i \in Mine(rec) : Settled(i, server, cache')
  BY <1>5, <1>6, <1>7 DEF Settled
<1>9. QED
  BY <1>1, <1>5, <1>7, <1>8, OneEndsInStep

\* A paste or an undo that was refused has changed nothing.
LEMMA RefusedEndsInStep ==
  ASSUME TypeInv, Discreet, Discreet', InStep, NEW o \in Ops, Turns(o, Free), server' = server, ~drift',
         PasteFailed(o) \/ UndoFailed(o)
  PROVE  InStep'
<1>1. PICK rec : rec = op[o]
  OBVIOUS
<1>2. cache' = cache /\ rec.kind \in {"paste", "undo"} /\ rec.err = "failed"
      /\ (rec.kind = "undo" => ~rec.applied)
  BY <1>1 DEF PasteFailed, UndoFailed, Broken, HalfDone
<1>3. Claim(rec) = {}
  <2>1. CASE rec.kind = "undo"
    BY <1>2, <2>1 DEF Claim
  <2>2. CASE rec.kind = "paste"
    <3>1. Changer(rec, server) /\ Formed(rec)
      BY <1>1, <2>2 DEF Discreet, Knows, Changing, Changer
    <3>2. ~rec.applied /\ rec.entry = NoEntry
      BY <1>2, <2>2, <3>1 DEF Formed, Single
    <3>3. QED
      BY <2>2, <3>1, <3>2 DEF Changer, Claim, Mine, NoEntry
  <2>3. QED
    BY <1>2, <2>1, <2>2
<1>4. \A i : Alike(i, server, server') /\ Alike(i, cache, cache')
  BY <1>2 DEF Alike
<1>5. Trusts(Free, server', cache')
  BY FreeTrusts
<1>6. QED
  BY <1>1, <1>3, <1>4, <1>5, OneInStep

\* A split that fails leaves the cache in step.
LEMMA SplitFailedInStep ==
  ASSUME TypeInv, Discreet, Discreet', InStep, NEW o \in Ops, SplitFailed(o), ~holes'
  PROVE  InStep'
<1>1. PICK r : Turns(o, r) /\ r.kind = "unsplit" /\ r.entry = op[o].entry /\ r.got = op[o].got /\ r.err = "none"
  BY SplitTurns
<1>2. Mine(r) = Mine(op[o]) /\ Claim(r) = Mine(r)
  BY <1>1 DEF Mine, Claim
<1>3. \A i : Alike(i, server, server') /\ Alike(i, cache, cache')
  BY DEF SplitFailed, Alike
<1>4. Trusts(r, server', cache')
  BY <1>1 DEF Trusts
<1>5. QED
  BY <1>1, <1>2, <1>3, <1>4, OneInStep

\* Whatever a coroutine ends with leaves the cache in step or counts as a drift.
LEMMA EndsInStep ==
  ASSUME TypeInv, Discreet, Discreet', drift \/ InStep, NEW o \in Ops, EditEnds(o), ~holes'
  PROVE  drift' \/ InStep'
<1>1. server' = server /\ (Turns(o, Free) \/ SplitFailed(o) \/ UndoDone(o))
  BY EndsTurn
<1>2. SUFFICES ASSUME ~drift' PROVE InStep'
  OBVIOUS
<1>3. InStep
  BY <1>2 DEF EditEnds, MoveSaved, MoveFailed, GroupSaved, GroupFailed, DetailSaved, DetailFailed,
              Deleted, DeleteFailed, Placed, PlaceFailed, SplitDone, SplitFailed, Pasted, PasteFailed,
              UndoDone, UndoFailed, HalfDone, history
<1>4. ~UndoDone(o) /\ ~GroupFailed(o) /\ ~DetailFailed(o) /\ ~DeleteFailed(o) /\ ~PlaceFailed(o)
  BY <1>2 DEF UndoDone, GroupFailed, DetailFailed, DeleteFailed, PlaceFailed
<1>5. CASE SplitFailed(o)
  BY <1>3, <1>5, SplitFailedInStep
<1>6. CASE ~SplitFailed(o)
  <2>1. Turns(o, Free)
    BY <1>1, <1>4, <1>6
  <2>2. CASE MoveSaved(o) \/ GroupSaved(o) \/ DetailSaved(o)
    BY <1>1, <1>3, <2>1, <2>2, SavedInStep
  <2>3. CASE Placed(o) \/ SplitDone(o) \/ Pasted(o)
    BY <1>1, <1>3, <2>1, <2>3, CreatedInStep
  <2>4. CASE Deleted(o)
    BY <1>1, <1>3, <2>1, <2>4, DeletedInStep
  <2>5. CASE MoveFailed(o)
    BY <1>1, <1>2, <1>3, <2>1, <2>5, MoveFailedInStep
  <2>6. CASE PasteFailed(o) \/ UndoFailed(o)
    BY <1>1, <1>2, <1>3, <2>1, <2>6, RefusedEndsInStep
  <2>7. QED
    BY <1>4, <1>6, <2>2, <2>3, <2>4, <2>5, <2>6 DEF EditEnds
<1>7. QED
  BY <1>5, <1>6

\* What a coroutine trusts the cache for does not depend on which of its requests are sent.
LEMMA TrustsSame ==
  ASSUME NEW rec, NEW r, Same(r, rec), NEW sv, NEW ca, Trusts(rec, sv, ca)
  PROVE  Trusts(r, sv, ca)
<1>1. /\ r.kind = rec.kind /\ r.entry = rec.entry /\ r.got = rec.got /\ r.err = rec.err
      /\ r.applied = rec.applied /\ r.snap = rec.snap /\ Todo(r) = Todo(rec)
  BY DEF Same
<1>2. ASSUME UpdaterHolds(rec, sv, ca) PROVE UpdaterHolds(r, sv, ca)
  <2>1. \A q \in Todo(r) : \E i \in r.entry.ids :
          /\ q.do = "update" /\ q.ids = {i}
          /\ \A f \in DOMAIN q.objs[1] : q.objs[1][f] = ca[i][f]
    BY <1>1, <1>2 DEF UpdaterHolds
  <2>2. r.err # "failed" =>
          \A i \in r.entry.ids : \A f \in {"ends", "path", "form"} :
            \/ ca[i][f] = sv[i][f]
            \/ \E q \in Todo(r) : q.ids = {i} /\ f \in DOMAIN q.objs[1]
    <3> DEFINE Sent(t, i, f) == \E q \in t : q.ids = {i} /\ f \in DOMAIN q.objs[1]
    <3>1. rec.err # "failed" =>
            \A i \in rec.entry.ids : \A f \in {"ends", "path", "form"} : ca[i][f] = sv[i][f]
                  \/ Sent(Todo(rec), i, f)
      BY <1>2 DEF UpdaterHolds
    <3> HIDE DEF Sent
    <3>2. r.err # "failed" =>
            \A i \in r.entry.ids : \A f \in {"ends", "path", "form"} : ca[i][f] = sv[i][f]
                  \/ Sent(Todo(r), i, f)
      BY <1>1, <3>1
    <3>3. QED
      BY <3>2 DEF Sent
  <2>3. /\ r.entry.ids \subseteq DOMAIN sv \cap DOMAIN ca /\ DOMAIN r.got \subseteq r.entry.ids
        /\ r.kind = "move" /\ ~r.applied /\ (r.err = "failed" \/ Todo(r) # {}) =>
             /\ DOMAIN r.snap = r.entry.ids
             /\ \A i \in r.entry.ids : Upserted(ca[i], r.snap[i]) = sv[i]
    BY <1>1, <1>2 DEF UpdaterHolds
  <2>4. QED
    BY <2>1, <2>2, <2>3 DEF UpdaterHolds
<1>3. QED
  BY <1>1, <1>2 DEF Trusts

\* An edit begins, and knows its own objects if they are as the backend has them.
LEMMA BegunInStep ==
  ASSUME TypeInv, Discreet, Discreet', drift \/ InStep, ~holes',
         NEW rec, NEW f, f = op \/ f = Released(op), Begin(rec, f), Unsent(rec), rec.kind # "undo",
         server' = server, \A i : i \notin rec.entry.ids => Alike(i, cache, cache'),
         (\A i \in rec.entry.ids : Settled(i, server, cache)) => Trusts(rec, server, cache')
  PROVE  InStep'
<1>1. PICK o \in Ops, r \in Send(rec) : op[o] = Free /\ Turns(o, r) /\ ~drift /\ ~InTheWay(rec.entry)
  BY BeginTurns DEF TypeInv
<1>2. \A i \in rec.entry.ids : Settled(i, server, cache)
  BY <1>1, NobodysInStep
<1>3. Same(r, rec) /\ DOMAIN rec.got = {}
  BY <1>1, SendSame, NoMap DEF Unsent
<1>4. Trusts(r, server, cache')
  BY <1>2, <1>3, TrustsSame
<1>5. Mine(r) = rec.entry.ids /\ Claim(r) = Mine(r) /\ Mine(op[o]) = {}
  BY <1>1, <1>3, FreeIsSafe DEF Mine, Claim, Same
<1>6. \A i : i \notin Mine(op[o]) \cup Mine(r) => Alike(i, server, server') /\ Alike(i, cache, cache')
  BY <1>5 DEF Alike
<1>7. \A i \in Mine(op[o]) \cup Mine(r) : i \in Claim(r)
  BY <1>5
<1>8. Trusts(r, server', cache')
  BY <1>4
<1>9. QED
  BY <1>1, <1>6, <1>7, <1>8, OneInStep

\* A changing edit that begins leaves the cache in step.
LEMMA ChangesInStep ==
  ASSUME TypeInv, Discreet, Discreet', drift \/ InStep, ~holes',
         NEW rec, NEW ids, Begin(rec, op), Unsent(rec), Changes(rec, ids), server' = server
  PROVE  InStep'
<1>1. rec.entry.ids = ids /\ rec.kind \in {"move", "group", "detail"} /\ rec.err = "none"
  BY DEF Changes, Unsent
<1>2. \A i : i \notin ids => Alike(i, cache, cache')
  BY DEF Changes, Alike
<1>3. ASSUME \A i \in ids : Settled(i, server, cache)
      PROVE  Trusts(rec, server, cache')
  <2>1. Holds(rec, server, cache')
    BY <1>3, ChangesHolds
  <2>2. QED
    BY <1>1, <2>1 DEF Holds, Trusts
<1>4. QED
  BY <1>1, <1>2, <1>3, BegunInStep

\* A create that begins leaves the cache in step.
LEMMA CreatesInStep ==
  ASSUME TypeInv, Discreet, Discreet', drift \/ InStep, ~holes',
         NEW rec, NEW ids, NEW f, f = op \/ f = Released(op), Begin(rec, f), Unsent(rec), Creates(rec, ids),
         server' = server, cache' = cache
  PROVE  InStep'
<1>1. rec.kind \in {"place", "split", "paste"} /\ rec.err = "none"
  BY DEF Creates, Unsent
<1>2. Trusts(rec, server, cache')
  BY <1>1 DEF Trusts
<1>3. \A i : Alike(i, cache, cache')
  BY DEF Alike
<1>4. QED
  BY <1>1, <1>2, <1>3, BegunInStep

\* A delete that begins leaves the cache in step.
LEMMA DeleteInStep ==
  ASSUME TypeInv, Discreet, Discreet', drift \/ InStep, ~holes',
         NEW ids \in SUBSET DOMAIN cache, DeleteSelection(ids)
  PROVE  InStep'
<1> DEFINE all == TabExpand(cache, ids)
           q == Delete(ids)
           entry == [undo |-> "restore", ids |-> all, objs |-> Only(cache, all)]
           rec == [Free EXCEPT !.kind = "delete", !.stages = <<{q}>>, !.snap = cache, !.entry = entry]
<1>1. Begin(rec, Released(op)) /\ server' = server /\ cache' = Removed(cache, all)
  BY DEF DeleteSelection
<1>2. Fresh(rec, "delete", 0, <<{q}>>, entry, cache)
  BY DEF Fresh, Free
<1>3. entry.ids = all
  OBVIOUS
<1> HIDE DEF q, rec, entry
<1>4. Unsent(rec) /\ rec.kind = "delete" /\ rec.entry.ids = all /\ rec.err = "none"
  BY <1>2, <1>3, OneStage, FreshUnsent DEF Fresh, Unsent
<1> HIDE DEF all
<1>5. all \cap DOMAIN cache' = {} /\ \A i : i \notin all => Alike(i, cache, cache')
  BY <1>1 DEF Removed, Only, Alike
<1>6. Trusts(rec, server, cache')
  BY <1>4, <1>5 DEF Trusts
<1>7. QED
  BY <1>1, <1>4, <1>5, <1>6, BegunInStep

\* Every edit that begins leaves the cache in step.
LEMMA EditsInStep ==
  ASSUME TypeInv, Discreet, Discreet', drift \/ InStep, ~holes', Edits
  PROVE  InStep'
<1>1. (\E i \in DOMAIN cache : Move(i) \/ SaveDetail(i) \/ SplitLine(i)) \/
      (\E ids \in SUBSET DOMAIN cache : MoveGroup(ids) \/ DeleteSelection(ids)) \/ PlacePoint \/ Paste
  BY Zenon DEF Edits
<1>2. ASSUME NEW i \in DOMAIN cache, Move(i) PROVE InStep'
  <2>1. PICK rec, new : Begin(rec, op) /\ Drawn(rec, new)
    BY <1>2, MoveDraws
  <2>2. server' = server
    BY <1>2 DEF Move
  <2>3. QED
    BY <2>1, <2>2, ChangesInStep DEF Drawn
<1>3. ASSUME NEW ids \in SUBSET DOMAIN cache, MoveGroup(ids) PROVE InStep'
  <2>1. PICK rec, new : Begin(rec, op) /\ Drawn(rec, new)
    BY <1>3, GroupDraws
  <2>2. server' = server
    BY <1>3 DEF MoveGroup
  <2>3. QED
    BY <2>1, <2>2, ChangesInStep DEF Drawn
<1>4. ASSUME NEW i \in DOMAIN cache, SaveDetail(i) PROVE InStep'
  <2>1. PICK rec : Begin(rec, op) /\ Unsent(rec) /\ Changes(rec, {i})
    BY <1>4, DetailChanges
  <2>2. server' = server
    BY <1>4 DEF SaveDetail
  <2>3. QED
    BY <2>1, <2>2, ChangesInStep
<1>5. ASSUME NEW i \in DOMAIN cache, SplitLine(i) PROVE InStep'
  <2>1. PICK rec : Begin(rec, Released(op)) /\ Unsent(rec) /\ Creates(rec, {i})
    BY <1>5, SplitCreates
  <2>2. server' = server /\ cache' = cache
    BY <1>5 DEF SplitLine
  <2>3. QED
    BY <2>1, <2>2, CreatesInStep
<1>6. ASSUME PlacePoint \/ Paste PROVE InStep'
  <2>1. PICK rec, f : /\ f = op \/ f = Released(op)
                      /\ Begin(rec, f) /\ Unsent(rec) /\ Creates(rec, {})
    BY <1>6, PlaceCreates, PasteCreates
  <2>2. server' = server /\ cache' = cache
    BY <1>6 DEF PlacePoint, Paste
  <2>3. QED
    BY <2>1, <2>2, CreatesInStep
<1>7. ASSUME NEW ids \in SUBSET DOMAIN cache, DeleteSelection(ids) PROVE InStep'
  BY <1>7, DeleteInStep
<1>8. QED
  BY <1>1, <1>2, <1>3, <1>4, <1>5, <1>6, <1>7

\* An undo that begins is answerable for nothing yet.
LEMMA UndoInStep ==
  ASSUME TypeInv, StackInv, Discreet, Discreet', drift \/ InStep, NEW o \in Ops, Undo(o), ~holes'
  PROVE  drift' \/ InStep'
<1>1. SUFFICES ASSUME InStep PROVE InStep'
  BY DEF Undo
<1>2. PICK r : /\ op[o] = Free /\ Turns(o, r) /\ server' = server
               /\ r.kind = "undo" /\ r.err = "none"
  BY UndoTurns
<1>3. cache' = cache
  BY DEF Undo
<1>4. \A i : Alike(i, server, server') /\ Alike(i, cache, cache')
  BY <1>2, <1>3 DEF Alike
<1>5. Trusts(r, server', cache') /\ Claim(op[o]) = {}
  BY <1>2, FreeTrusts DEF Trusts
<1>6. QED
  BY <1>1, <1>2, <1>4, <1>5, OneInStep

\* A refetch that finds no edit on its way brings the backend's map.
LEMMA AnswerInStep ==
  ASSUME TypeInv, Discreet, FetchAnswer, ~drift'
  PROVE  InStep'
<1>1. /\ cache' = server /\ server' = server /\ op' = Released(op) /\ Optimistic = {}
  BY DEF FetchAnswer
<1>2. \A i : Settled(i, server', cache')
  BY <1>1 DEF Settled
<1>3. ASSUME NEW o \in Ops PROVE Trusts(op'[o], server', cache')
  <2>1. CASE op'[o] = Free
    BY <2>1, FreeTrusts
  <2>2. CASE op'[o] # Free
    <3>1. PICK rec : rec = op[o]
      OBVIOUS
    <3>2. op'[o] = rec /\ ~(rec.kind = "undo" /\ rec.err = "refetch")
      BY <1>1, <2>2, <3>1 DEF Released
    <3>3. Knows(rec, server)
      BY <3>1 DEF Discreet
    <3>4. rec.err # "refetch"
      BY <3>2, <3>3 DEF Knows
    <3>5. CASE rec.kind \in {"move", "group", "detail"}
      <4>1. Todo(rec) = {} /\ rec.err # "failed"
        BY <1>1, <3>1, <3>5, IdleTodo
      <4>2. Changer(rec, server) /\ DOMAIN rec.got \subseteq rec.entry.ids
        BY <3>3, <3>5 DEF Knows, Changing, Changer, Formed
      <4>3. UpdaterHolds(rec, server, server)
        BY <4>1, <4>2 DEF UpdaterHolds, Changer
      <4>4. QED
        BY <1>1, <3>2, <3>4, <3>5, <4>3 DEF Trusts
    <3>6. CASE rec.kind = "delete"
      <4>1. rec.stages = <<>> /\ rec.sent = {}
        BY <1>1, <3>1, <3>6 DEF Optimistic
      <4>2. rec.err = "none" => rec.entry.ids \cap DOMAIN server = {}
        BY <3>3, <3>6, <4>1 DEF Knows, Deleter, Single
      <4>3. QED
        BY <1>1, <3>2, <3>4, <3>6, <4>2 DEF Trusts
    <3>7. CASE rec.kind \notin {"move", "group", "detail", "delete"}
      BY <3>2, <3>4, <3>7 DEF Trusts
    <3>8. QED
      BY <3>5, <3>6, <3>7
  <2>3. QED
    BY <2>1, <2>2
<1>4. QED
  BY <1>2, <1>3 DEF InStep

\* A fetch leaves the cache in step or counts as a drift.
LEMMA AsideInStep ==
  ASSUME TypeInv, Discreet, drift \/ InStep, Aside, ~holes'
  PROVE  drift' \/ InStep'
<1>1. SUFFICES ASSUME ~drift' PROVE InStep'
  OBVIOUS
<1>2. CASE FetchAnswer
  BY <1>1, <1>2, AnswerInStep
<1>3. CASE ~FetchAnswer
  <2>1. cache' = cache /\ drift' = drift
    BY <1>3 DEF Aside, Refetch, FetchRead, FetchFails, ServeStray, vars, history
  <2>2. server' = server /\ \A p \in Ops : Stays(p)
    BY AsideStays
  <2>3. InStep
    BY <1>1, <2>1
  <2>4. \A p \in Ops : op'[p] = op[p]
    BY <2>2, <2>3 DEF Stays, InStep, Trusts
  <2>5. QED
    BY <2>1, <2>2, <2>3, <2>4 DEF InStep
<1>4. QED
  BY <1>2, <1>3

-------------------------------------------------------------------------------
(* The invariant, and what it is for.                                        *)

\* An edit that is missing from the stack stays missing.
LEMMA HolesStay ==
  ASSUME holes, [Next]_vars
  PROVE  holes'
<1>1. UNCHANGED vars \/ Refetch \/ FetchRead \/ FetchAnswer \/ FetchFails \/ ServeStray => holes'
  BY DEF vars, history, Refetch, FetchRead, FetchAnswer, FetchFails, ServeStray
<1>2. \A o \in Ops : Serve(o) \/ Undo(o) \/ RequestFails(o) => holes'
  BY DEF Serve, Undo, RequestFails, history
<1>3. \A o \in Ops : EditEnds(o) => holes'
  BY DEF EditEnds, MoveSaved, MoveFailed, GroupSaved, GroupFailed, DetailSaved, DetailFailed,
         Deleted, DeleteFailed, Placed, PlaceFailed, SplitDone, SplitFailed, Pasted, PasteFailed,
         UndoDone, UndoFailed, HalfDone, Push, history
<1>4. Edits => holes'
  <2>1. ASSUME NEW rec, NEW f, Begin(rec, f) PROVE holes'
    BY <2>1 DEF Begin
  <2>2. QED
    BY <2>1, EditBegins
<1>5. QED
  BY <1>1, <1>2, <1>3, <1>4, Steps DEF Aside

\* Every step preserves the invariant.
LEMMA RoundStep ==
  ASSUME TypeInv, StackInv, RoundInv, [Next]_vars
  PROVE  RoundInv'
<1>1. SUFFICES ASSUME ~holes', ~Doomed' PROVE Discreet' /\ (drift' \/ InStep') /\ Kept'
  BY DEF RoundInv
<1>2. ~Doomed /\ Discreet /\ (drift \/ InStep) /\ Kept
  BY <1>1, HolesStay, DoomedStep DEF RoundInv
<1>3. CASE \E o \in Ops : Serve(o) \/ RequestFails(o)
  BY <1>1, <1>2, <1>3, RequestsKept, RequestsInStep
<1>4. CASE \E o \in Ops : EditEnds(o)
  BY <1>1, <1>2, <1>4, EndsDiscreet, EndsKept, EndsInStep
<1>5. CASE \E o \in Ops : Undo(o)
  BY <1>1, <1>2, <1>5, UndoBegins, UndoInStep
<1>6. CASE Edits
  <2>1. Discreet' /\ Kept'
    BY <1>1, <1>2, <1>6, EditsOpen
  <2>2. InStep'
    BY <1>1, <1>2, <1>6, <2>1, EditsInStep
  <2>3. QED
    BY <2>1, <2>2
<1>7. CASE Aside
  BY <1>1, <1>2, <1>7, AsideDiscreet, KeptAside, AsideInStep
<1>8. QED
  BY <1>3, <1>4, <1>5, <1>6, <1>7, Steps

\* The invariant holds at first: the stack is empty, and the history is the map one starts with.
LEMMA RoundInit == Init => RoundInv
<1> SUFFICES ASSUME Init PROVE Discreet /\ InStep /\ Kept
  BY DEF RoundInv
<1>1. server = Start /\ cache = Start /\ stack = <<>> /\ op = [o \in Ops |-> Free]
  BY DEF Init
<1>2. \A o \in Ops : op[o] = Free
  BY <1>1
<1>3. Discreet
  BY <1>2, FreeIsSafe DEF Discreet
<1>4. InStep
  BY <1>1, <1>2, FreeTrusts DEF InStep, Settled
<1>5. Kept
  <2>1. PICK h : h = [k \in {0} |-> Start]
    OBVIOUS
  <2>2. PICK s : s = <<>>
    OBVIOUS
  <2>3. /\ Len(s) = 0 /\ 1..Len(s) = {} /\ 0..Len(s) = {0} /\ h[Len(s)] = Start /\ h[0] = Start
    BY <2>1, <2>2
  <2>4. Trail(s)
    BY <1>1, <1>2, <2>2 DEF Trail, Pending, Free
  <2>5. BaseOf(op, Start)
    BY <1>1, <1>2, FreeBefore DEF BaseOf, Alike, Free
  <2>6. Linking(s, h) /\ Vanished(s, h)
    BY <2>3 DEF Linking, Vanished
  <2>7. Elsewhere(op, s, h)
    BY <1>2, <2>3, FreeIsSafe DEF Elsewhere
  <2>8. MapsOf(s, h)
    BY <1>1, <2>3, TypeInit DEF MapsOf, TypeInv, MapsTyped
  <2>9. SameMap(h[0], Start)
    BY <2>3 DEF SameMap
  <2>10. QED
    BY <2>3, <2>4, <2>5, <2>6, <2>7, <2>8, <2>9 DEF Kept, StoryOf
<1>6. QED
  BY <1>3, <1>4, <1>5

\* Undoing everything gives back the map one started with, each object as often, in whatever
\* order edits, undos, fetches, answers and failures come, unless an edit is missing from the
\* stack (pushUndo, performUndo in mapUndo.ts).
THEOREM RoundTripHolds == Spec => []RoundTrip
<1>1. TypeInv /\ RoundInv => RoundTrip
  <2> SUFFICES ASSUME TypeInv, RoundInv, \A o \in Ops : op[o] = Free, stack = <<>>, ~holes
               PROVE  SameMap(server, Start)
    BY DEF RoundTrip, Quiet
  <2>1. ~Doomed
    BY DEF Doomed, Hopeless, Free
  <2>2. PICK s, h : Trail(s) /\ StoryOf(op, s, h)
    BY <2>1 DEF RoundInv, Kept
  <2>3. s = <<>>
    BY <2>2 DEF Trail, Pending, Free
  <2>4. Len(s) = 0 /\ 0 \in 0..Len(s)
    BY <2>3
  <2>5. BaseOf(op, h[0]) /\ Map(h[0], Obj(edits), nextId) /\ SameMap(h[0], Start)
    BY <2>2, <2>4 DEF StoryOf, MapsOf
  <2>6. \A i : Alike(i, h[0], server)
    BY <2>5, FreeIsSafe DEF BaseOf
  <2>7. DOMAIN server = DOMAIN h[0] /\ \A i \in DOMAIN server : server[i] = h[0][i]
    BY <2>6 DEF Alike
  <2>8. server \in [DOMAIN server -> Obj(edits)] /\ h[0] \in [DOMAIN h[0] -> Obj(edits)]
    BY <2>5 DEF TypeInv, MapsTyped, Map
  <2>9. server = h[0]
    BY <2>7, <2>8
  <2>10. QED
    BY <2>5, <2>9
<1>2. Init => TypeInv /\ StackInv /\ CountInv /\ RoundInv
  BY TypeInit, StackInit, CountInit, RoundInit
<1>3. TypeInv /\ StackInv /\ CountInv /\ RoundInv /\ [Next]_vars
        => TypeInv' /\ StackInv' /\ CountInv' /\ RoundInv'
  BY TypeStep, StackStep, CountStep, RoundStep
<1>4. QED
  BY <1>1, <1>2, <1>3, PTL DEF Spec

===============================================================================
