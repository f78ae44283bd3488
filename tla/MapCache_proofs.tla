---------------------------- MODULE MapCache_proofs ----------------------------
(* The cache of the map shows the backend's objects when nothing is under way, *)
(* for any number of coroutines, objects, edits and faults.                    *)
(*                                                                             *)
(* While an edit is under way the two maps differ in the objects it names or   *)
(* was answered with.  Each edit is answerable for those of its own and no     *)
(* other; the invariant says what it knows of them, and why nobody else's      *)
(* requests can touch them.                                                    *)
EXTENDS MapEdit_proofs

-------------------------------------------------------------------------------
(* What edits are answerable for.                                              *)

\* The objects that an update lays down or a create makes, and the places objects are at.
Carried(q) ==
  IF q.do = "update" THEN {q.objs[1]} ELSE IF q.do = "create" THEN Range(q.objs) ELSE {}
Load(rec) == UNION {Carried(q) : q \in Todo(rec)}
Spots(objs) == UNION {Range(x.ends) : x \in objs}

\* An edit under way is answerable for the objects it names or has been answered with.
Editing(rec) == rec.kind \notin {"free", "undo"}
Mine(rec) == rec.entry.ids \cup DOMAIN rec.got
Area(rec) == IF Editing(rec) THEN Mine(rec) ELSE {}

\* The places it brings with it, and the points it still has to delete, with their places:
\* the backend deletes every line that ends there.
Own(rec) == Spots(Load(rec)) \ Spots(Range(rec.entry.objs))
Targets(rec) == UNION {q.ids : q \in {t \in Todo(rec) : t.do = "delete"}}
Doors(rec, sv) == {sv[i].ends[1] : i \in {j \in Targets(rec) \cap DOMAIN sv : ~IsLine(sv[j])}}

\* An object of others is at no place the edit brings, and no line of those it deletes.
Harmless(x, rec, sv) ==
  /\ Range(x.ends) \cap Own(rec) = {}
  /\ IsLine(x) => Range(x.ends) \cap Doors(rec, sv) = {}

Settled(i, sv, ca) == (i \in DOMAIN sv <=> i \in DOMAIN ca) /\ (i \in DOMAIN sv => sv[i] = ca[i])

-------------------------------------------------------------------------------
(* What an edit knows of its own objects in the backend and in the cache.     *)

\* Whatever it did not bring to the backend is on the way, and a drag that has brought
\* nothing yet can be taken back.
UpdaterHolds(rec, sv, ca) ==
  /\ rec.entry.ids \subseteq DOMAIN sv \cap DOMAIN ca
  /\ \A q \in Todo(rec) : \E i \in rec.entry.ids :
       /\ q.do = "update" /\ q.ids = {i}
       /\ \A f \in DOMAIN q.objs[1] : q.objs[1][f] = ca[i][f]
  /\ rec.err # "failed" =>
       \A i \in rec.entry.ids : \A f \in {"ends", "path", "form"} :
         \/ ca[i][f] = sv[i][f]
         \/ \E q \in Todo(rec) : q.ids = {i} /\ f \in DOMAIN q.objs[1]
  /\ DOMAIN rec.got \subseteq rec.entry.ids
  /\ rec.kind = "move" /\ ~rec.applied /\ (rec.err = "failed" \/ Todo(rec) # {}) =>
       /\ DOMAIN rec.snap = rec.entry.ids
       /\ \A i \in rec.entry.ids : Upserted(ca[i], rec.snap[i]) = sv[i]

\* What left the cache will leave the backend, or has left it.
DeleterHolds(rec, sv, ca) ==
  /\ DOMAIN rec.got = {}
  /\ rec.entry.ids \cap DOMAIN ca = {}
  /\ \/ Todo(rec) = {} /\ rec.entry.ids \cap DOMAIN sv = {}
     \/ /\ \A q \in Todo(rec) : q.do = "delete" /\ q.ids = Targets(rec)
        /\ Todo(rec) # {}
        /\ rec.entry.ids \subseteq DOMAIN sv
        /\ rec.entry.ids \subseteq Expand(sv, Targets(rec))

\* What it was not answered with it did not change.
CreatorHolds(rec, sv, ca) ==
  /\ \A q \in Todo(rec) :
       q.do \in {"create", "update"} /\ (q.do = "update" => q.ids \subseteq rec.entry.ids)
  /\ \A i \in rec.entry.ids \ DOMAIN rec.got : Settled(i, sv, ca)

Holds(rec, sv, ca) ==
  /\ \A i \in DOMAIN rec.got : i \in DOMAIN sv /\ rec.got[i] = sv[i]
  /\ Targets(rec) \subseteq rec.entry.ids
  /\ rec.kind \in {"move", "group", "detail"} => UpdaterHolds(rec, sv, ca)
  /\ rec.kind = "delete" => DeleterHolds(rec, sv, ca)
  /\ rec.kind \in {"place", "split", "paste"} => CreatorHolds(rec, sv, ca)

\* The rest of the map, and the requests of others, are harmless to it.
Around(rec, sv, ca) ==
  /\ \A i \in DOMAIN sv \ Mine(rec) : Harmless(sv[i], rec, sv)
  /\ \A i \in DOMAIN ca \ Mine(rec) : Harmless(ca[i], rec, sv)

Apart(rec, other, sv) ==
  /\ Mine(rec) \cap Mine(other) = {}
  /\ \A x \in Load(other) : Harmless(x, rec, sv)

\* How coroutines go: a delete and a paste are one request each.
Kinds == {"free", "move", "group", "detail", "delete", "place", "split", "unsplit", "paste", "undo"}
Orderly(rec) ==
  /\ rec.kind \in Kinds
  /\ rec.kind = "free" => rec.sent = {}
  /\ rec.kind = "undo" => rec.err # "refetch"
  /\ rec.kind \in {"delete", "paste"} => rec.stages = <<>> /\ \A q, t \in rec.sent : q = t
  /\ rec.kind \in {"place", "paste"} => rec.entry = NoEntry
  /\ rec.kind = "split" =>
       \A l \in DOMAIN rec.entry.objs : l \in rec.entry.ids /\ IsLine(rec.entry.objs[l])
  /\ rec.kind = "paste" =>
       /\ rec.err = "failed" => rec.sent = {}
       /\ rec.sent # {} \/ rec.err = "failed" => DOMAIN rec.got = {}

\* While nothing went wrong, every object of the map is as the backend has it, or an edit
\* is answerable for it.
Agree ==
  /\ \A o \in Ops : Orderly(op[o])
  /\ \A o \in Ops : Editing(op[o]) => Holds(op[o], server, cache) /\ Around(op[o], server, cache)
  /\ \A o, p \in Ops : o # p /\ Editing(op[o]) /\ Editing(op[p]) => Apart(op[o], op[p], server)
  /\ \A i \in DOMAIN server \cup DOMAIN cache :
       Settled(i, server, cache) \/ \E o \in Ops : i \in Area(op[o])

\* An edit that will find, at its end, that the cache drifted off.
Lost(rec, s) ==
  \/ rec.kind = "unsplit"
  \/ rec.kind \in {"detail", "delete", "group", "place", "split"} /\ rec.err = "failed"
  \/ rec.kind = "move" /\ rec.err = "failed" /\ (rec.applied \/ rec.seq # s)
  \/ rec.kind = "undo" /\ rec.applied /\ rec.err # "refetch"
SomeLost == \E o \in Ops : Lost(op[o], seq)

\* The inductive invariant of the cache.
CacheInv == drift \/ SomeLost \/ Agree

-------------------------------------------------------------------------------
(* What is harmless to whom.                                                  *)

Same(r, rec) ==
  /\ r.kind = rec.kind /\ r.entry = rec.entry /\ r.got = rec.got /\ r.err = rec.err
  /\ r.applied = rec.applied /\ r.seq = rec.seq /\ r.snap = rec.snap
  /\ Todo(r) = Todo(rec)

LEMMA SendSame ==
  ASSUME NEW rec, DOMAIN rec = DOMAIN Free, NEW S, rec.stages \in Seq(S), rec.stages # <<>>,
         rec.sent = {}, NEW r \in Send(rec)
  PROVE  Same(r, rec)
<1>1. Requests(rec.stages) = Todo(r) /\ \E x, y : r = [rec EXCEPT !.sent = x, !.stages = y]
  BY SendTodo
<1>2. PICK x, y : r = [rec EXCEPT !.sent = x, !.stages = y]
  BY <1>1
<1>3. Todo(rec) = Todo(r)
  BY <1>1 DEF Todo
<1>4. QED
  BY <1>2, <1>3 DEF Same, Free

LEMMA GoOnSame ==
  ASSUME NEW n, NEW k, NEW s, NEW rec, OpTyped(rec, n, k, s), NEW r \in GoOn(rec)
  PROVE  Same(r, rec) /\ (rec.stages = <<>> => r = rec)
<1>1. CASE r = rec
  BY <1>1 DEF Same
<1>2. CASE r # rec
  <2>1. rec.sent = {} /\ rec.stages # <<>> /\ r \in Send(rec)
    BY <1>2 DEF GoOn
  <2>2. QED
    BY <2>1, SendSame DEF OpTyped
<1>3. QED
  BY <1>1, <1>2

\* One single request is sent at once.
LEMMA SendOne ==
  ASSUME NEW rec, DOMAIN rec = DOMAIN Free, NEW q, rec.stages = <<{q}>>, NEW r \in Send(rec)
  PROVE  r.stages = <<>> /\ r.sent = {q}
<1>1. Head(rec.stages) = {q} /\ Tail(rec.stages) = <<>>
  OBVIOUS
<1>2. r = [rec EXCEPT !.sent = {q}, !.stages = <<>>]
  BY <1>1 DEF Send
<1>3. QED
  BY <1>2 DEF Free

LEMMA TodoLess ==
  ASSUME NEW r, NEW rec, Todo(r) \subseteq Todo(rec)
  PROVE  Load(r) \subseteq Load(rec) /\ Targets(r) \subseteq Targets(rec)
  BY DEF Load, Targets

\* With fewer requests left, and none to delete, less can harm.
LEMMA HarmlessLess ==
  ASSUME NEW rec, NEW r, r.entry = rec.entry, Todo(r) \subseteq Todo(rec),
         NEW sv, NEW sv2, Targets(r) = {}, NEW x, Harmless(x, rec, sv)
  PROVE  Harmless(x, r, sv2)
<1>1. Own(r) \subseteq Own(rec)
  BY TodoLess DEF Own, Spots
<1>2. Doors(r, sv2) = {}
  BY DEF Doors
<1>3. QED
  BY <1>1, <1>2 DEF Harmless

\* Where an object is, is all that matters.
LEMMA HarmlessEnds ==
  ASSUME NEW x, NEW y, x.ends = y.ends, NEW rec, NEW sv, Harmless(x, rec, sv)
  PROVE  Harmless(y, rec, sv)
  BY DEF Harmless, IsLine

\* Two maps are the same at i.
Alike(i, m, m2) == (i \in DOMAIN m <=> i \in DOMAIN m2) /\ (i \in DOMAIN m => m[i] = m2[i])

LEMMA DoorsStand ==
  ASSUME NEW rec, NEW sv, NEW sv2, \A i \in Targets(rec) : Alike(i, sv, sv2)
  PROVE  Doors(rec, sv2) = Doors(rec, sv) /\ \A x : Harmless(x, rec, sv) <=> Harmless(x, rec, sv2)
<1>1. Doors(rec, sv2) = Doors(rec, sv)
  BY DEF Doors, Alike
<1>2. QED
  BY <1>1 DEF Harmless

\* An edit does not see what changes elsewhere, if it is harmless.
LEMMA Framed ==
  ASSUME NEW rec, NEW sv, NEW sv2, NEW ca, NEW ca2,
         Holds(rec, sv, ca), Around(rec, sv, ca),
         \A i \in Mine(rec) : Alike(i, sv, sv2) /\ Alike(i, ca, ca2),
         \A i \in DOMAIN sv2 \ Mine(rec) : Harmless(sv2[i], rec, sv),
         \A i \in DOMAIN ca2 \ Mine(rec) : Harmless(ca2[i], rec, sv)
  PROVE  /\ Holds(rec, sv2, ca2) /\ Around(rec, sv2, ca2)
         /\ \A x : Harmless(x, rec, sv) <=> Harmless(x, rec, sv2)
<1>1. Targets(rec) \subseteq rec.entry.ids /\ rec.entry.ids \subseteq Mine(rec)
      /\ DOMAIN rec.got \subseteq Mine(rec)
  BY DEF Holds, Mine
<1>2. \A x : Harmless(x, rec, sv) <=> Harmless(x, rec, sv2)
  BY <1>1, DoorsStand
<1>3. Around(rec, sv2, ca2)
  BY <1>2 DEF Around
<1>4. \A i \in DOMAIN rec.got : i \in DOMAIN sv2 /\ rec.got[i] = sv2[i]
  BY <1>1 DEF Holds, Alike
<1>5. ASSUME UpdaterHolds(rec, sv, ca) PROVE UpdaterHolds(rec, sv2, ca2)
  <2>1. \A i \in rec.entry.ids : i \in DOMAIN sv2 /\ i \in DOMAIN ca2 /\ sv2[i] = sv[i] /\ ca2[i] = ca[i]
    BY <1>1, <1>5 DEF UpdaterHolds, Alike
  <2>2. \A i \in rec.entry.ids : \A f : ca2[i][f] = ca[i][f] /\ sv2[i][f] = sv[i][f]
    BY <2>1
  <2>3. /\ rec.entry.ids \subseteq DOMAIN sv2 \cap DOMAIN ca2 /\ DOMAIN rec.got \subseteq rec.entry.ids
        /\ \A q \in Todo(rec) : \E i \in rec.entry.ids :
             /\ q.do = "update" /\ q.ids = {i}
             /\ \A f \in DOMAIN q.objs[1] : q.objs[1][f] = ca2[i][f]
    BY <1>5, <2>1, <2>2 DEF UpdaterHolds
  <2>4. rec.err # "failed" =>
          \A i \in rec.entry.ids : \A f \in {"ends", "path", "form"} :
            \/ ca2[i][f] = sv2[i][f]
            \/ \E q \in Todo(rec) : q.ids = {i} /\ f \in DOMAIN q.objs[1]
    <3> DEFINE Onway(i, f) == \E q \in Todo(rec) : q.ids = {i} /\ f \in DOMAIN q.objs[1]
    <3>1. rec.err # "failed" =>
            \A i \in rec.entry.ids : \A f \in {"ends", "path", "form"} :
              ca[i][f] = sv[i][f] \/ Onway(i, f)
      BY <1>5 DEF UpdaterHolds
    <3> HIDE DEF Onway
    <3>2. rec.err # "failed" =>
            \A i \in rec.entry.ids : \A f \in {"ends", "path", "form"} :
              ca2[i][f] = sv2[i][f] \/ Onway(i, f)
      BY <2>2, <3>1
    <3>3. QED
      BY <3>2 DEF Onway
  <2>5. rec.kind = "move" /\ ~rec.applied /\ (rec.err = "failed" \/ Todo(rec) # {}) =>
          /\ DOMAIN rec.snap = rec.entry.ids
          /\ \A i \in rec.entry.ids : Upserted(ca2[i], rec.snap[i]) = sv2[i]
    BY <1>5, <2>1 DEF UpdaterHolds
  <2>6. QED
    BY <2>3, <2>4, <2>5 DEF UpdaterHolds
<1>6. ASSUME DeleterHolds(rec, sv, ca) PROVE DeleterHolds(rec, sv2, ca2)
  <2>1. DOMAIN rec.got = {} /\ rec.entry.ids \cap DOMAIN ca2 = {}
    BY <1>1, <1>6 DEF DeleterHolds, Alike
  <2>2. CASE Todo(rec) = {} /\ rec.entry.ids \cap DOMAIN sv = {}
    BY <1>1, <2>1, <2>2 DEF DeleterHolds, Alike
  <2>3. CASE ~(Todo(rec) = {} /\ rec.entry.ids \cap DOMAIN sv = {})
    <3>1. /\ \A q \in Todo(rec) : q.do = "delete" /\ q.ids = Targets(rec)
          /\ Todo(rec) # {} /\ rec.entry.ids \subseteq DOMAIN sv
          /\ rec.entry.ids \subseteq Expand(sv, Targets(rec))
      BY <1>6, <2>3 DEF DeleterHolds
    <3>2. \A i \in rec.entry.ids : i \in DOMAIN sv2 /\ sv2[i] = sv[i]
      BY <1>1, <3>1 DEF Alike
    <3>3. rec.entry.ids \subseteq Expand(sv2, Targets(rec))
      BY <1>1, <3>1, <3>2 DEF Expand, Linked
    <3>4. QED
      BY <2>1, <3>1, <3>2, <3>3 DEF DeleterHolds
  <2>4. QED
    BY <2>2, <2>3
<1>7. ASSUME CreatorHolds(rec, sv, ca) PROVE CreatorHolds(rec, sv2, ca2)
  BY <1>1, <1>7 DEF CreatorHolds, Settled, Alike
<1>8. QED
  BY <1>1, <1>2, <1>3, <1>4, <1>5, <1>6, <1>7 DEF Holds

-------------------------------------------------------------------------------
(* Steps of one coroutine.                                                    *)

Becomes(o, r) == op'[o] = r /\ \A p \in Ops \ {o} : op'[p] = op[p]

\* What coroutine o, which becomes r, may change, and what it must know.
Within(o, r) ==
  /\ \A i : i \notin Area(op[o]) \cup Area(r) => Alike(i, server, server') /\ Alike(i, cache, cache')
  /\ \A i \in Area(op[o]) \ Area(r) : Settled(i, server', cache')
  /\ Editing(r) => Holds(r, server', cache') /\ Around(r, server', cache')

\* What another one, p, must be sure of.
Mindful(o, r, p) ==
  /\ Mine(op[p]) \cap Area(r) = {}
  /\ \A i \in Area(op[o]) \cup Area(r) :
       /\ i \in DOMAIN server' => Harmless(server'[i], op[p], server)
       /\ i \in DOMAIN cache' => Harmless(cache'[i], op[p], server)
  /\ Editing(r) => /\ \A x \in Load(r) : Harmless(x, op[p], server)
                   /\ \A x \in Load(op[p]) : Harmless(x, r, server')

\* What others know stands when one coroutine steps within its bounds: the frame of every
\* proof below.
LEMMA StepOfOne ==
  ASSUME Agree, NEW o \in Ops, NEW r, Becomes(o, r), Orderly(r),
         Within(o, r), \A p \in Ops \ {o} : Editing(op[p]) => Mindful(o, r, p)
  PROVE  Agree'
<1>1. op'[o] = r /\ \A p \in Ops \ {o} : op'[p] = op[p]
  BY DEF Becomes
<1>2. ASSUME NEW p \in Ops \ {o}, Editing(op[p])
      PROVE  /\ Holds(op[p], server', cache') /\ Around(op[p], server', cache')
             /\ \A x : Harmless(x, op[p], server) <=> Harmless(x, op[p], server')
  <2>1. Holds(op[p], server, cache) /\ Around(op[p], server, cache)
    BY <1>2 DEF Agree
  <2>2. Mine(op[p]) \cap (Area(op[o]) \cup Area(r)) = {}
    BY <1>2 DEF Agree, Apart, Area, Mindful
  <2>3. \A i \in Mine(op[p]) : Alike(i, server, server') /\ Alike(i, cache, cache')
    BY <2>2 DEF Within
  <2>4. \A i \in DOMAIN server' \ Mine(op[p]) : Harmless(server'[i], op[p], server)
    <3>1. SUFFICES ASSUME NEW i \in DOMAIN server' \ Mine(op[p]) PROVE Harmless(server'[i], op[p], server)
      OBVIOUS
    <3>2. CASE i \in Area(op[o]) \cup Area(r)
      BY <1>2, <3>2 DEF Mindful
    <3>3. CASE i \notin Area(op[o]) \cup Area(r)
      <4>1. i \in DOMAIN server /\ server'[i] = server[i]
        BY <3>3 DEF Within, Alike
      <4>2. QED
        BY <2>1, <4>1 DEF Around
    <3>4. QED
      BY <3>2, <3>3
  <2>5. \A i \in DOMAIN cache' \ Mine(op[p]) : Harmless(cache'[i], op[p], server)
    <3>1. SUFFICES ASSUME NEW i \in DOMAIN cache' \ Mine(op[p]) PROVE Harmless(cache'[i], op[p], server)
      OBVIOUS
    <3>2. CASE i \in Area(op[o]) \cup Area(r)
      BY <1>2, <3>2 DEF Mindful
    <3>3. CASE i \notin Area(op[o]) \cup Area(r)
      <4>1. i \in DOMAIN cache /\ cache'[i] = cache[i]
        BY <3>3 DEF Within, Alike
      <4>2. QED
        BY <2>1, <4>1 DEF Around
    <3>4. QED
      BY <3>2, <3>3
  <2>6. QED
    BY <2>1, <2>3, <2>4, <2>5, Framed
<1>3. \A p \in Ops : Orderly(op'[p])
  BY <1>1 DEF Agree
<1>4. \A p \in Ops : Editing(op'[p]) => Holds(op'[p], server', cache') /\ Around(op'[p], server', cache')
  BY <1>1, <1>2 DEF Within
<1>5. ASSUME NEW p \in Ops, NEW p2 \in Ops, p # p2, Editing(op'[p]), Editing(op'[p2])
      PROVE  Apart(op'[p], op'[p2], server')
  <2>1. CASE p = o
    <3>1. Mine(r) \cap Mine(op[p2]) = {} /\ \A x \in Load(op[p2]) : Harmless(x, r, server')
      BY <1>1, <1>5, <2>1 DEF Mindful, Area
    <3>2. QED
      BY <1>1, <1>5, <2>1, <3>1 DEF Apart
  <2>2. CASE p2 = o
    <3>1. Mine(r) \cap Mine(op[p]) = {} /\ \A x \in Load(r) : Harmless(x, op[p], server)
      BY <1>1, <1>5, <2>2 DEF Mindful, Area
    <3>2. \A x \in Load(r) : Harmless(x, op[p], server')
      BY <1>1, <1>2, <1>5, <2>2, <3>1
    <3>3. QED
      BY <1>1, <1>5, <2>2, <3>1, <3>2 DEF Apart
  <2>3. CASE p # o /\ p2 # o
    <3>1. Apart(op[p], op[p2], server)
      BY <1>1, <1>5, <2>3 DEF Agree
    <3>2. \A x : Harmless(x, op[p], server) <=> Harmless(x, op[p], server')
      BY <1>1, <1>2, <1>5, <2>3
    <3>3. QED
      BY <1>1, <2>3, <3>1, <3>2 DEF Apart
  <2>4. QED
    BY <2>1, <2>2, <2>3
<1>6. ASSUME NEW i \in DOMAIN server' \cup DOMAIN cache'
      PROVE  Settled(i, server', cache') \/ \E p \in Ops : i \in Area(op'[p])
  <2>1. CASE i \in Area(r)
    BY <1>1, <2>1
  <2>2. CASE i \in Area(op[o]) \ Area(r)
    BY <2>2 DEF Within
  <2>3. CASE i \notin Area(op[o]) \cup Area(r)
    <3>1. Alike(i, server, server') /\ Alike(i, cache, cache')
      BY <2>3 DEF Within
    <3>2. Settled(i, server, cache) \/ \E p \in Ops : i \in Area(op[p])
      BY <1>6, <3>1 DEF Agree, Alike
    <3>3. CASE Settled(i, server, cache)
      BY <3>1, <3>3 DEF Settled, Alike
    <3>4. CASE \E p \in Ops : i \in Area(op[p])
      BY <1>1, <2>3, <3>4
    <3>5. QED
      BY <3>2, <3>3, <3>4
  <2>4. QED
    BY <2>1, <2>2, <2>3
<1>7. QED
  BY <1>3, <1>4, <1>5, <1>6 DEF Agree

\* The objects of an edit are harmless to the others.
LEMMA OthersMindful ==
  ASSUME Agree, NEW o \in Ops, NEW p \in Ops \ {o}, Editing(op[p]), NEW i \in Area(op[o])
  PROVE  /\ i \notin Mine(op[p])
         /\ i \in DOMAIN server => Harmless(server[i], op[p], server)
         /\ i \in DOMAIN cache => Harmless(cache[i], op[p], server)
<1>1. i \notin Mine(op[p])
  BY DEF Agree, Apart, Area
<1>2. QED
  BY <1>1 DEF Agree, Around

\* An edit ends well when its objects are in the cache as the backend has them.
LEMMA EndAgrees ==
  ASSUME Agree, NEW o \in Ops, Becomes(o, Free), server' = server,
         \A i : i \notin Area(op[o]) => Alike(i, cache, cache'),
         \A i \in Area(op[o]) : Settled(i, server, cache')
  PROVE  Agree'
<1>1. Free.kind = "free" /\ Free.sent = {}
  BY DEF Free
<1>2. Orderly(Free) /\ ~Editing(Free) /\ Area(Free) = {}
  BY <1>1 DEF Orderly, Kinds, Editing, Area
<1>3. Within(o, Free)
  BY <1>2 DEF Within, Alike
<1>4. ASSUME NEW p \in Ops \ {o}, Editing(op[p]) PROVE Mindful(o, Free, p)
  <2>1. ASSUME NEW i \in Area(op[o]), i \in DOMAIN cache' PROVE Harmless(cache'[i], op[p], server)
    <3>1. i \in DOMAIN server /\ cache'[i] = server[i]
      BY <2>1 DEF Settled
    <3>2. QED
      BY <1>4, <3>1, OthersMindful
  <2>2. QED
    BY <1>2, <1>4, <2>1, OthersMindful DEF Mindful
<1>5. QED
  BY <1>2, <1>3, <1>4, StepOfOne

\* While the cache is right, nobody awaits a refetch.
LEMMA NobodyAwaits ==
  ASSUME Agree, DOMAIN op = Ops
  PROVE  DOMAIN Released(op) = Ops /\ \A o \in Ops : Released(op)[o] = op[o]
<1>1. \A o \in Ops : ~(op[o].kind = "undo" /\ op[o].err = "refetch")
  BY DEF Agree, Orderly
<1>2. QED
  BY <1>1 DEF Released

LEMMA OneBecomes ==
  ASSUME Agree, DOMAIN op = Ops, NEW o \in Ops, NEW r, NEW f, f = op \/ f = Released(op),
         op' = [f EXCEPT ![o] = r]
  PROVE  Becomes(o, r)
<1>1. DOMAIN f = Ops /\ \A p \in Ops : f[p] = op[p]
  BY NobodyAwaits
<1>2. QED
  BY <1>1 DEF Becomes

\* An edit that ends leaves the others as they are.
LEMMA OneEnds ==
  ASSUME Agree, OpsTyped, NEW o \in Ops, op' = Ended(o) \/ op' = Released(Ended(o))
  PROVE  Becomes(o, Free)
<1>1. op' = [op EXCEPT ![o] = Free] \/ op' = [Released(op) EXCEPT ![o] = Free]
  BY ReleasedEnded DEF Ended
<1>2. QED
  BY <1>1, OneBecomes DEF OpsTyped

\* Nothing that matters changes.
LEMMA AgreeStands ==
  ASSUME Agree, UNCHANGED <<server, cache>>, DOMAIN op = Ops, op' = op \/ op' = Released(op)
  PROVE  Agree'
<1>1. \A o \in Ops : op'[o] = op[o]
  BY NobodyAwaits
<1>2. QED
  BY <1>1 DEF Agree

-------------------------------------------------------------------------------
(* Requests that are served.                                                  *)

\* What a coroutine is after an answer that brought it got.
Answered(r, rec, q, got) ==
  /\ r.kind = rec.kind /\ r.entry = rec.entry /\ r.err = rec.err /\ r.applied = TRUE
  /\ r.seq = rec.seq /\ r.snap = rec.snap
  /\ Todo(r) \subseteq Todo(rec) /\ Todo(rec) \ {q} \subseteq Todo(r)
  /\ r.got = Upserted(rec.got, got)
  /\ rec.stages = <<>> => r.stages = <<>> /\ r.sent = rec.sent \ {q} /\ Todo(r) = rec.sent \ {q}
  /\ q.do = "update" => got = Only(Patched(server, [i \in q.ids |-> q.objs[1]]), q.ids)
  /\ q.do = "create" => got = Made(q)
  /\ q.do = "delete" => got = None

\* A request served is answered with what the backend made of its objects.
LEMMA ServedAnswered ==
  ASSUME TypeInv, NEW o \in Ops, NEW q \in op[o].sent, Found(q), Apply(q),
         NEW r \in GoOn(Served(op[o], q))
  PROVE  \E got : Answered(r, op[o], q, got)
<1> DEFINE rec == op[o]
           old == Served(rec, q)
<1>1. MapsTyped /\ OpTyped(rec, edits, nextId, seq) /\ q \in rec.sent
  BY DEF TypeInv, OpsTyped
<1>2. OpTyped(old, edits, nextId', seq) /\ RequestTyped(q, edits)
  BY <1>1, AnswerTyped DEF OpTyped, Todo
<1>3. PICK got : /\ old = [rec EXCEPT !.sent = @ \ {q}, !.applied = TRUE, !.got = Upserted(@, got)]
                 /\ q.do = "update" => got = Only(Patched(server, [i \in q.ids |-> q.objs[1]]), q.ids)
                 /\ q.do = "create" => got = Made(q)
                 /\ q.do = "delete" => got = None
  BY <1>2 DEF Served, RequestTyped
<1>4. DOMAIN rec = DOMAIN Free
  BY <1>1 DEF OpTyped
<1> HIDE DEF rec
<1>5. /\ old.kind = rec.kind /\ old.entry = rec.entry /\ old.err = rec.err /\ old.applied = TRUE
      /\ old.seq = rec.seq /\ old.snap = rec.snap /\ old.stages = rec.stages
      /\ old.sent = rec.sent \ {q} /\ old.got = Upserted(rec.got, got)
  BY <1>3, <1>4 DEF Free
<1> HIDE DEF old
<1>6. r \in GoOn(old)
  BY DEF old, rec
<1>7. Same(r, old) /\ (old.stages = <<>> => r = old)
  BY <1>2, <1>6, GoOnSame
<1>8. Todo(r) = (rec.sent \ {q}) \cup Requests(rec.stages)
  BY <1>5, <1>7 DEF Same, Todo
<1>9. Todo(r) \subseteq Todo(rec) /\ Todo(rec) \ {q} \subseteq Todo(r)
  BY <1>8 DEF Todo
<1>10. rec.stages = <<>> => r.stages = <<>> /\ r.sent = rec.sent \ {q} /\ Todo(r) = rec.sent \ {q}
  BY <1>5, <1>7, <1>8, NoStages
<1>11. Answered(r, rec, q, got)
  BY <1>3, <1>5, <1>7, <1>9, <1>10 DEF Answered, Same
<1>12. QED
  BY <1>11 DEF rec

LEMMA AnsweredOrderly ==
  ASSUME NEW rec, Orderly(rec), NEW q \in rec.sent, NEW r, NEW got, Answered(r, rec, q, got)
  PROVE  Orderly(r) /\ rec.kind # "free"
<1>1. rec.kind # "free" /\ (rec.kind = "paste" => rec.err # "failed")
  BY DEF Orderly
<1>2. rec.kind \in {"delete", "paste"} => r.stages = <<>> /\ r.sent = {}
  BY DEF Orderly, Answered
<1>3. QED
  BY <1>1, <1>2 DEF Orderly, Answered

\* Nobody owns, or has, an id that was not handed out.
LEMMA NewIds ==
  ASSUME TypeInv, NEW i, i \notin 1..(nextId - 1)
  PROVE  i \notin DOMAIN server \cup DOMAIN cache /\ \A p \in Ops : i \notin Mine(op[p])
BY DEF TypeInv, MapsTyped, OpsTyped, OpTyped, EntryTyped, Map, Mine

\* An edit has part of its requests served, and only touches its own objects and new ones.
LEMMA ServeFrame ==
  ASSUME Agree, TypeInv, NEW o \in Ops, Editing(op[o]), NEW r, Becomes(o, r), Orderly(r),
         r.kind = op[o].kind, r.entry = op[o].entry, Todo(r) \subseteq Todo(op[o]), Targets(r) = {},
         Mine(op[o]) \subseteq Mine(r), Mine(r) \cap 1..(nextId - 1) \subseteq Mine(op[o]),
         \A i \in DOMAIN server' : \/ i \in DOMAIN server /\ server'[i] = server[i]
                                   \/ /\ i \in Mine(r)
                                      /\ \E x \in Load(op[o]) : x.ends = server'[i].ends,
         DOMAIN server \ DOMAIN server' \subseteq Mine(op[o]),
         cache' = cache, Holds(r, server', cache)
  PROVE  Agree'
<1>1. Area(op[o]) = Mine(op[o]) /\ Area(r) = Mine(r) /\ Editing(r)
  BY DEF Area, Editing
<1>2. Holds(op[o], server, cache) /\ Around(op[o], server, cache)
  BY DEF Agree
<1>3. \A x : Harmless(x, op[o], server) => Harmless(x, r, server')
  BY HarmlessLess
<1>4. Around(r, server', cache')
  <2>1. \A i \in DOMAIN server' \ Mine(r) : i \in DOMAIN server \ Mine(op[o]) /\ server'[i] = server[i]
    OBVIOUS
  <2>2. \A i \in DOMAIN server' \ Mine(r) : Harmless(server'[i], r, server')
    BY <1>2, <1>3, <2>1 DEF Around
  <2>3. \A i \in DOMAIN cache' \ Mine(r) : Harmless(cache'[i], r, server')
    BY <1>2, <1>3 DEF Around
  <2>4. QED
    BY <2>2, <2>3 DEF Around
<1>5. Within(o, r)
  <2>1. \A i : i \notin Area(op[o]) \cup Area(r) => Alike(i, server, server') /\ Alike(i, cache, cache')
    BY <1>1 DEF Alike
  <2>2. QED
    BY <1>1, <1>4, <2>1 DEF Within
<1>6. ASSUME NEW p \in Ops \ {o}, Editing(op[p]) PROVE Mindful(o, r, p)
  <2>1. Apart(op[o], op[p], server) /\ Apart(op[p], op[o], server)
    BY <1>6 DEF Agree
  <2>2. ASSUME NEW i \in Mine(r) \ Mine(op[o])
        PROVE  i \notin DOMAIN server \cup DOMAIN cache /\ i \notin Mine(op[p])
    <3>1. i \notin 1..(nextId - 1)
      BY <2>2
    <3>2. QED
      BY <3>1, NewIds
  <2>3. Mine(op[p]) \cap Area(r) = {}
    BY <1>1, <2>1, <2>2 DEF Apart
  <2>4. ASSUME NEW i \in Mine(r), i \in DOMAIN server' PROVE Harmless(server'[i], op[p], server)
    <3>1. CASE i \in DOMAIN server /\ server'[i] = server[i]
      <4>1. i \in Area(op[o])
        BY <1>1, <2>2, <2>4, <3>1
      <4>2. QED
        BY <1>6, <3>1, <4>1, OthersMindful
    <3>2. CASE \E x \in Load(op[o]) : x.ends = server'[i].ends
      BY <2>1, <3>2, HarmlessEnds DEF Apart
    <3>3. QED
      BY <2>4, <3>1, <3>2
  <2>5. ASSUME NEW i \in Mine(r), i \in DOMAIN cache' PROVE Harmless(cache'[i], op[p], server)
    <3>1. i \in Area(op[o]) /\ i \in DOMAIN cache
      BY <1>1, <2>2, <2>5
    <3>2. QED
      BY <1>6, <3>1, OthersMindful
  <2>6. \A x \in Load(r) : Harmless(x, op[p], server)
    BY <2>1, TodoLess DEF Apart
  <2>7. \A x \in Load(op[p]) : Harmless(x, r, server')
    BY <1>3, <2>1 DEF Apart
  <2>8. QED
    BY <1>1, <2>3, <2>4, <2>5, <2>6, <2>7 DEF Mindful
<1>7. QED
  BY <1>5, <1>6, StepOfOne

\* What an update of rec does, which then is r.
Laid(r, rec, q) ==
  /\ DOMAIN server' = DOMAIN server /\ q.ids \subseteq DOMAIN server
  /\ \A i \in DOMAIN server \ q.ids : server'[i] = server[i]
  /\ \A i \in q.ids : server'[i] = Upserted(server[i], q.objs[1]) /\ server'[i].ends = q.objs[1].ends
  /\ DOMAIN r.got = DOMAIN rec.got \cup q.ids
  /\ \A i \in q.ids : r.got[i] = server'[i]
  /\ \A i \in DOMAIN rec.got \ q.ids : r.got[i] = rec.got[i]
  /\ q.objs[1] \in Load(rec)

\* An update served changes the fields it carries of the one object it names.
LEMMA UpdateServed ==
  ASSUME TypeInv, NEW o \in Ops, NEW q \in op[o].sent, Found(q), Apply(q), q.do = "update",
         NEW r, NEW got, Answered(r, op[o], q, got)
  PROVE  Laid(r, op[o], q)
<1>1. q \in Todo(op[o]) /\ RequestTyped(q, edits) /\ Map(server, Obj(edits), nextId)
  BY DEF TypeInv, MapsTyped, OpsTyped, OpTyped, Todo
<1>2. q.objs[1] \in Part(edits) /\ q.objs[1] \in Load(op[o])
  BY <1>1 DEF RequestTyped, Load, Carried
<1> DEFINE new == [i \in q.ids |-> q.objs[1]]
<1>3. server' = Patched(server, new) /\ nextId' = nextId /\ q.ids \subseteq DOMAIN server
      /\ DOMAIN new = q.ids /\ \A i \in q.ids : new[i] = q.objs[1]
  BY DEF Apply, Found
<1>4. r.got = Upserted(op[o].got, got) /\ got = Only(server', q.ids)
  BY <1>3 DEF Answered
<1> HIDE DEF new
<1>5. /\ DOMAIN server' = DOMAIN server
      /\ \A i \in DOMAIN server \ q.ids : server'[i] = server[i]
      /\ \A i \in q.ids : server'[i] = Upserted(server[i], q.objs[1])
  BY <1>3 DEF Patched
<1>6. \A i \in q.ids : server'[i].ends = q.objs[1].ends
  BY <1>1, <1>2, <1>3, <1>5, PartOver DEF Map
<1>7. DOMAIN got = q.ids /\ \A i \in q.ids : got[i] = server'[i]
  BY <1>4 DEF Only
<1>8. /\ DOMAIN r.got = DOMAIN op[o].got \cup q.ids
      /\ \A i \in q.ids : r.got[i] = server'[i]
      /\ \A i \in DOMAIN op[o].got \ q.ids : r.got[i] = op[o].got[i]
  BY <1>4, <1>7 DEF Upserted
<1>9. QED
  BY <1>2, <1>3, <1>5, <1>6, <1>8 DEF Laid

\* An edit of objects that are there.
LEMMA UpdaterServed ==
  ASSUME TypeInv, NEW o \in Ops, UpdaterHolds(op[o], server, cache),
         NEW q \in op[o].sent, Found(q), Apply(q), op[o].err # "failed",
         NEW r, NEW got, Answered(r, op[o], q, got)
  PROVE  /\ q.do = "update" /\ q.ids \subseteq op[o].entry.ids
         /\ UpdaterHolds(r, server', cache)
<1>1. q \in Todo(op[o])
  BY DEF Todo
<1>2. PICK i \in op[o].entry.ids : /\ q.do = "update" /\ q.ids = {i}
                                   /\ \A f \in DOMAIN q.objs[1] : q.objs[1][f] = cache[i][f]
  BY <1>1 DEF UpdaterHolds
<1>3. /\ DOMAIN server' = DOMAIN server
      /\ \A j \in DOMAIN server \ {i} : server'[j] = server[j]
      /\ server'[i] = Upserted(server[i], q.objs[1])
      /\ DOMAIN r.got = DOMAIN op[o].got \cup {i}
  <2>1. Laid(r, op[o], q)
    BY <1>2, UpdateServed
  <2>2. QED
    BY <1>2, <2>1 DEF Laid
<1>4. i \in DOMAIN server /\ server[i] \in Obj(edits)
  BY <1>2 DEF UpdaterHolds, TypeInv, MapsTyped, Map
<1> DEFINE Fields == {"ends", "path", "form"}
<1>5. \A f \in Fields : /\ f \in DOMAIN q.objs[1] => server'[i][f] = cache[i][f]
                        /\ f \notin DOMAIN q.objs[1] => server'[i][f] = server[i][f]
  <2>1. DOMAIN server[i] = Fields
    BY <1>4 DEF Obj
  <2>2. QED
    BY <1>2, <1>3, <2>1 DEF Upserted
<1>6. ASSUME NEW j \in op[o].entry.ids, NEW f \in Fields
      PROVE  \/ cache[j][f] = server'[j][f]
             \/ \E t \in Todo(r) : t.ids = {j} /\ f \in DOMAIN t.objs[1]
  <2>1. j \in DOMAIN server
    BY DEF UpdaterHolds
  <2>2. \/ cache[j][f] = server[j][f]
        \/ \E t \in Todo(op[o]) : t.ids = {j} /\ f \in DOMAIN t.objs[1]
    BY DEF UpdaterHolds
  <2>3. CASE j = i /\ f \in DOMAIN q.objs[1]
    BY <1>5, <2>3
  <2>4. CASE ~(j = i /\ f \in DOMAIN q.objs[1])
    <3>1. server'[j][f] = server[j][f]
      BY <1>3, <1>5, <2>1, <2>4
    <3>2. ASSUME NEW t \in Todo(op[o]), t.ids = {j}, f \in DOMAIN t.objs[1] PROVE t \in Todo(r)
      <4>1. t # q
        BY <1>2, <2>4, <3>2
      <4>2. QED
        BY <4>1 DEF Answered
    <3>3. QED
      BY <2>2, <3>1, <3>2
  <2>5. QED
    BY <2>3, <2>4
<1>7. /\ r.entry = op[o].entry /\ Todo(r) \subseteq Todo(op[o]) /\ r.applied = TRUE
  BY DEF Answered
<1>8. \A t \in Todo(r) : \E j \in r.entry.ids :
        /\ t.do = "update" /\ t.ids = {j}
        /\ \A f \in DOMAIN t.objs[1] : t.objs[1][f] = cache[j][f]
  BY <1>7 DEF UpdaterHolds
<1>9. r.entry.ids \subseteq DOMAIN server' \cap DOMAIN cache /\ DOMAIN r.got \subseteq r.entry.ids
  BY <1>2, <1>3, <1>7 DEF UpdaterHolds
<1>10. \A j \in r.entry.ids : \A f \in {"ends", "path", "form"} :
         \/ cache[j][f] = server'[j][f]
         \/ \E t \in Todo(r) : t.ids = {j} /\ f \in DOMAIN t.objs[1]
  BY <1>6, <1>7
<1>11. QED
  BY <1>2, <1>7, <1>8, <1>9, <1>10 DEF UpdaterHolds

\* An update of an edit of either kind leaves the map in agreement.
LEMMA UpdateAgrees ==
  ASSUME Agree, TypeInv, NEW o \in Ops, Editing(op[o]), NEW q \in op[o].sent, Found(q), Apply(q),
         q.do = "update", q.ids \subseteq op[o].entry.ids,
         NEW r, NEW got, Answered(r, op[o], q, got), Becomes(o, r), cache' = cache,
         Targets(r) = {}, r.kind # "delete",
         r.kind \in {"move", "group", "detail"} => UpdaterHolds(r, server', cache),
         r.kind \in {"place", "split", "paste"} => CreatorHolds(r, server', cache)
  PROVE  Agree'
<1>1. /\ DOMAIN server' = DOMAIN server /\ q.ids \subseteq DOMAIN server
      /\ \A i \in DOMAIN server \ q.ids : server'[i] = server[i]
      /\ \A i \in q.ids : server'[i].ends = q.objs[1].ends
      /\ DOMAIN r.got = DOMAIN op[o].got \cup q.ids
      /\ \A i \in q.ids : r.got[i] = server'[i]
      /\ \A i \in DOMAIN op[o].got \ q.ids : r.got[i] = op[o].got[i]
      /\ q.objs[1] \in Load(op[o])
  <2>1. Laid(r, op[o], q)
    BY UpdateServed
  <2>2. QED
    BY <2>1 DEF Laid
<1>2. Orderly(r) /\ r.kind = op[o].kind /\ r.entry = op[o].entry /\ Todo(r) \subseteq Todo(op[o])
  BY AnsweredOrderly DEF Answered, Agree
<1>3. \A i \in DOMAIN r.got : i \in DOMAIN server' /\ r.got[i] = server'[i]
  <2>1. \A i \in DOMAIN op[o].got : i \in DOMAIN server /\ op[o].got[i] = server[i]
    BY DEF Agree, Holds
  <2>2. QED
    BY <1>1, <2>1
<1>4. Holds(r, server', cache)
  BY <1>2, <1>3 DEF Holds
<1>5. Mine(r) = Mine(op[o])
  BY <1>1, <1>2 DEF Mine
<1>6. \A i \in DOMAIN server' : \/ i \in DOMAIN server /\ server'[i] = server[i]
                                \/ /\ i \in Mine(r)
                                   /\ \E x \in Load(op[o]) : x.ends = server'[i].ends
  BY <1>1, <1>2 DEF Mine
<1>7. QED
  BY <1>1, <1>2, <1>4, <1>5, <1>6, ServeFrame

LEMMA NoTargets ==
  ASSUME NEW rec, \A q \in Todo(rec) : q.do # "delete" PROVE Targets(rec) = {}
  BY DEF Targets

LEMMA UpdaterTargets ==
  ASSUME NEW rec, NEW sv, NEW ca, UpdaterHolds(rec, sv, ca) \/ CreatorHolds(rec, sv, ca)
  PROVE  Targets(rec) = {}
<1>1. \A q \in Todo(rec) : q.do # "delete"
  BY DEF UpdaterHolds, CreatorHolds
<1>2. QED
  BY <1>1, NoTargets

\* A save goes on with one update less: what it carried is in both maps now.
LEMMA ServeUpdater ==
  ASSUME Agree, TypeInv, NEW o \in Ops, op[o].kind \in {"move", "group", "detail"},
         NEW q \in op[o].sent, Found(q), Apply(q), op[o].err # "failed",
         NEW r, NEW got, Answered(r, op[o], q, got), Becomes(o, r), cache' = cache
  PROVE  Agree'
<1>1. Editing(op[o]) /\ r.kind = op[o].kind
  BY DEF Editing, Answered
<1>2. UpdaterHolds(op[o], server, cache)
  BY <1>1 DEF Agree, Holds
<1>3. /\ q.do = "update" /\ q.ids \subseteq op[o].entry.ids
      /\ UpdaterHolds(r, server', cache)
  BY <1>2, UpdaterServed
<1>4. Targets(r) = {}
  BY <1>3, UpdaterTargets
<1>5. r.kind # "delete" /\ r.kind \notin {"place", "split", "paste"}
  BY <1>1
<1>6. QED
  BY <1>1, <1>3, <1>4, <1>5, UpdateAgrees

LEMMA CreatorUpdates ==
  ASSUME Agree, TypeInv, NEW o \in Ops, op[o].kind \in {"place", "split", "paste"},
         NEW q \in op[o].sent, Found(q), Apply(q), q.do = "update",
         NEW r, NEW got, Answered(r, op[o], q, got), Becomes(o, r), cache' = cache
  PROVE  Agree'
<1>1. Editing(op[o]) /\ r.kind = op[o].kind /\ r.entry = op[o].entry /\ Todo(r) \subseteq Todo(op[o])
  BY DEF Editing, Answered
<1>2. CreatorHolds(op[o], server, cache) /\ q \in Todo(op[o])
  BY <1>1 DEF Agree, Holds, Todo
<1>3. q.ids \subseteq op[o].entry.ids
  BY <1>2 DEF CreatorHolds
<1>4. Laid(r, op[o], q)
  BY UpdateServed
<1>5. CreatorHolds(r, server', cache)
  <2>1. \A i \in r.entry.ids \ DOMAIN r.got :
          i \in op[o].entry.ids \ DOMAIN op[o].got /\ Alike(i, server, server')
    BY <1>1, <1>4 DEF Laid, Alike
  <2>2. \A i \in r.entry.ids \ DOMAIN r.got : Settled(i, server', cache)
    BY <1>2, <2>1 DEF CreatorHolds, Alike, Settled
  <2>3. QED
    BY <1>1, <1>2, <2>2 DEF CreatorHolds
<1>6. Targets(r) = {}
  BY <1>5, UpdaterTargets
<1>7. r.kind # "delete" /\ r.kind \notin {"move", "group", "detail"}
  BY <1>1
<1>8. QED
  BY <1>1, <1>3, <1>5, <1>6, <1>7, UpdateAgrees

\* A creation served makes objects that nobody but this edit knows of.
LEMMA CreatorCreates ==
  ASSUME Agree, TypeInv, NEW o \in Ops, op[o].kind \in {"place", "split", "paste"},
         NEW q \in op[o].sent, Apply(q), q.do = "create",
         NEW r, NEW got, Answered(r, op[o], q, got), Becomes(o, r), cache' = cache
  PROVE  Agree'
<1>1. /\ Editing(op[o]) /\ r.kind = op[o].kind /\ r.entry = op[o].entry /\ Todo(r) \subseteq Todo(op[o])
      /\ Orderly(r)
  BY AnsweredOrderly DEF Editing, Answered, Agree
<1>2. /\ CreatorHolds(op[o], server, cache) /\ q \in Todo(op[o])
      /\ \A i \in DOMAIN op[o].got : i \in DOMAIN server /\ op[o].got[i] = server[i]
  BY <1>1 DEF Agree, Holds, Todo
<1>3. /\ server' = Upserted(server, Made(q)) /\ r.got = Upserted(op[o].got, Made(q))
  BY DEF Apply, Answered
<1>4. q.objs \in Seq(Obj(edits)) /\ nextId \in Nat
  BY <1>2 DEF TypeInv, OpsTyped, OpTyped, RequestTyped, MapsTyped
<1>5. /\ DOMAIN Made(q) \cap 1..(nextId - 1) = {}
      /\ \A i \in DOMAIN Made(q) : Made(q)[i] \in Load(op[o])
  <2>1. DOMAIN q.objs = 1..Len(q.objs) /\ Len(q.objs) \in Nat
    BY <1>4
  <2>2. \A i \in nextId..(nextId + Len(q.objs) - 1) : i - nextId + 1 \in DOMAIN q.objs
    BY <1>4, <2>1
  <2>3. \A i \in DOMAIN Made(q) : Made(q)[i] \in Range(q.objs)
    BY <2>2 DEF Made, Range
  <2>4. Range(q.objs) \subseteq Load(op[o])
    BY <1>2 DEF Load, Carried
  <2>5. DOMAIN Made(q) = nextId..(nextId + Len(q.objs) - 1)
    BY DEF Made
  <2>6. QED
    BY <1>4, <2>1, <2>3, <2>4, <2>5
<1>6. /\ DOMAIN server' = DOMAIN server \cup DOMAIN Made(q)
      /\ DOMAIN r.got = DOMAIN op[o].got \cup DOMAIN Made(q)
      /\ \A i \in DOMAIN Made(q) : server'[i] = Made(q)[i] /\ r.got[i] = Made(q)[i]
      /\ \A i \in DOMAIN server \ DOMAIN Made(q) : server'[i] = server[i]
      /\ \A i \in DOMAIN op[o].got \ DOMAIN Made(q) : r.got[i] = op[o].got[i]
  BY <1>3 DEF Upserted
<1>7. CreatorHolds(r, server', cache)
  <2>1. \A i \in r.entry.ids \ DOMAIN r.got :
          i \in op[o].entry.ids \ DOMAIN op[o].got /\ Alike(i, server, server')
    BY <1>1, <1>6 DEF Alike
  <2>2. \A i \in r.entry.ids \ DOMAIN r.got : Settled(i, server', cache)
    BY <1>2, <2>1 DEF CreatorHolds, Alike, Settled
  <2>3. QED
    BY <1>1, <1>2, <2>2 DEF CreatorHolds
<1>8. Targets(r) = {}
  BY <1>7, UpdaterTargets
<1>9. Holds(r, server', cache)
  <2>1. \A i \in DOMAIN r.got : i \in DOMAIN server' /\ r.got[i] = server'[i]
    BY <1>2, <1>6
  <2>2. QED
    BY <1>1, <1>7, <1>8, <2>1 DEF Holds
<1>10. Mine(r) = Mine(op[o]) \cup DOMAIN Made(q)
  BY <1>1, <1>6 DEF Mine
<1>11. \A i \in DOMAIN server' : \/ i \in DOMAIN server /\ server'[i] = server[i]
                                 \/ /\ i \in Mine(r)
                                    /\ \E x \in Load(op[o]) : x.ends = server'[i].ends
  BY <1>5, <1>6, <1>10
<1>12. QED
  BY <1>1, <1>5, <1>6, <1>8, <1>9, <1>10, <1>11, ServeFrame

\* The backend deletes what the tab took off the map, no more and no less.
LEMMA DeleterServed ==
  ASSUME Agree, TypeInv, NEW o \in Ops, op[o].kind = "delete", NEW q \in op[o].sent, Apply(q),
         NEW r, NEW got, Answered(r, op[o], q, got), Becomes(o, r), cache' = cache
  PROVE  Agree'
<1>1. /\ Editing(op[o]) /\ r.kind = "delete" /\ r.entry = op[o].entry /\ Todo(r) \subseteq Todo(op[o])
      /\ Orderly(r) /\ Orderly(op[o])
  BY AnsweredOrderly DEF Editing, Answered, Agree
<1>2. /\ DeleterHolds(op[o], server, cache) /\ q \in Todo(op[o]) /\ Around(op[o], server, cache)
      /\ Targets(op[o]) \subseteq op[o].entry.ids
  BY <1>1 DEF Agree, Holds, Todo
<1>3. /\ q.do = "delete" /\ q.ids = Targets(op[o]) /\ op[o].entry.ids \subseteq Expand(server, Targets(op[o]))
      /\ DOMAIN op[o].got = {} /\ op[o].entry.ids \cap DOMAIN cache = {}
      /\ op[o].entry.ids \subseteq DOMAIN server
  BY <1>2 DEF DeleterHolds
<1>4. Expand(server, Targets(op[o])) = op[o].entry.ids
  <2>1. ASSUME NEW i \in Targets(op[o]), NEW l \in Linked(server, i) PROVE l \in op[o].entry.ids
    <3>1. /\ i \in DOMAIN server /\ ~IsLine(server[i]) /\ l \in DOMAIN server /\ IsLine(server[l])
          /\ server[i].ends[1] \in Range(server[l].ends)
      BY <1>2, <1>3, <2>1 DEF Linked
    <3>2. server[i].ends[1] \in Doors(op[o], server)
      BY <3>1 DEF Doors
    <3>3. ~Harmless(server[l], op[o], server)
      BY <3>1, <3>2 DEF Harmless
    <3>4. l \in Mine(op[o])
      BY <1>2, <3>1, <3>3 DEF Around
    <3>5. QED
      BY <1>3, <3>4 DEF Mine
  <2>2. QED
    BY <1>2, <1>3, <2>1 DEF Expand
<1>5. server' = Removed(server, op[o].entry.ids)
  BY <1>3, <1>4 DEF Apply
<1>6. /\ DOMAIN server' = DOMAIN server \ op[o].entry.ids
      /\ \A i \in DOMAIN server' : server'[i] = server[i]
  BY <1>5 DEF Removed, Only
<1>7. Todo(r) = {} /\ DOMAIN r.got = {}
  <2>1. op[o].stages = <<>> /\ \A t \in op[o].sent : t = q
    BY <1>1 DEF Orderly
  <2>2. Todo(r) = {}
    BY <2>1 DEF Answered
  <2>3. r.got = Upserted(op[o].got, None) /\ DOMAIN None = {}
    BY <1>3, NoMap DEF Answered
  <2>4. DOMAIN r.got = {}
    BY <1>3, <2>3 DEF Upserted
  <2>5. QED
    BY <2>2, <2>4
<1>8. Targets(r) = {}
  BY <1>7, NoTargets
<1>9. Holds(r, server', cache)
  <2>1. DeleterHolds(r, server', cache)
    BY <1>1, <1>3, <1>6, <1>7 DEF DeleterHolds
  <2>2. QED
    BY <1>1, <1>7, <1>8, <2>1 DEF Holds
<1>10. Mine(r) = Mine(op[o]) /\ op[o].entry.ids \subseteq Mine(r)
  BY <1>1, <1>3, <1>7 DEF Mine
<1>11. QED
  BY <1>1, <1>6, <1>8, <1>9, <1>10, ServeFrame

\* A coroutine that is not an edit, and does not become one.
LEMMA OnlookerStep ==
  ASSUME Agree, NEW o \in Ops, ~Editing(op[o]), NEW r, Becomes(o, r), Orderly(r), ~Editing(r),
         server' = server, cache' = cache
  PROVE  Agree'
<1>1. Area(op[o]) = {} /\ Area(r) = {}
  BY DEF Area
<1>2. Within(o, r)
  BY <1>1 DEF Within, Alike
<1>3. \A p \in Ops \ {o} : Mindful(o, r, p)
  BY <1>1 DEF Mindful
<1>4. QED
  BY <1>2, <1>3, StepOfOne

\* A request was refused: a drag can still take its patch back.
LEMMA FailureAgrees ==
  ASSUME Agree, TypeInv, NEW o \in Ops, NEW q \in op[o].sent,
         op' = [op EXCEPT ![o] = Failed(op[o], q)], ~Lost(Failed(op[o], q), seq),
         server' = server, cache' = cache
  PROVE  Agree'
<1> DEFINE rec == op[o]
           r == Failed(rec, q)
<1>1. DOMAIN rec = DOMAIN Free /\ q \in rec.sent /\ q \in Todo(rec) /\ Orderly(rec)
      /\ DOMAIN op = Ops
  BY DEF TypeInv, OpsTyped, OpTyped, Todo, Agree
<1>2. Becomes(o, r)
  BY <1>1, OneBecomes
<1>3. /\ r.kind = rec.kind /\ r.entry = rec.entry /\ r.got = rec.got /\ r.err = "failed"
      /\ r.applied = rec.applied /\ r.snap = rec.snap /\ r.stages = rec.stages
      /\ r.sent = rec.sent \ {q}
  BY <1>1 DEF Failed, Free
<1>4. ~Lost(r, seq)
  OBVIOUS
<1>5. /\ Editing(rec) => Holds(rec, server, cache)
  BY DEF Agree
<1> HIDE DEF r
<1>6. Todo(r) \subseteq Todo(rec)
  BY <1>3 DEF Todo
<1>7. rec.kind \in {"move", "paste", "undo"}
  BY <1>1, <1>3, <1>4 DEF Orderly, Kinds, Lost
<1>8. Orderly(r)
  BY <1>1, <1>3, <1>7 DEF Orderly, Kinds
<1>9. CASE rec.kind = "undo"
  <2>1. ~Editing(rec) /\ ~Editing(r)
    BY <1>3, <1>9 DEF Editing
  <2>2. QED
    BY <1>2, <1>8, <2>1, OnlookerStep
<1>10. CASE rec.kind \in {"move", "paste"}
  <2>1. Editing(rec)
    BY <1>10 DEF Editing
  <2>2. rec.kind = "move" => UpdaterHolds(rec, server, cache)
    BY <1>5, <2>1 DEF Holds
  <2>3. rec.kind = "move" => UpdaterHolds(r, server, cache)
    <3>1. SUFFICES ASSUME rec.kind = "move" PROVE UpdaterHolds(r, server, cache)
      OBVIOUS
    <3>2. ~rec.applied => /\ DOMAIN rec.snap = rec.entry.ids
                          /\ \A i \in rec.entry.ids : Upserted(cache[i], rec.snap[i]) = server[i]
      BY <1>1, <2>2, <3>1 DEF UpdaterHolds
    <3>3. \A t \in Todo(r) : \E i \in rec.entry.ids :
            /\ t.do = "update" /\ t.ids = {i}
            /\ \A f \in DOMAIN t.objs[1] : t.objs[1][f] = cache[i][f]
      BY <1>6, <2>2, <3>1 DEF UpdaterHolds
    <3>4. rec.entry.ids \subseteq DOMAIN server \cap DOMAIN cache /\ DOMAIN rec.got \subseteq rec.entry.ids
      BY <2>2, <3>1 DEF UpdaterHolds
    <3>5. QED
      BY <1>3, <3>2, <3>3, <3>4 DEF UpdaterHolds
  <2>4. rec.kind = "paste" => CreatorHolds(r, server, cache)
    <3>1. rec.kind = "paste" => CreatorHolds(rec, server, cache)
      BY <1>5, <2>1 DEF Holds
    <3>2. QED
      BY <1>3, <1>6, <3>1 DEF CreatorHolds
  <2>5. Targets(r) = {}
    BY <1>10, <2>3, <2>4, UpdaterTargets
  <2>6. Holds(r, server', cache)
    BY <1>3, <1>5, <1>10, <2>1, <2>3, <2>4, <2>5 DEF Holds
  <2>7. Mine(r) = Mine(rec)
    BY <1>3 DEF Mine
  <2>8. QED
    BY <1>2, <1>3, <1>6, <1>8, <2>1, <2>5, <2>6, <2>7, ServeFrame
<1>11. QED
  BY <1>7, <1>9, <1>10

\* A served request leaves the map in agreement, or the edit is lost.
LEMMA SuccessAgrees ==
  ASSUME Agree, TypeInv, NEW o \in Ops, NEW q \in op[o].sent, Found(q), Apply(q),
         NEW r \in GoOn(Served(op[o], q)), op' = [op EXCEPT ![o] = r], ~Lost(r, seq), cache' = cache
  PROVE  Agree'
<1>1. PICK got : Answered(r, op[o], q, got)
  BY ServedAnswered
<1>2. Orderly(op[o]) /\ op[o].kind # "free" /\ DOMAIN op = Ops
  BY <1>1, AnsweredOrderly DEF Agree, TypeInv, OpsTyped
<1>3. Becomes(o, r)
  BY <1>2, OneBecomes
<1>4. r.kind = op[o].kind /\ r.err = op[o].err /\ r.applied = TRUE
  BY <1>1 DEF Answered
<1>5. op[o].kind \in {"move", "group", "detail", "place", "split", "paste", "delete"}
      /\ (op[o].kind # "paste" => op[o].err # "failed")
  BY <1>2, <1>4 DEF Lost, Orderly, Kinds
<1>6. CASE op[o].kind \in {"move", "group", "detail"}
  BY <1>1, <1>3, <1>5, <1>6, ServeUpdater
<1>7. CASE op[o].kind \in {"place", "split", "paste"}
  <2>1. CreatorHolds(op[o], server, cache) /\ q \in Todo(op[o])
    BY <1>7 DEF Agree, Holds, Editing, Todo
  <2>2. q.do \in {"create", "update"}
    BY <2>1 DEF CreatorHolds
  <2>3. QED
    BY <1>1, <1>3, <1>7, <2>2, CreatorUpdates, CreatorCreates
<1>8. CASE op[o].kind = "delete"
  BY <1>1, <1>3, <1>8, DeleterServed
<1>9. QED
  BY <1>5, <1>6, <1>7, <1>8

\* Any request of an edit or of an undo is served.
LEMMA ServeAgrees ==
  ASSUME Agree, TypeInv, NEW o \in Ops, Serve(o)
  PROVE  SomeLost' \/ Agree'
<1>1. cache' = cache /\ seq' = seq /\ DOMAIN op = Ops
  BY DEF Serve, undoVars, TypeInv, OpsTyped
<1>2. PICK q \in op[o].sent :
        \/ /\ Found(q) /\ Apply(q)
           /\ op' \in {[op EXCEPT ![o] = r] : r \in GoOn(Served(op[o], q))}
        \/ /\ op' = [op EXCEPT ![o] = Failed(op[o], q)]
           /\ UNCHANGED <<server, nextId>>
  BY DEF Serve, Accepted
<1>3. CASE /\ Found(q) /\ Apply(q)
           /\ op' \in {[op EXCEPT ![o] = r] : r \in GoOn(Served(op[o], q))}
  <2>1. PICK r \in GoOn(Served(op[o], q)) : op' = [op EXCEPT ![o] = r]
    BY <1>3
  <2>2. CASE Lost(r, seq)
    BY <1>1, <2>1, <2>2 DEF SomeLost
  <2>3. QED
    BY <1>1, <1>3, <2>1, <2>2, SuccessAgrees
<1>4. CASE op' = [op EXCEPT ![o] = Failed(op[o], q)] /\ UNCHANGED <<server, nextId>>
  <2>1. CASE Lost(Failed(op[o], q), seq)
    BY <1>1, <1>4, <2>1 DEF SomeLost
  <2>2. QED
    BY <1>1, <1>4, <2>1, FailureAgrees
<1>5. QED
  BY <1>2, <1>3, <1>4

\* A request fails or its answer is lost.
LEMMA FailsAgrees ==
  ASSUME Agree, TypeInv, NEW o \in Ops, RequestFails(o), ~drift'
  PROVE  SomeLost' \/ Agree'
<1>1. cache' = cache /\ seq' = seq /\ DOMAIN op = Ops
  BY DEF RequestFails, undoVars, TypeInv, OpsTyped
<1>2. PICK q \in op[o].sent : op' = [op EXCEPT ![o] = Failed(op[o], q)] /\ server' = server
  BY DEF RequestFails
<1>3. CASE Lost(Failed(op[o], q), seq)
  BY <1>1, <1>2, <1>3 DEF SomeLost
<1>4. QED
  BY <1>1, <1>2, <1>3, FailureAgrees

\* A request that nobody waits for is served: it reached nothing.
LEMMA StrayAgrees ==
  ASSUME Agree, TypeInv, ServeStray, ~drift'
  PROVE  Agree'
<1>1. UNCHANGED <<server, cache>> /\ op' = op
  BY DEF ServeStray
<1>2. QED
  BY <1>1, AgreeStands DEF TypeInv, OpsTyped

-------------------------------------------------------------------------------
(* The ends of the edits.                                                     *)

LEMMA SameFields ==
  ASSUME NEW n, NEW x \in Obj(n), NEW y \in Obj(n), \A f \in {"ends", "path", "form"} : x[f] = y[f]
  PROVE  x = y
<1>1. x.ends = y.ends /\ x.path = y.path /\ x.form = y.form
  OBVIOUS
<1>2. QED
  BY <1>1 DEF Obj

\* Done, with nothing on the way: the coroutine's objects are in the backend.
LEMMA UpdaterDone ==
  ASSUME Agree, TypeInv, NEW o \in Ops, op[o].kind \in {"move", "group", "detail"},
         Todo(op[o]) = {}, op[o].err # "failed"
  PROVE  /\ Mine(op[o]) \subseteq DOMAIN server \cap DOMAIN cache
         /\ \A i \in Mine(op[o]) : cache[i] = server[i]
<1>1. UpdaterHolds(op[o], server, cache)
  BY DEF Agree, Holds, Editing
<1>2. Mine(op[o]) = op[o].entry.ids /\ op[o].entry.ids \subseteq DOMAIN server \cap DOMAIN cache
  BY <1>1 DEF Mine, UpdaterHolds
<1>3. \A i \in op[o].entry.ids : \A f \in {"ends", "path", "form"} : cache[i][f] = server[i][f]
  BY <1>1 DEF UpdaterHolds
<1>4. \A i \in op[o].entry.ids : cache[i] \in Obj(edits) /\ server[i] \in Obj(edits)
  BY <1>2 DEF TypeInv, MapsTyped, Map
<1>5. QED
  BY <1>2, <1>3, <1>4, SameFields

LEMMA DoneTodo ==
  ASSUME NEW o \in Ops, NEW kind, Done(o, kind)
  PROVE  Todo(op[o]) = {} /\ op[o].kind = kind /\ op[o].err = "none"
  BY NoStages DEF Done, Todo

\* The cache keeps, or is given, what the backend answered with.
LEMMA GotAgrees ==
  ASSUME Agree, TypeInv, NEW o \in Ops, Editing(op[o]), Becomes(o, Free), server' = server,
         cache' = Upserted(cache, op[o].got),
         \A i \in op[o].entry.ids \ DOMAIN op[o].got : Settled(i, server, cache)
  PROVE  Agree'
<1>1. Area(op[o]) = op[o].entry.ids \cup DOMAIN op[o].got
  BY DEF Area, Mine
<1>2. \A i \in DOMAIN op[o].got : i \in DOMAIN server /\ op[o].got[i] = server[i]
  BY DEF Agree, Holds
<1>3. \A i \in DOMAIN op[o].got : i \in DOMAIN cache' /\ cache'[i] = server[i]
  BY <1>2 DEF Upserted
<1>4. \A i : i \notin DOMAIN op[o].got => Alike(i, cache, cache')
  BY DEF Upserted, Alike
<1>5. \A i \in Area(op[o]) : Settled(i, server, cache')
  BY <1>1, <1>2, <1>3, <1>4 DEF Settled, Alike
<1>6. QED
  BY <1>1, <1>4, <1>5, EndAgrees

\* A save ends: everything it brought is in the backend and its answers agree with the cache.
LEMMA SavedAgrees ==
  ASSUME Agree, TypeInv, NEW o \in Ops,
         MoveSaved(o) \/ GroupSaved(o) \/ DetailSaved(o)
  PROVE  Agree'
<1>1. /\ Done(o, "move") \/ Done(o, "group") \/ Done(o, "detail")
      /\ op' = Ended(o) /\ server' = server
  BY DEF MoveSaved, GroupSaved, DetailSaved
<1>2. op[o].kind \in {"move", "group", "detail"} /\ Todo(op[o]) = {} /\ op[o].err # "failed"
  BY <1>1, DoneTodo
<1>3. /\ Mine(op[o]) \subseteq DOMAIN server \cap DOMAIN cache
      /\ \A i \in Mine(op[o]) : cache[i] = server[i]
  BY <1>2, UpdaterDone
<1>4. Becomes(o, Free) /\ Editing(op[o]) /\ Area(op[o]) = Mine(op[o])
  BY <1>1, <1>2, OneEnds DEF TypeInv, Editing, Area
<1>5. CASE cache' = cache
  <2>1. \A i : Alike(i, cache, cache')
    BY <1>5 DEF Alike
  <2>2. \A i \in Area(op[o]) : Settled(i, server, cache')
    BY <1>3, <1>4, <1>5 DEF Settled
  <2>3. QED
    BY <1>1, <1>4, <2>1, <2>2, EndAgrees
<1>6. CASE cache' = Upserted(cache, op[o].got)
  <2>1. \A i \in op[o].entry.ids \ DOMAIN op[o].got : Settled(i, server, cache)
    BY <1>3 DEF Settled, Mine
  <2>2. QED
    BY <1>1, <1>4, <1>6, <2>1, GotAgrees
<1>7. QED
  BY <1>5, <1>6 DEF MoveSaved, GroupSaved, DetailSaved

\* A failed drag takes its patch back.
LEMMA MoveFailedAgrees ==
  ASSUME Agree, TypeInv, NEW o \in Ops, MoveFailed(o), ~drift'
  PROVE  Agree'
<1>1. /\ op[o].kind = "move" /\ op[o].err = "failed" /\ op' = Ended(o) /\ server' = server
      /\ cache' = Patched(cache, op[o].snap) /\ ~op[o].applied
  BY DEF MoveFailed, Broken, HalfDone
<1>2. UpdaterHolds(op[o], server, cache)
  BY <1>1 DEF Agree, Holds, Editing
<1>3. /\ DOMAIN op[o].snap = op[o].entry.ids /\ op[o].entry.ids \subseteq DOMAIN server \cap DOMAIN cache
      /\ \A i \in op[o].entry.ids : Upserted(cache[i], op[o].snap[i]) = server[i]
      /\ DOMAIN op[o].got \subseteq op[o].entry.ids
  BY <1>1, <1>2 DEF UpdaterHolds
<1>4. Becomes(o, Free) /\ Area(op[o]) = op[o].entry.ids
  BY <1>1, <1>3, OneEnds DEF TypeInv, Editing, Area, Mine
<1>5. \A i : i \notin Area(op[o]) => Alike(i, cache, cache')
  BY <1>1, <1>3, <1>4 DEF Patched, Alike
<1>6. \A i \in Area(op[o]) : Settled(i, server, cache')
  BY <1>1, <1>3, <1>4 DEF Patched, Settled
<1>7. QED
  BY <1>1, <1>4, <1>5, <1>6, EndAgrees

\* A delete ends: what left the cache has left the backend.
LEMMA DeletedAgrees ==
  ASSUME Agree, TypeInv, NEW o \in Ops, Deleted(o)
  PROVE  Agree'
<1>1. Done(o, "delete") /\ op' = Released(Ended(o)) /\ server' = server /\ cache' = cache
  BY DEF Deleted
<1>2. op[o].kind = "delete" /\ Todo(op[o]) = {}
  BY <1>1, DoneTodo
<1>3. DeleterHolds(op[o], server, cache)
  BY <1>2 DEF Agree, Holds, Editing
<1>4. Becomes(o, Free) /\ Area(op[o]) = op[o].entry.ids
  BY <1>1, <1>2, <1>3, OneEnds DEF TypeInv, Editing, Area, Mine, DeleterHolds
<1>5. \A i \in Area(op[o]) : Settled(i, server, cache')
  BY <1>1, <1>2, <1>3, <1>4 DEF DeleterHolds, Settled
<1>6. \A i : Alike(i, cache, cache')
  BY <1>1 DEF Alike
<1>7. QED
  BY <1>1, <1>4, <1>5, <1>6, EndAgrees

\* A creation ends: its answers become the objects of the cache.
LEMMA CreatedAgrees ==
  ASSUME Agree, TypeInv, NEW o \in Ops, Placed(o) \/ SplitDone(o) \/ Pasted(o)
  PROVE  Agree'
<1>1. /\ Done(o, "place") \/ Done(o, "split") \/ Done(o, "paste")
      /\ op' = Ended(o) \/ op' = Released(Ended(o))
      /\ server' = server /\ cache' = Upserted(cache, op[o].got)
  BY DEF Placed, SplitDone, Pasted
<1>2. op[o].kind \in {"place", "split", "paste"}
  BY <1>1, DoneTodo
<1>3. Becomes(o, Free) /\ Editing(op[o])
  BY <1>1, <1>2, OneEnds DEF TypeInv, Editing
<1>4. CreatorHolds(op[o], server, cache)
  BY <1>2, <1>3 DEF Agree, Holds
<1>5. QED
  BY <1>1, <1>3, <1>4, GotAgrees DEF CreatorHolds

\* A paste is one transaction: when it fails there is nothing to take back.
LEMMA PasteFailedAgrees ==
  ASSUME Agree, TypeInv, NEW o \in Ops, PasteFailed(o)
  PROVE  Agree'
<1>1. op[o].kind = "paste" /\ op[o].err = "failed" /\ op' = Ended(o) /\ server' = server /\ cache' = cache
  BY DEF PasteFailed, Broken
<1>2. Becomes(o, Free) /\ Area(op[o]) = {}
  <2>1. Becomes(o, Free)
    BY <1>1, OneEnds DEF TypeInv
  <2>2. Orderly(op[o])
    BY DEF Agree
  <2>3. op[o].entry = NoEntry /\ DOMAIN op[o].got = {}
    BY <1>1, <2>2 DEF Orderly
  <2>4. QED
    BY <2>1, <2>3 DEF Area, Mine, NoEntry
<1>3. \A i : Alike(i, cache, cache')
  BY <1>1 DEF Alike
<1>4. QED
  BY <1>1, <1>2, <1>3, EndAgrees

\* An undo that fails leaves both maps as they are, and is answerable for none of their objects.
LEMMA UndoFailedAgrees ==
  ASSUME Agree, TypeInv, NEW o \in Ops, UndoFailed(o)
  PROVE  Agree'
<1>1. op[o].kind = "undo" /\ op' = Ended(o) /\ server' = server /\ cache' = cache
  BY DEF UndoFailed, Broken
<1>2. Becomes(o, Free) /\ Area(op[o]) = {}
  BY <1>1, OneEnds DEF TypeInv, Area, Editing
<1>3. \A i : Alike(i, cache, cache')
  BY <1>1 DEF Alike
<1>4. QED
  BY <1>1, <1>2, <1>3, EndAgrees

\* Any edit ends.
LEMMA EndsAgree ==
  ASSUME Agree, TypeInv, NEW o \in Ops, EditEnds(o), ~drift'
  PROVE  SomeLost' \/ Agree'
<1>1. ~(GroupFailed(o) \/ DetailFailed(o) \/ DeleteFailed(o) \/ PlaceFailed(o) \/ UndoDone(o))
  BY DEF GroupFailed, DetailFailed, DeleteFailed, PlaceFailed, UndoDone
<1>2. CASE SplitFailed(o)
  <2>1. "kind" \in DOMAIN op[o] /\ DOMAIN op = Ops
    BY DEF TypeInv, OpsTyped, OpTyped, Free
  <2>2. op' = [op EXCEPT ![o].kind = "unsplit", ![o].err = "none", ![o].stages = <<>>,
                         ![o].sent = {Delete(DOMAIN op[o].got \ op[o].entry.ids)}]
    BY <1>2 DEF SplitFailed
  <2>3. op'[o].kind = "unsplit"
    BY <2>1, <2>2
  <2>4. QED
    BY <2>3 DEF SomeLost, Lost
<1>3. QED
  BY <1>1, <1>2, SavedAgrees, MoveFailedAgrees, DeletedAgrees, CreatedAgrees, PasteFailedAgrees,
     UndoFailedAgrees DEF EditEnds

-------------------------------------------------------------------------------
(* Edits begin.                                                               *)

\* Places of the edit that begins; and objects that are only where the edit's own objects
\* were, lines where lines were, or at such places.
New == {Place(j) : j \in Nat}
Grown(x, ids) ==
  \A e \in Range(x.ends) :
    \/ e \in New
    \/ \E j \in ids \cap DOMAIN cache : e \in Range(cache[j].ends) /\ (IsLine(x) => IsLine(cache[j]))

LEMMA ObjEnds ==
  ASSUME NEW n, NEW x \in Part(n)
  PROVE  Range(x.ends) \subseteq Places(n)
<1>1. x.ends \in Seq(Places(n))
  BY DEF Part, Obj, Shape
<1>2. QED
  BY <1>1 DEF Range

\* No object and no request is at a place that the next edit brings.
LEMMA OldPlaces ==
  ASSUME TypeInv
  PROVE  /\ New \cap Places(edits) = {}
         /\ \A i \in DOMAIN server : Range(server[i].ends) \subseteq Places(edits)
         /\ \A i \in DOMAIN cache : Range(cache[i].ends) \subseteq Places(edits)
         /\ \A p \in Ops : \A x \in Load(op[p]) : Range(x.ends) \subseteq Places(edits)
         /\ \A p \in Ops : Own(op[p]) \subseteq Places(edits) /\ Doors(op[p], server) \subseteq Places(edits)
<1>1. edits \in Nat /\ Map(server, Obj(edits), nextId) /\ Map(cache, Obj(edits), nextId)
  BY DEF TypeInv, MapsTyped
<1>2. New \cap Places(edits) = {}
  BY <1>1 DEF New, Place, Places
<1>3. /\ \A i \in DOMAIN server : server[i] \in Part(edits)
      /\ \A i \in DOMAIN cache : cache[i] \in Part(edits)
  BY <1>1 DEF Map, Part
<1>4. /\ \A i \in DOMAIN server : Range(server[i].ends) \subseteq Places(edits)
      /\ \A i \in DOMAIN cache : Range(cache[i].ends) \subseteq Places(edits)
  BY <1>3, ObjEnds
<1>5. ASSUME NEW p \in Ops, NEW x \in Load(op[p]) PROVE Range(x.ends) \subseteq Places(edits)
  <2>1. PICK q \in Todo(op[p]) : x \in Carried(q)
    BY <1>5 DEF Load
  <2>2. RequestTyped(q, edits)
    BY <2>1 DEF TypeInv, OpsTyped, OpTyped
  <2>3. x \in Part(edits)
    <3>1. CASE q.do = "update"
      BY <2>1, <2>2, <3>1 DEF RequestTyped, Carried
    <3>2. CASE q.do = "create"
      <4>1. q.objs \in Seq(Obj(edits)) /\ x \in Range(q.objs)
        BY <2>1, <2>2, <3>2 DEF RequestTyped, Carried
      <4>2. Range(q.objs) \subseteq Obj(edits)
        BY <4>1 DEF Range
      <4>3. QED
        BY <4>1, <4>2 DEF Part
    <3>3. QED
      BY <2>1, <3>1, <3>2 DEF Carried
  <2>4. QED
    BY <2>3, ObjEnds
<1>6. ASSUME NEW p \in Ops PROVE Own(op[p]) \subseteq Places(edits)
  BY <1>5 DEF Own, Spots
<1>7. ASSUME NEW p \in Ops PROVE Doors(op[p], server) \subseteq Places(edits)
  <2>1. \A i \in DOMAIN server : server[i].ends[1] \in Range(server[i].ends)
    <3>1. SUFFICES ASSUME NEW i \in DOMAIN server PROVE server[i].ends[1] \in Range(server[i].ends)
      OBVIOUS
    <3>2. server[i].ends \in Seq(Places(edits)) /\ Len(server[i].ends) \in {1, 2}
      BY <1>1 DEF Map, Obj
    <3>3. 1 \in DOMAIN server[i].ends
      BY <3>2
    <3>4. QED
      BY <3>3 DEF Range
  <2>2. QED
    BY <1>4, <2>1 DEF Doors
<1>8. QED
  BY <1>2, <1>4, <1>5, <1>6, <1>7

\* An object that an edit lays down, at old places of its own or at new ones, harms no other.
LEMMA GrownHarmless ==
  ASSUME Agree, TypeInv, NEW p \in Ops, Editing(op[p]), NEW ids, ids \cap Mine(op[p]) = {},
         NEW x, Grown(x, ids)
  PROVE  Harmless(x, op[p], server)
<1>1. /\ Own(op[p]) \cap New = {} /\ Doors(op[p], server) \cap New = {}
  BY OldPlaces
<1>2. \A j \in ids \cap DOMAIN cache : Harmless(cache[j], op[p], server)
  BY DEF Agree, Around
<1>3. QED
  BY <1>1, <1>2 DEF Grown, Harmless

LEMMA SameHolds ==
  ASSUME NEW rec, NEW r, Same(r, rec)
  PROVE  /\ Mine(r) = Mine(rec) /\ Load(r) = Load(rec) /\ Own(r) = Own(rec) /\ Targets(r) = Targets(rec)
         /\ \A sv : Doors(r, sv) = Doors(rec, sv)
         /\ \A sv, ca : Holds(rec, sv, ca) => Holds(r, sv, ca)
<1>1. Mine(r) = Mine(rec) /\ Load(r) = Load(rec) /\ Targets(r) = Targets(rec)
  BY DEF Same, Mine, Load, Targets
<1>2. Own(r) = Own(rec) /\ \A sv : Doors(r, sv) = Doors(rec, sv)
  BY <1>1 DEF Same, Own, Doors
<1>3. ASSUME NEW sv, NEW ca
      PROVE  /\ UpdaterHolds(rec, sv, ca) => UpdaterHolds(r, sv, ca)
             /\ DeleterHolds(rec, sv, ca) => DeleterHolds(r, sv, ca)
             /\ CreatorHolds(rec, sv, ca) => CreatorHolds(r, sv, ca)
  <2>1. ASSUME UpdaterHolds(rec, sv, ca) PROVE UpdaterHolds(r, sv, ca)
    <3>1. /\ r.kind = rec.kind /\ r.entry = rec.entry /\ r.got = rec.got /\ r.err = rec.err
          /\ r.applied = rec.applied /\ r.snap = rec.snap /\ Todo(r) = Todo(rec)
      BY DEF Same
    <3>2. /\ r.entry.ids \subseteq DOMAIN sv \cap DOMAIN ca
          /\ \A q \in Todo(r) : \E i \in r.entry.ids :
               /\ q.do = "update" /\ q.ids = {i}
               /\ \A f \in DOMAIN q.objs[1] : q.objs[1][f] = ca[i][f]
      BY <2>1, <3>1 DEF UpdaterHolds
    <3>3. r.err # "failed" =>
            \A i \in r.entry.ids : \A f \in {"ends", "path", "form"} :
              \/ ca[i][f] = sv[i][f]
              \/ \E q \in Todo(r) : q.ids = {i} /\ f \in DOMAIN q.objs[1]
      BY <2>1, <3>1 DEF UpdaterHolds
    <3>4. /\ DOMAIN r.got \subseteq r.entry.ids
          /\ r.kind = "move" /\ ~r.applied /\ (r.err = "failed" \/ Todo(r) # {}) =>
               /\ DOMAIN r.snap = r.entry.ids
               /\ \A i \in r.entry.ids : Upserted(ca[i], r.snap[i]) = sv[i]
      BY <2>1, <3>1 DEF UpdaterHolds
    <3>5. QED
      BY <3>2, <3>3, <3>4 DEF UpdaterHolds
  <2>2. DeleterHolds(rec, sv, ca) => DeleterHolds(r, sv, ca)
    BY <1>1 DEF Same, DeleterHolds
  <2>3. CreatorHolds(rec, sv, ca) => CreatorHolds(r, sv, ca)
    BY DEF Same, CreatorHolds
  <2>4. QED
    BY <2>1, <2>2, <2>3
<1>4. ASSUME NEW sv, NEW ca, Holds(rec, sv, ca) PROVE Holds(r, sv, ca)
  BY <1>1, <1>3, <1>4 DEF Same, Holds
<1>5. QED
  BY <1>1, <1>2, <1>4

\* What an edit has to see to before it begins.
Ready(rec) ==
  /\ DOMAIN rec = DOMAIN Free /\ (\E S : rec.stages \in Seq(S)) /\ rec.stages # <<>>
  /\ rec.sent = {} /\ rec.got = None /\ rec.err = "none"
  /\ rec.kind \in Kinds /\ Editing(rec)
  /\ rec.kind \in {"delete", "paste"} => \E q : rec.stages = <<{q}>>
  /\ rec.kind \in {"place", "paste"} => rec.entry = NoEntry
  /\ rec.kind = "split" =>
       \A l \in DOMAIN rec.entry.objs : l \in rec.entry.ids /\ IsLine(rec.entry.objs[l])
  /\ \A i : i \notin rec.entry.ids => Alike(i, cache, cache')
  /\ \A i \in rec.entry.ids \cap DOMAIN cache' : Grown(cache'[i], rec.entry.ids)
  /\ \A x \in Load(rec) : Grown(x, rec.entry.ids)
  /\ Own(rec) \subseteq New

\* The lines of others that an edit may not have to delete.
Spared(rec, x) == IsLine(x) => Range(x.ends) \cap Doors(rec, server) = {}

\* An edit begins: it must know its own objects, and no line of others hangs on what it deletes.
LEMMA BeginAgrees ==
  ASSUME Agree, TypeInv, NEW rec, NEW f, f = op \/ f = Released(op), Begin(rec, f), ~drift',
         server' = server, Ready(rec),
         ~InTheWay(rec.entry) => Holds(rec, server, cache'),
         ~InTheWay(rec.entry) =>
           /\ \A i \in DOMAIN server \ rec.entry.ids : Spared(rec, server[i])
           /\ \A i \in DOMAIN cache \ rec.entry.ids : Spared(rec, cache[i])
           /\ \A p \in Ops : Editing(op[p]) => \A x \in Load(op[p]) : Spared(rec, x)
  PROVE  Agree'
<1>1. PICK o \in Ops : op[o] = Free /\ op' \in {[f EXCEPT ![o] = r] : r \in Send(rec)}
  BY DEF Begin
<1>2. PICK r \in Send(rec) : op' = [f EXCEPT ![o] = r]
  BY <1>1
<1>3. ~InTheWay(rec.entry)
  BY DEF Begin
<1>4. Becomes(o, r)
  BY <1>2, OneBecomes DEF TypeInv, OpsTyped
<1>5. Same(r, rec)
  BY SendSame DEF Ready
<1>6. DOMAIN rec.got = {}
  BY NoMap DEF Ready
<1>7. /\ Mine(r) = rec.entry.ids /\ Load(r) = Load(rec) /\ Own(r) = Own(rec)
      /\ Doors(r, server) = Doors(rec, server) /\ Holds(r, server', cache')
      /\ Editing(r) /\ Area(r) = rec.entry.ids /\ r.kind = rec.kind
  BY <1>3, <1>5, <1>6, SameHolds DEF Mine, Area, Editing, Ready, Same
<1>8. Orderly(r)
  <2>1. rec.kind \in {"delete", "paste"} => r.stages = <<>> /\ \E q : r.sent = {q}
    <3>1. SUFFICES ASSUME rec.kind \in {"delete", "paste"} PROVE r.stages = <<>> /\ \E q : r.sent = {q}
      OBVIOUS
    <3>2. PICK q : rec.stages = <<{q}>> /\ DOMAIN rec = DOMAIN Free
      BY <3>1 DEF Ready
    <3>3. r.stages = <<>> /\ r.sent = {q}
      BY <3>2, SendOne
    <3>4. QED
      BY <3>3
  <2>2. r.kind \in Kinds \ {"free", "undo"} /\ r.err = "none" /\ r.entry = rec.entry /\ DOMAIN r.got = {}
    BY <1>5, <1>6 DEF Ready, Same, Editing
  <2>3. QED
    BY <1>7, <2>1, <2>2 DEF Orderly, Ready
<1>9. Area(op[o]) = {}
  BY <1>1 DEF Area, Editing, Free
<1>10. \A x : Range(x.ends) \subseteq Places(edits) /\ Spared(rec, x) => Harmless(x, r, server)
  BY <1>7, OldPlaces DEF Harmless, Spared, Ready
<1>11. Within(o, r)
  <2>1. \A i : i \notin Area(op[o]) \cup Area(r) => Alike(i, server, server') /\ Alike(i, cache, cache')
    BY <1>7 DEF Ready, Alike
  <2>2. \A i \in DOMAIN server' \ Mine(r) : Harmless(server'[i], r, server')
    BY <1>3, <1>7, <1>10, OldPlaces
  <2>3. \A i \in DOMAIN cache' \ Mine(r) : i \in DOMAIN cache \ rec.entry.ids /\ cache'[i] = cache[i]
    BY <1>7 DEF Ready, Alike
  <2>4. \A i \in DOMAIN cache' \ Mine(r) : Harmless(cache'[i], r, server')
    BY <1>3, <1>10, <2>3, OldPlaces
  <2>5. QED
    BY <1>7, <1>9, <2>1, <2>2, <2>4 DEF Within, Around
<1>12. ASSUME NEW p \in Ops \ {o}, Editing(op[p]) PROVE Mindful(o, r, p)
  <2>1. rec.entry.ids \cap Mine(op[p]) = {}
    BY <1>3 DEF InTheWay, Mine
  <2>2. \A i \in DOMAIN server \ Mine(op[p]) : Harmless(server[i], op[p], server)
    BY <1>12 DEF Agree, Around
  <2>3. \A i \in rec.entry.ids :
          /\ i \in DOMAIN server' => Harmless(server'[i], op[p], server)
          /\ i \in DOMAIN cache' => Harmless(cache'[i], op[p], server)
    BY <1>12, <2>1, <2>2, GrownHarmless DEF Ready
  <2>4. \A x \in Load(r) : Harmless(x, op[p], server)
    BY <1>7, <1>12, <2>1, GrownHarmless DEF Ready
  <2>5. \A x \in Load(op[p]) : Harmless(x, r, server')
    BY <1>3, <1>10, <1>12, OldPlaces
  <2>6. QED
    BY <1>7, <1>9, <2>1, <2>3, <2>4, <2>5 DEF Mindful
<1>13. QED
  BY <1>4, <1>8, <1>11, <1>12, StepOfOne

\* Nothing of an edit that is in nobody's way is out of date.
LEMMA NobodysSettled ==
  ASSUME Agree, NEW entry, ~InTheWay(entry)
  PROVE  \A i \in entry.ids \cup Expand(server, entry.ids \cap DOMAIN server) : Settled(i, server, cache)
<1>1. ASSUME NEW i \in entry.ids \cup Expand(server, entry.ids \cap DOMAIN server), NEW p \in Ops
      PROVE  i \notin Area(op[p])
  BY <1>1 DEF InTheWay, Area, Mine
<1>2. QED
  BY <1>1 DEF Agree, Settled

\* An edit that changes objects in the cache, and sends updates of them.
Changes(rec, ids) ==
  /\ rec.kind \in {"move", "group", "detail"}
  /\ rec.entry.ids = ids /\ ids \subseteq DOMAIN cache
  /\ DOMAIN rec.entry.objs = ids /\ \A i \in ids : rec.entry.objs[i].ends = cache[i].ends
  /\ DOMAIN cache' = DOMAIN cache /\ \A i \in DOMAIN cache \ ids : cache'[i] = cache[i]
  /\ \A i \in ids : Grown(cache'[i], ids)
  /\ \A q \in Todo(rec) : \E i \in ids :
       /\ q.do = "update" /\ q.ids = {i} /\ q.objs[1].ends = cache'[i].ends
       /\ \A f \in DOMAIN q.objs[1] : q.objs[1][f] = cache'[i][f]
  /\ \A i \in ids : \A f \in {"ends", "path", "form"} :
       \/ cache'[i][f] = cache[i][f]
       \/ \E q \in Todo(rec) : q.ids = {i} /\ f \in DOMAIN q.objs[1]
  /\ rec.kind = "move" =>
       DOMAIN rec.snap = ids /\ \A i \in ids : Upserted(cache'[i], rec.snap[i]) = cache[i]

\* A coroutine that has not sent anything.
Unsent(rec) ==
  /\ DOMAIN rec = DOMAIN Free /\ (\E S : rec.stages \in Seq(S)) /\ rec.stages # <<>>
  /\ rec.sent = {} /\ rec.got = None /\ rec.err = "none"

LEMMA OwnNew ==
  ASSUME NEW rec, NEW ids, DOMAIN rec.entry.objs = ids, ids \subseteq DOMAIN cache,
         \A i \in ids : rec.entry.objs[i].ends = cache[i].ends,
         \A x \in Load(rec) : Grown(x, ids)
  PROVE  Own(rec) \subseteq New
<1>1. SUFFICES ASSUME NEW e \in Own(rec) PROVE e \in New
  OBVIOUS
<1>2. PICK x \in Load(rec) : e \in Range(x.ends)
  BY DEF Own, Spots
<1>3. e \notin Spots(Range(rec.entry.objs))
  BY DEF Own
<1>4. ASSUME NEW j \in ids, e \in Range(cache[j].ends) PROVE FALSE
  <2>1. rec.entry.objs[j] \in Range(rec.entry.objs)
    BY DEF Range
  <2>2. QED
    BY <1>3, <1>4, <2>1 DEF Spots
<1>5. QED
  BY <1>2, <1>4 DEF Grown

LEMMA ChangesReady ==
  ASSUME NEW rec, NEW ids, Changes(rec, ids), Unsent(rec)
  PROVE  Ready(rec)
<1>1. ASSUME NEW x \in Load(rec)
      PROVE  \E i \in ids : x.ends = cache'[i].ends
  <2>1. PICK q \in Todo(rec) : x \in Carried(q)
    BY <1>1 DEF Load
  <2>2. PICK i \in ids : q.do = "update" /\ q.objs[1].ends = cache'[i].ends
    BY <2>1 DEF Changes
  <2>3. x = q.objs[1]
    BY <2>1, <2>2 DEF Carried
  <2>4. QED
    BY <2>2, <2>3
<1>2. \A x \in Load(rec) : Grown(x, ids)
  BY <1>1 DEF Changes, Grown, IsLine
<1>3. Own(rec) \subseteq New
  BY <1>2, OwnNew DEF Changes
<1>4. \A i : i \notin ids => Alike(i, cache, cache')
  BY DEF Changes, Alike
<1>5. /\ rec.kind \in Kinds /\ Editing(rec) /\ rec.kind \notin {"delete", "place", "paste", "split"} /\ rec.entry.ids = ids
      /\ \A i \in ids \cap DOMAIN cache' : Grown(cache'[i], ids)
  BY DEF Changes, Kinds, Editing
<1>6. QED
  BY <1>2, <1>3, <1>4, <1>5 DEF Ready, Unsent

LEMMA ChangesHolds ==
  ASSUME NEW rec, NEW ids, Changes(rec, ids), Unsent(rec),
         \A i \in ids : Settled(i, server, cache)
  PROVE  Holds(rec, server, cache') /\ Targets(rec) = {}
<1>1. /\ rec.entry.ids = ids /\ DOMAIN rec.got = {} /\ rec.err = "none" /\ ids \subseteq DOMAIN cache'
      /\ rec.kind \in {"move", "group", "detail"}
  BY NoMap DEF Changes, Unsent
<1>2. ids \subseteq DOMAIN server /\ \A i \in ids : server[i] = cache[i]
  BY DEF Settled, Changes
<1>3. \A q \in Todo(rec) : \E i \in ids :
        /\ q.do = "update" /\ q.ids = {i}
        /\ \A f \in DOMAIN q.objs[1] : q.objs[1][f] = cache'[i][f]
  BY DEF Changes
<1>4. \A i \in ids : \A f \in {"ends", "path", "form"} :
        \/ cache'[i][f] = server[i][f]
        \/ \E q \in Todo(rec) : q.ids = {i} /\ f \in DOMAIN q.objs[1]
  <2> DEFINE Sent(i, f) == \E q \in Todo(rec) : q.ids = {i} /\ f \in DOMAIN q.objs[1]
  <2>1. \A i \in ids : \A f \in {"ends", "path", "form"} : cache'[i][f] = cache[i][f] \/ Sent(i, f)
    BY DEF Changes
  <2>2. \A i \in ids : \A f \in {"ends", "path", "form"} : server[i][f] = cache[i][f]
    BY <1>2
  <2> HIDE DEF Sent
  <2>3. \A i \in ids : \A f \in {"ends", "path", "form"} : cache'[i][f] = server[i][f] \/ Sent(i, f)
    BY <2>1, <2>2
  <2>4. QED
    BY <2>3 DEF Sent
<1>5. rec.kind = "move" =>
        DOMAIN rec.snap = ids /\ \A i \in ids : Upserted(cache'[i], rec.snap[i]) = server[i]
  BY <1>2 DEF Changes
<1>6. UpdaterHolds(rec, server, cache')
  BY <1>1, <1>2, <1>3, <1>4, <1>5 DEF UpdaterHolds
<1>7. Targets(rec) = {}
  BY <1>6, UpdaterTargets
<1>8. QED
  BY <1>1, <1>6, <1>7 DEF Holds

\* An edit that deletes nothing takes no line of others.
LEMMA NoTargetsSpare ==
  ASSUME NEW rec, Targets(rec) = {} PROVE \A x : Spared(rec, x)
<1>1. Doors(rec, server) = {}
  BY DEF Doors
<1>2. QED
  BY <1>1 DEF Spared

\* An edit that redraws objects of the cache begins.
LEMMA ChangesBegin ==
  ASSUME Agree, TypeInv, NEW rec, NEW ids, Changes(rec, ids), Unsent(rec), Begin(rec, op),
         ~drift', server' = server
  PROVE  Agree'
<1>1. ~InTheWay(rec.entry)
  BY DEF Begin
<1>2. \A i \in ids : Settled(i, server, cache)
  BY <1>1, NobodysSettled DEF Changes
<1>3. Holds(rec, server, cache') /\ Targets(rec) = {}
  BY <1>2, ChangesHolds
<1>4. QED
  BY <1>3, ChangesReady, NoTargetsSpare, BeginAgrees

\* A dragged object is at new places, or where one of those dragged along was.
LEMMA DraggedGrown ==
  ASSUME TypeInv, NEW ids \in SUBSET DOMAIN cache, NEW i \in TabExpand(cache, ids)
  PROVE  Grown(Dragged(cache, ids)[i], TabExpand(cache, ids))
<1> DEFINE x == Dragged(cache, ids)[i]
<1>1. MapsTyped /\ Map(cache, Obj(edits), nextId)
  BY DEF TypeInv, MapsTyped
<1>2. /\ Map(Dragged(cache, ids), Obj(edits + 1), nextId) /\ DOMAIN Dragged(cache, ids) = TabExpand(cache, ids)
      /\ Len(x.ends) = Len(cache[i].ends)
      /\ \A k \in 1..Len(cache[i].ends) :
           x.ends[k] = cache[i].ends[k] \/ \E j \in ids : x.ends[k] = Place(j)
  BY <1>1, DraggedTyped
<1>3. /\ x.ends \in Seq(Places(edits + 1)) /\ cache[i].ends \in Seq(Places(edits)) /\ i \in DOMAIN cache
  BY <1>1, <1>2, TabExpandTyped DEF Map, Obj
<1>4. ids \subseteq Nat
  BY <1>1 DEF Map
<1> HIDE DEF x
<1>5. ASSUME NEW k \in 1..Len(cache[i].ends)
      PROVE  x.ends[k] \in New \/ x.ends[k] \in Range(cache[i].ends)
  <2>1. CASE x.ends[k] = cache[i].ends[k]
    <3>1. k \in DOMAIN cache[i].ends
      BY <1>3
    <3>2. QED
      BY <2>1, <3>1 DEF Range
  <2>2. CASE \E j \in ids : x.ends[k] = Place(j)
    BY <1>4, <2>2 DEF New
  <2>3. QED
    BY <1>2, <2>1, <2>2
<1>6. Range(x.ends) = {x.ends[k] : k \in 1..Len(cache[i].ends)}
  BY <1>2, <1>3 DEF Range
<1>7. IsLine(x) => IsLine(cache[i])
  BY <1>2 DEF IsLine
<1>8. Grown(x, TabExpand(cache, ids))
  BY <1>3, <1>5, <1>6, <1>7 DEF Grown
<1>9. QED
  BY <1>8 DEF x

\* The geometries of objects are laid over those in the cache.
LEMMA Redrawn ==
  ASSUME TypeInv, NEW new, Map(new, Obj(edits + 1), nextId), DOMAIN new \subseteq DOMAIN cache,
         \A i \in DOMAIN new : new[i].form = cache[i].form,
         cache' = Patched(cache, Geometries(new, DOMAIN new))
  PROVE  /\ DOMAIN cache' = DOMAIN cache
         /\ \A i \in DOMAIN cache \ DOMAIN new : cache'[i] = cache[i]
         /\ \A i \in DOMAIN new :
              /\ cache'[i] = new[i] /\ cache[i] \in Obj(edits + 1)
              /\ Upserted(cache'[i], cache[i]) = cache[i]
              /\ Upserted(cache'[i], Geometry(cache[i])) = cache[i]
<1>1. /\ edits \in Nat /\ edits + 1 \in Nat /\ edits <= edits + 1
      /\ \A i \in DOMAIN cache : cache[i] \in Obj(edits)
  BY DEF TypeInv, MapsTyped, Map
<1>2. \A i \in DOMAIN cache : cache[i] \in Obj(edits + 1)
  BY <1>1, ObjGrows
<1>3. DOMAIN Geometries(new, DOMAIN new) = DOMAIN new
      /\ \A i \in DOMAIN new : Geometries(new, DOMAIN new)[i] = Geometry(new[i])
  BY DEF Geometries
<1>4. /\ DOMAIN cache' = DOMAIN cache
      /\ \A i \in DOMAIN cache \ DOMAIN new : cache'[i] = cache[i]
      /\ \A i \in DOMAIN new : cache'[i] = Upserted(cache[i], Geometry(new[i]))
  BY <1>3 DEF Patched
<1>5. ASSUME NEW x \in Obj(edits + 1), NEW y \in Obj(edits + 1), x.form = y.form
      PROVE  Upserted(x, Geometry(y)) = y /\ Upserted(x, y) = y
  <2>1. Geometry(y) \in Shape(edits + 1) /\ Geometry(y) \in Part(edits + 1)
        /\ Geometry(y).ends = y.ends /\ Geometry(y).path = y.path
    BY GeometryTyped DEF Geometry
  <2>2. /\ Upserted(x, Geometry(y)) \in Obj(edits + 1) /\ Upserted(x, Geometry(y)).ends = y.ends
        /\ Upserted(x, Geometry(y)).path = y.path /\ Upserted(x, Geometry(y)).form = y.form
    BY <1>5, <2>1, PartOver
  <2>3. Upserted(x, Geometry(y)) = y
    BY <2>2, SameFields
  <2>4. Upserted(x, y) = y
    BY PartOver DEF Part
  <2>5. QED
    BY <2>3, <2>4
<1>6. \A i \in DOMAIN new : cache[i] \in Obj(edits + 1) /\ new[i] \in Obj(edits + 1)
  BY <1>2 DEF Map
<1>7. \A i \in DOMAIN new : cache'[i] = new[i]
  BY <1>4, <1>5, <1>6
<1>8. \A i \in DOMAIN new : /\ Upserted(cache'[i], cache[i]) = cache[i]
                            /\ Upserted(cache'[i], Geometry(cache[i])) = cache[i]
  BY <1>5, <1>6, <1>7
<1>9. QED
  BY <1>4, <1>6, <1>7, <1>8

\* An edit of geometries.
Redraws(rec, new) ==
  /\ rec.kind \in {"move", "group"}
  /\ rec.entry.ids = DOMAIN new /\ rec.entry.objs = Geometries(cache, DOMAIN new)
  /\ Todo(rec) = {Update(i, Geometry(new[i])) : i \in DOMAIN new}
  /\ rec.kind = "move" =>
       /\ DOMAIN rec.snap = DOMAIN new
       /\ \A i \in DOMAIN new : rec.snap[i] = cache[i] \/ rec.snap[i] = Geometry(cache[i])

LEMMA RedrawsChanges ==
  ASSUME TypeInv, NEW new, Map(new, Obj(edits + 1), nextId), DOMAIN new \subseteq DOMAIN cache,
         \A i \in DOMAIN new : new[i].form = cache[i].form /\ Grown(new[i], DOMAIN new),
         cache' = Patched(cache, Geometries(new, DOMAIN new)),
         NEW rec, Redraws(rec, new)
  PROVE  Changes(rec, DOMAIN new)
<1> DEFINE ids == DOMAIN new
<1>1. /\ DOMAIN cache' = DOMAIN cache
      /\ \A i \in DOMAIN cache \ ids : cache'[i] = cache[i]
      /\ \A i \in ids :
           /\ cache'[i] = new[i] /\ cache[i] \in Obj(edits + 1)
           /\ Upserted(cache'[i], cache[i]) = cache[i]
           /\ Upserted(cache'[i], Geometry(cache[i])) = cache[i]
  BY Redrawn
<1>2. /\ DOMAIN rec.entry.objs = ids /\ \A i \in ids : rec.entry.objs[i].ends = cache[i].ends
  BY DEF Redraws, Geometries, Geometry
<1>3. ASSUME NEW i \in ids, NEW q, q = Update(i, Geometry(new[i]))
      PROVE  /\ q.do = "update" /\ q.ids = {i} /\ DOMAIN q.objs[1] = {"ends", "path"}
             /\ q.objs[1].ends = cache'[i].ends
             /\ \A f \in DOMAIN q.objs[1] : q.objs[1][f] = cache'[i][f]
  <2>1. q.do = "update" /\ q.ids = {i} /\ q.objs[1] = Geometry(new[i])
    BY <1>3 DEF Update
  <2>2. DOMAIN q.objs[1] = {"ends", "path"} /\ q.objs[1].ends = new[i].ends /\ q.objs[1].path = new[i].path
    BY <2>1 DEF Geometry
  <2>3. QED
    BY <1>1, <2>1, <2>2
<1>4. \A q \in Todo(rec) : \E i \in ids : q = Update(i, Geometry(new[i]))
  BY DEF Redraws
<1>5. \A q \in Todo(rec) : \E i \in ids :
       /\ q.do = "update" /\ q.ids = {i} /\ q.objs[1].ends = cache'[i].ends
       /\ \A f \in DOMAIN q.objs[1] : q.objs[1][f] = cache'[i][f]
  BY <1>3, <1>4
<1>6. ASSUME NEW i \in ids, NEW f \in {"ends", "path", "form"}
      PROVE  \/ cache'[i][f] = cache[i][f]
             \/ \E q \in Todo(rec) : q.ids = {i} /\ f \in DOMAIN q.objs[1]
  <2>1. CASE f = "form"
    BY <1>1, <2>1
  <2>2. CASE f # "form"
    <3> DEFINE q == Update(i, Geometry(new[i]))
    <3>1. q \in Todo(rec)
      BY DEF Redraws
    <3>2. q.ids = {i} /\ f \in DOMAIN q.objs[1]
      BY <1>3, <2>2
    <3>3. QED
      BY <3>1, <3>2
  <2>3. QED
    BY <2>1, <2>2
<1>7. rec.kind = "move" =>
       DOMAIN rec.snap = ids /\ \A i \in ids : Upserted(cache'[i], rec.snap[i]) = cache[i]
  BY <1>1 DEF Redraws
<1>8. /\ rec.kind \in {"move", "group", "detail"} /\ rec.entry.ids = ids /\ ids \subseteq DOMAIN cache
      /\ \A i \in ids : Grown(cache'[i], ids)
  BY <1>1 DEF Redraws
<1>9. QED
  BY <1>1, <1>2, <1>5, <1>6, <1>7, <1>8 DEF Changes

LEMMA UpdatesJoin ==
  ASSUME NEW new, NEW ids \in SUBSET DOMAIN new
  PROVE  /\ Updates(Only(new, ids)) = {Update(i, new[i]) : i \in ids}
         /\ Updates(Only(new, ids)) \cup Updates(Only(new, DOMAIN new \ ids))
              = {Update(i, new[i]) : i \in DOMAIN new}
<1>1. ASSUME NEW s \in SUBSET DOMAIN new
      PROVE  Updates(Only(new, s)) = {Update(i, new[i]) : i \in s}
  BY DEF Updates, Only
<1>2. Updates(Only(new, DOMAIN new \ ids)) = {Update(i, new[i]) : i \in DOMAIN new \ ids}
  BY <1>1
<1>3. QED
  BY <1>1, <1>2

LEMMA FreshUnsent ==
  ASSUME NEW rec, NEW kind, NEW drag, NEW stages, NEW entry, NEW snap,
         Fresh(rec, kind, drag, stages, entry, snap),
         \E S : stages \in Seq(S), stages # <<>>
  PROVE  Unsent(rec) /\ Todo(rec) = Requests(stages)
  BY DEF Fresh, Unsent, Todo

\* The edits of geometries, as they begin.
Drawn(rec, new) ==
  /\ Unsent(rec) /\ ~rec.applied /\ rec.entry.undo = "patch"
  /\ DOMAIN new # {} /\ Redraws(rec, new) /\ Changes(rec, DOMAIN new)

\* A drag or a reshaped line, ...
LEMMA MoveDraws ==
  ASSUME TypeInv, NEW i \in DOMAIN cache, Move(i)
  PROVE  \E rec, new : Begin(rec, op) /\ Drawn(rec, new)
<1> DEFINE new == IF IsLine(cache[i]) THEN [j \in {i} |-> [cache[i] EXCEPT !.path = edits + 1]]
                  ELSE Dragged(cache, {i})
           ids == DOMAIN new
           entry == [undo |-> "patch", ids |-> ids, objs |-> Geometries(cache, ids)]
           snap == Upserted(Geometries(cache, ids), Only(cache, {i}))
           first == <<{Update(i, Geometry(new[i]))}>>
           rest == Stage(Updates(Geometries(new, ids \ {i})))
           rec == [Free EXCEPT !.kind = "move", !.seq = seq + 1,
                     !.stages = first \o rest, !.entry = entry, !.snap = snap]
<1>1. /\ edits \in Nat /\ edits + 1 \in Nat /\ edits <= edits + 1 /\ nextId \in Nat
      /\ Map(cache, Obj(edits), nextId) /\ MapsTyped
  BY DEF TypeInv, MapsTyped
<1>2. /\ Map(new, Obj(edits + 1), nextId) /\ ids \subseteq DOMAIN cache /\ i \in ids
      /\ \A j \in ids : new[j].form = cache[j].form /\ Grown(new[j], ids)
  <2>1. CASE IsLine(cache[i])
    <3>1. cache[i] \in Obj(edits + 1) /\ i \in 1..(nextId - 1)
      BY <1>1, ObjGrows DEF Map
    <3>2. [cache[i] EXCEPT !.path = edits + 1] \in Obj(edits + 1)
      BY <1>1, <3>1 DEF Obj
    <3>3. ids = {i} /\ new[i].form = cache[i].form /\ new[i].ends = cache[i].ends
      BY <2>1, <3>1 DEF Obj
    <3>4. Grown(new[i], ids)
      BY <2>1, <3>3 DEF Grown
    <3>5. Map(new, Obj(edits + 1), nextId)
      BY <2>1, <3>1, <3>2 DEF Map
    <3>6. QED
      BY <3>3, <3>4, <3>5
  <2>2. CASE ~IsLine(cache[i])
    <3>1. /\ Map(Dragged(cache, {i}), Obj(edits + 1), nextId)
          /\ DOMAIN Dragged(cache, {i}) = TabExpand(cache, {i})
          /\ \A j \in TabExpand(cache, {i}) : Dragged(cache, {i})[j].form = cache[j].form
      BY <1>1, DraggedTyped
    <3>2. TabExpand(cache, {i}) \subseteq DOMAIN cache /\ i \in TabExpand(cache, {i})
      BY TabExpandTyped
    <3>3. \A j \in TabExpand(cache, {i}) : Grown(Dragged(cache, {i})[j], TabExpand(cache, {i}))
      BY DraggedGrown
    <3>4. QED
      BY <2>2, <3>1, <3>2, <3>3
  <2>3. QED
    BY <2>1, <2>2
<1>3. /\ Begin(rec, op) /\ cache' = Patched(cache, Geometries(new, ids)) /\ server' = server
  BY DEF Move
<1>4. Fresh(rec, "move", seq + 1, first \o rest, entry, snap)
  BY DEF Fresh, Free
<1>5. /\ entry.ids = ids /\ entry.objs = Geometries(cache, ids)
      /\ DOMAIN snap = ids
      /\ \A j \in ids : snap[j] = cache[j] \/ snap[j] = Geometry(cache[j])
  BY <1>2 DEF Upserted, Geometries, Only
<1>6. /\ \E S : first \in Seq(S) /\ first # <<>>
      /\ Requests(first) = {Update(i, Geometry(new[i]))}
      /\ \E S : rest \in Seq(S)
      /\ Requests(rest) = Updates(Geometries(new, ids \ {i}))
  BY OneStage
<1> HIDE DEF new
<1>7. Updates(Geometries(new, ids \ {i})) = {Update(j, Geometry(new[j])) : j \in ids \ {i}}
  BY DEF Updates, Geometries
<1> HIDE DEF first, rest, entry, snap, rec
<1>8. /\ \E S : first \o rest \in Seq(S)
      /\ first \o rest # <<>>
      /\ Requests(first \o rest) = Requests(first) \cup Requests(rest)
  BY <1>6, StagesJoin, JoinTyped
<1>9. Requests(first \o rest) = {Update(j, Geometry(new[j])) : j \in ids}
  <2> DEFINE u(j) == Update(j, Geometry(new[j]))
  <2>1. Requests(first \o rest) = {u(i)} \cup {u(j) : j \in ids \ {i}}
    BY <1>6, <1>7, <1>8
  <2> HIDE DEF u
  <2>2. {u(i)} \cup {u(j) : j \in ids \ {i}} = {u(j) : j \in ids}
    BY <1>2
  <2>3. QED
    BY <2>1, <2>2 DEF u
<1>10. Unsent(rec) /\ Todo(rec) = Requests(first \o rest)
  BY <1>4, <1>8, FreshUnsent
<1>11. Redraws(rec, new)
  BY <1>4, <1>5, <1>9, <1>10 DEF Fresh, Redraws
<1>12. Changes(rec, ids)
  BY <1>2, <1>3, <1>11, RedrawsChanges
<1>13. ~rec.applied /\ rec.entry.undo = "patch"
  BY <1>4 DEF Fresh, entry
<1>14. Drawn(rec, new)
  BY <1>2, <1>10, <1>11, <1>12, <1>13 DEF Drawn
<1>15. QED
  BY <1>3, <1>14

LEMMA MoveAgrees ==
  ASSUME Agree, TypeInv, NEW i \in DOMAIN cache, Move(i), ~drift'
  PROVE  Agree'
<1>1. PICK rec, new : Begin(rec, op) /\ Drawn(rec, new)
  BY MoveDraws
<1>2. server' = server
  BY DEF Move
<1>3. QED
  BY <1>1, <1>2, ChangesBegin DEF Drawn

\* ... a drag of a group, ...
LEMMA GroupDraws ==
  ASSUME TypeInv, NEW ids \in SUBSET DOMAIN cache, MoveGroup(ids)
  PROVE  \E rec, new : Begin(rec, op) /\ Drawn(rec, new)
<1> DEFINE all == TabExpand(cache, ids)
           dragged == Dragged(cache, ids)
           new == Geometries(dragged, all)
           entry == [undo |-> "patch", ids |-> DOMAIN new, objs |-> Geometries(cache, DOMAIN new)]
           first == Stage(Updates(Only(new, ids)))
           rest == Stage(Updates(Only(new, DOMAIN new \ ids)))
           rec == [Free EXCEPT !.kind = "group", !.stages = first \o rest, !.entry = entry]
<1>1. /\ edits \in Nat /\ edits + 1 \in Nat /\ edits <= edits + 1 /\ nextId \in Nat
      /\ Map(cache, Obj(edits), nextId) /\ MapsTyped
  BY DEF TypeInv, MapsTyped
<1>2. /\ Begin(rec, op) /\ cache' = Patched(cache, new) /\ server' = server /\ Cardinality(ids) > 1
  BY DEF MoveGroup
<1>3. /\ Map(dragged, Obj(edits + 1), nextId) /\ DOMAIN dragged = all
      /\ all \subseteq DOMAIN cache /\ ids \subseteq all
      /\ \A j \in all : dragged[j].form = cache[j].form /\ Grown(dragged[j], all)
  BY <1>1, DraggedTyped, TabExpandTyped, DraggedGrown
<1>4. /\ DOMAIN new = all /\ \A j \in all : new[j] = Geometry(dragged[j])
      /\ new = Geometries(dragged, DOMAIN dragged)
  BY <1>3 DEF Geometries
<1>5. Fresh(rec, "group", 0, first \o rest, entry, None)
  BY DEF Fresh, Free
<1>6. entry.ids = DOMAIN dragged /\ entry.objs = Geometries(cache, DOMAIN dragged)
  BY <1>3, <1>4
<1>7. /\ Requests(first) = Updates(Only(new, ids)) /\ Requests(rest) = Updates(Only(new, DOMAIN new \ ids))
      /\ \E S : first \in Seq(S)
      /\ Updates(Only(new, ids)) # {} => first # <<>>
      /\ \E S : rest \in Seq(S)
  BY OneStage
<1> HIDE DEF new, dragged, all
<1>8. /\ Updates(Only(new, ids)) = {Update(j, new[j]) : j \in ids}
      /\ Updates(Only(new, ids)) \cup Updates(Only(new, DOMAIN new \ ids)) = {Update(j, new[j]) : j \in all}
  <2>1. ids \in SUBSET DOMAIN new
    BY <1>3, <1>4
  <2>2. /\ Updates(Only(new, ids)) = {Update(j, new[j]) : j \in ids}
        /\ Updates(Only(new, ids)) \cup Updates(Only(new, DOMAIN new \ ids))
             = {Update(j, new[j]) : j \in DOMAIN new}
    BY <2>1, UpdatesJoin
  <2>3. {Update(j, new[j]) : j \in DOMAIN new} = {Update(j, new[j]) : j \in all}
    BY <1>4
  <2>4. QED
    BY <2>2, <2>3
<1>9. ids # {}
  BY <1>2, FS_EmptySet
<1>10. Updates(Only(new, ids)) # {}
  BY <1>8, <1>9
<1> HIDE DEF first, rest, entry, rec
<1>11. /\ \E S : first \o rest \in Seq(S)
       /\ first \o rest # <<>>
       /\ Requests(first \o rest) = Requests(first) \cup Requests(rest)
  BY <1>7, <1>10, StagesJoin, JoinTyped
<1>12. {Update(j, new[j]) : j \in all} = {Update(j, Geometry(dragged[j])) : j \in all}
  BY <1>4
<1>13. Unsent(rec) /\ Todo(rec) = {Update(j, Geometry(dragged[j])) : j \in DOMAIN dragged}
  BY <1>3, <1>5, <1>7, <1>8, <1>11, <1>12, FreshUnsent
<1>14. Redraws(rec, dragged)
  BY <1>5, <1>6, <1>13 DEF Fresh, Redraws
<1>15. Changes(rec, DOMAIN dragged)
  BY <1>2, <1>3, <1>4, <1>14, RedrawsChanges
<1>16. ~rec.applied /\ rec.entry.undo = "patch"
  BY <1>5 DEF Fresh, entry
<1>17. Drawn(rec, dragged)
  BY <1>3, <1>9, <1>13, <1>14, <1>15, <1>16 DEF Drawn
<1>18. QED
  BY <1>2, <1>17

LEMMA MoveGroupAgrees ==
  ASSUME Agree, TypeInv, NEW ids \in SUBSET DOMAIN cache, MoveGroup(ids), ~drift'
  PROVE  Agree'
<1>1. PICK rec, new : Begin(rec, op) /\ Drawn(rec, new)
  BY GroupDraws
<1>2. server' = server
  BY DEF MoveGroup
<1>3. QED
  BY <1>1, <1>2, ChangesBegin DEF Drawn

\* ... the form, ...
LEMMA DetailChanges ==
  ASSUME TypeInv, NEW i \in DOMAIN cache, SaveDetail(i)
  PROVE  \E rec, q : /\ Begin(rec, op) /\ Unsent(rec) /\ ~rec.applied /\ rec.kind = "detail" /\ rec.entry.undo = "patch"
                     /\ Changes(rec, {i}) /\ rec.entry.objs[i] = cache[i]
                     /\ rec.stages = <<{q}>> /\ Todo(rec) = {q} /\ q.do = "update" /\ q.ids = {i}
                     /\ DOMAIN q.objs[1] = {"ends", "path", "form"}
<1> DEFINE new == [cache[i] EXCEPT !.form = edits + 1]
           q == Update(i, new)
           entry == [undo |-> "patch", ids |-> {i}, objs |-> Only(cache, {i})]
           rec == [Free EXCEPT !.kind = "detail", !.stages = <<{q}>>, !.entry = entry]
<1>1. /\ edits \in Nat /\ edits + 1 \in Nat /\ edits <= edits + 1
      /\ cache[i] \in Obj(edits)
  BY DEF TypeInv, MapsTyped, Map
<1>2. /\ Begin(rec, op) /\ cache' = Patched(cache, [j \in {i} |-> new]) /\ server' = server
  BY DEF SaveDetail
<1>3. cache[i] \in Obj(edits + 1)
  BY <1>1, ObjGrows
<1>4. new \in Obj(edits + 1) /\ new.ends = cache[i].ends /\ new.path = cache[i].path
      /\ DOMAIN new = {"ends", "path", "form"}
  BY <1>1, <1>3 DEF Obj
<1>5. /\ DOMAIN cache' = DOMAIN cache /\ cache'[i] = new
      /\ \A j \in DOMAIN cache \ {i} : cache'[j] = cache[j]
  <2>1. Upserted(cache[i], new) = new
    BY <1>3, <1>4, PartOver DEF Part
  <2>2. QED
    BY <1>2, <2>1 DEF Patched
<1>6. Fresh(rec, "detail", 0, <<{q}>>, entry, None)
  BY DEF Fresh, Free
<1>7. /\ q.do = "update" /\ q.ids = {i} /\ q.objs[1] = new
      /\ entry.ids = {i} /\ DOMAIN entry.objs = {i} /\ entry.objs[i] = cache[i]
  BY DEF Update, Only
<1> HIDE DEF q, entry, rec, new
<1>8. Unsent(rec) /\ Todo(rec) = {q}
  BY <1>6, OneStage, FreshUnsent
<1>9. Grown(new, {i})
  BY <1>4 DEF Grown, IsLine
<1>10. rec.kind = "detail" /\ rec.entry = entry
  BY <1>6 DEF Fresh
<1>11. Changes(rec, {i})
  <2>1. \A t \in Todo(rec) : \E j \in {i} :
          /\ t.do = "update" /\ t.ids = {j} /\ t.objs[1].ends = cache'[j].ends
          /\ \A f \in DOMAIN t.objs[1] : t.objs[1][f] = cache'[j][f]
    BY <1>5, <1>7, <1>8
  <2>2. \A f \in {"ends", "path", "form"} :
          \E t \in Todo(rec) : t.ids = {i} /\ f \in DOMAIN t.objs[1]
    BY <1>4, <1>7, <1>8
  <2>3. \A j \in {i} : \A f \in {"ends", "path", "form"} :
          \/ cache'[j][f] = cache[j][f]
          \/ \E t \in Todo(rec) : t.ids = {j} /\ f \in DOMAIN t.objs[1]
    BY <2>2
  <2>4. QED
    BY <1>5, <1>7, <1>9, <1>10, <2>1, <2>3 DEF Changes
<1>12. ~rec.applied /\ rec.stages = <<{q}>> /\ rec.entry.undo = "patch"
  BY <1>6 DEF Fresh, entry
<1>13. QED
  BY <1>2, <1>4, <1>7, <1>8, <1>10, <1>11, <1>12

LEMMA SaveDetailAgrees ==
  ASSUME Agree, TypeInv, NEW i \in DOMAIN cache, SaveDetail(i), ~drift'
  PROVE  Agree'
<1>1. PICK rec : Begin(rec, op) /\ Unsent(rec) /\ Changes(rec, {i})
  BY DetailChanges
<1>2. server' = server
  BY DEF SaveDetail
<1>3. QED
  BY <1>1, <1>2, ChangesBegin

\* An edit that creates objects, and leaves the cache alone until they are answered.
Creates(rec, ids) ==
  /\ rec.kind \in {"place", "split", "paste"}
  /\ rec.kind \in {"place", "paste"} => rec.entry = NoEntry
  /\ rec.kind = "split" =>
       \A l \in DOMAIN rec.entry.objs : l \in rec.entry.ids /\ IsLine(rec.entry.objs[l])
  /\ rec.kind = "paste" => \E q : rec.stages = <<{q}>>
  /\ rec.entry.ids = ids /\ ids \subseteq DOMAIN cache
  /\ DOMAIN rec.entry.objs = ids /\ \A i \in ids : rec.entry.objs[i].ends = cache[i].ends
  /\ \A q \in Todo(rec) : q.do \in {"create", "update"} /\ (q.do = "update" => q.ids \subseteq ids)
  /\ \A x \in Load(rec) : Grown(x, ids)

\* An edit that makes objects begins.
LEMMA CreatesBegin ==
  ASSUME Agree, TypeInv, NEW rec, NEW ids, Creates(rec, ids), Unsent(rec),
         NEW f, f = op \/ f = Released(op), Begin(rec, f),
         ~drift', server' = server, cache' = cache
  PROVE  Agree'
<1>1. Own(rec) \subseteq New
  BY OwnNew DEF Creates
<1>2. \A i : Alike(i, cache, cache')
  BY DEF Alike
<1>3. /\ rec.kind \in Kinds /\ Editing(rec) /\ rec.kind # "delete" /\ rec.entry.ids = ids
      /\ rec.kind \notin {"move", "group", "detail"}
  BY DEF Creates, Kinds, Editing
<1>4. \A i \in ids \cap DOMAIN cache' : Grown(cache'[i], ids)
  BY DEF Creates, Grown
<1>5. Ready(rec)
  BY <1>1, <1>2, <1>3, <1>4 DEF Ready, Unsent, Creates
<1>6. ~InTheWay(rec.entry)
  BY DEF Begin
<1>7. \A i \in ids : Settled(i, server, cache)
  BY <1>3, <1>6, NobodysSettled
<1>8. CreatorHolds(rec, server, cache')
  BY <1>3, <1>7 DEF CreatorHolds, Creates
<1>9. Targets(rec) = {}
  BY <1>8, UpdaterTargets
<1>10. Holds(rec, server, cache')
  BY <1>3, <1>8, <1>9, NoMap DEF Holds, Unsent
<1>11. QED
  BY <1>5, <1>9, <1>10, NoTargetsSpare, BeginAgrees

LEMMA NewPointGrown ==
  /\ Range(NewPoint.ends) = {Place(0)}
  /\ \A ids : Grown(NewPoint, ids)
<1>1. NewPoint.ends = <<Place(0)>>
  BY DEF NewPoint
<1>2. Range(NewPoint.ends) = {Place(0)}
  BY <1>1 DEF Range
<1>3. QED
  BY <1>2 DEF Grown, New

LEMMA OneCreate ==
  ASSUME NEW objs PROVE Create(objs).do = "create" /\ Carried(Create(objs)) = Range(objs)
  BY DEF Create, Carried

\* ... a new point, ...
LEMMA PlaceCreates ==
  ASSUME PlacePoint
  PROVE  \E rec, q : /\ Begin(rec, Released(op)) /\ Unsent(rec) /\ ~rec.applied
                     /\ Creates(rec, {}) /\ rec.kind = "place"
                     /\ rec.stages = <<{q}>> /\ Todo(rec) = {q} /\ q.do = "create" /\ q.objs # <<>>
<1> DEFINE q == Create(<<NewPoint>>)
           rec == [Free EXCEPT !.kind = "place", !.stages = <<{q}>>]
<1>1. Begin(rec, Released(op)) /\ server' = server /\ cache' = cache
  BY DEF PlacePoint
<1>2. Fresh(rec, "place", 0, <<{q}>>, NoEntry, None)
  BY DEF Fresh, Free
<1>3. Range(<<NewPoint>>) = {NewPoint}
  BY DEF Range
<1>4. q.do = "create" /\ Carried(q) = {NewPoint}
  BY <1>3, OneCreate
<1> HIDE DEF q, rec
<1>5. Unsent(rec) /\ Todo(rec) = {q}
  BY <1>2, OneStage, FreshUnsent
<1>6. Load(rec) = {NewPoint}
  BY <1>4, <1>5 DEF Load
<1>7. rec.entry = NoEntry /\ rec.entry.ids = {} /\ DOMAIN rec.entry.objs = {} /\ rec.kind = "place"
  BY <1>2, NoMap DEF NoEntry, Fresh
<1>8. Creates(rec, {})
  BY <1>4, <1>5, <1>6, <1>7, NewPointGrown DEF Creates
<1>9. ~rec.applied /\ rec.stages = <<{q}>> /\ q.objs # <<>>
  BY <1>2 DEF Fresh, q, Create
<1>10. QED
  BY <1>1, <1>4, <1>5, <1>7, <1>8, <1>9

LEMMA PlacePointAgrees ==
  ASSUME Agree, TypeInv, PlacePoint, ~drift'
  PROVE  Agree'
<1>1. PICK rec : Begin(rec, Released(op)) /\ Unsent(rec) /\ Creates(rec, {})
  BY PlaceCreates
<1>2. server' = server /\ cache' = cache
  BY DEF PlacePoint
<1>3. QED
  BY <1>1, <1>2, CreatesBegin

\* ... a paste, ...
LEMMA PasteCreates ==
  ASSUME Paste
  PROVE  \E rec, q : /\ Begin(rec, op) /\ Unsent(rec) /\ ~rec.applied
                     /\ Creates(rec, {}) /\ rec.kind = "paste"
                     /\ rec.stages = <<{q}>> /\ Todo(rec) = {q} /\ q.do = "create" /\ q.objs # <<>>
<1> DEFINE line == [NewPoint EXCEPT !.ends = @ \o <<Place(1)>>]
           q == Create(<<NewPoint, line>>)
           rec == [Free EXCEPT !.kind = "paste", !.stages = <<{q}>>]
<1>1. Begin(rec, op) /\ server' = server /\ cache' = cache
  BY DEF Paste
<1>2. Fresh(rec, "paste", 0, <<{q}>>, NoEntry, None)
  BY DEF Fresh, Free
<1>3. \A ids : Grown(line, ids)
  <2>1. line.ends = <<Place(0)>> \o <<Place(1)>>
    BY DEF NewPoint
  <2>2. Range(line.ends) = {Place(0), Place(1)}
    <3> DEFINE a == Place(0)
               b == Place(1)
               s == <<a>> \o <<b>>
    <3> HIDE DEF a, b
    <3>1. Len(s) = 2 /\ DOMAIN s = 1..2 /\ s[1] = a /\ s[2] = b
      OBVIOUS
    <3> HIDE DEF s
    <3>2. Range(s) = {a, b}
      BY <3>1 DEF Range
    <3>3. QED
      BY <2>1, <3>2 DEF s, a, b
  <2>3. QED
    BY <2>2 DEF Grown, New
<1> HIDE DEF line
<1>4. Range(<<NewPoint, line>>) = {NewPoint, line}
  BY DEF Range
<1>5. q.do = "create" /\ Carried(q) = {NewPoint, line}
  BY <1>4, OneCreate
<1> HIDE DEF q, rec
<1>6. Unsent(rec) /\ Todo(rec) = {q} /\ rec.stages = <<{q}>>
  <2>1. Unsent(rec) /\ Todo(rec) = {q}
    BY <1>2, OneStage, FreshUnsent
  <2>2. QED
    BY <1>2, <2>1 DEF Fresh
<1>7. Load(rec) = {NewPoint, line}
  BY <1>5, <1>6 DEF Load
<1>8. rec.entry = NoEntry /\ rec.entry.ids = {} /\ DOMAIN rec.entry.objs = {} /\ rec.kind = "paste"
  BY <1>2, NoMap DEF NoEntry, Fresh
<1>9. Creates(rec, {})
  BY <1>3, <1>5, <1>6, <1>7, <1>8, NewPointGrown DEF Creates
<1>10. ~rec.applied /\ q.objs # <<>>
  BY <1>2 DEF Fresh, q, Create
<1>11. QED
  BY <1>1, <1>5, <1>6, <1>8, <1>9, <1>10

LEMMA PasteAgrees ==
  ASSUME Agree, TypeInv, Paste, ~drift'
  PROVE  Agree'
<1>1. PICK rec : Begin(rec, op) /\ Unsent(rec) /\ Creates(rec, {})
  BY PasteCreates
<1>2. server' = server /\ cache' = cache
  BY DEF Paste
<1>3. QED
  BY <1>1, <1>2, CreatesBegin

\* ... a split, ...
LEMMA SplitCreates ==
  ASSUME TypeInv, NEW i \in DOMAIN cache, SplitLine(i)
  PROVE  \E rec, c, u, d :
           /\ Begin(rec, Released(op)) /\ Unsent(rec) /\ ~rec.applied
           /\ Creates(rec, {i}) /\ rec.kind = "split" /\ rec.entry.undo = "split"
           /\ rec.entry.objs[i] = Geometry(cache[i])
           /\ rec.stages = <<{c}, {u}, {d}>> /\ Todo(rec) = {c, u, d}
           /\ c.do = "create" /\ c.objs = <<NewPoint>>
           /\ u.do = "update" /\ u.ids = {i} /\ DOMAIN u.objs[1] = {"ends", "path"}
           /\ d.do = "create" /\ \E x : d.objs = <<x>> /\ IsLine(x)
<1> DEFINE line == cache[i]
           half == [ends |-> <<line.ends[1], Place(0)>>, path |-> edits + 1]
           second == [line EXCEPT !.ends = <<Place(0), @[2]>>, !.path = edits + 1]
           point == Create(<<NewPoint>>)
           patch == Update(i, half)
           other == Create(<<second>>)
           stages == <<{point}, {patch}, {other}>>
           entry == [undo |-> "split", ids |-> {i}, objs |-> Geometries(cache, {i})]
           rec == [Free EXCEPT !.kind = "split", !.stages = stages, !.entry = entry]
<1>1. Begin(rec, Released(op)) /\ server' = server /\ cache' = cache /\ IsLine(line)
  BY DEF SplitLine
<1>2. Fresh(rec, "split", 0, stages, entry, None)
  BY DEF Fresh, Free
<1>3. /\ entry.ids = {i} /\ DOMAIN entry.objs = {i} /\ entry.objs[i].ends = cache[i].ends
      /\ IsLine(entry.objs[i])
  BY <1>1 DEF Geometries, Geometry, IsLine
<1>4. line.ends[1] \in Range(line.ends) /\ line.ends[2] \in Range(line.ends)
  <2>1. line \in Obj(edits)
    BY DEF TypeInv, MapsTyped, Map
  <2>2. line.ends \in Seq(Places(edits)) /\ Len(line.ends) = 2
    BY <1>1, <2>1 DEF Obj, IsLine
  <2>3. 1 \in DOMAIN line.ends /\ 2 \in DOMAIN line.ends
    BY <2>2
  <2>4. QED
    BY <2>3 DEF Range
<1>5. Range(half.ends) = {line.ends[1], Place(0)}
  BY DEF Range
<1>6. Range(second.ends) = {Place(0), line.ends[2]}
  <2>1. second.ends = <<Place(0), line.ends[2]>>
    BY DEF TypeInv, MapsTyped, Map, Obj
  <2>2. QED
    BY <2>1 DEF Range
<1> HIDE DEF half, second
<1>7. Grown(half, {i}) /\ Grown(second, {i})
  BY <1>1, <1>4, <1>5, <1>6 DEF Grown, New
<1>8. patch.do = "update" /\ patch.ids = {i} /\ patch.objs[1] = half
  BY DEF Update
<1>9. Carried(patch) = {half}
  BY <1>8 DEF Carried
<1>10. Range(<<NewPoint>>) = {NewPoint} /\ Range(<<second>>) = {second}
  BY DEF Range
<1>11. /\ point.do = "create" /\ Carried(point) = {NewPoint}
       /\ other.do = "create" /\ Carried(other) = {second}
  BY <1>10, OneCreate
<1> HIDE DEF point, patch, other, entry, rec
<1>12. stages \in Seq({{point}, {patch}, {other}}) /\ stages # <<>>
  OBVIOUS
<1>13. Requests(stages) = {point, patch, other}
  <2>1. DOMAIN stages = {1, 2, 3} /\ stages[1] = {point} /\ stages[2] = {patch} /\ stages[3] = {other}
    OBVIOUS
  <2> HIDE DEF stages
  <2>2. QED
    BY <2>1 DEF Requests
<1> HIDE DEF stages
<1>14. Unsent(rec) /\ Todo(rec) = {point, patch, other}
  BY <1>2, <1>12, <1>13, FreshUnsent
<1>15. Load(rec) = {NewPoint, half, second}
  BY <1>9, <1>11, <1>14 DEF Load
<1>16. rec.entry = entry /\ rec.kind = "split"
  BY <1>2 DEF Fresh
<1>17. Creates(rec, {i})
  BY <1>3, <1>7, <1>8, <1>11, <1>14, <1>15, <1>16, NewPointGrown DEF Creates
<1>18. /\ point.objs = <<NewPoint>> /\ other.objs = <<second>> /\ IsLine(second)
       /\ DOMAIN half = {"ends", "path"}
  <2>1. point.objs = <<NewPoint>> /\ other.objs = <<second>>
    BY DEF point, other, Create
  <2>2. Len(second.ends) = 2
    BY DEF second, TypeInv, MapsTyped, Map, Obj
  <2>3. QED
    BY <2>1, <2>2 DEF IsLine, half
<1>19. /\ ~rec.applied /\ rec.stages = <<{point}, {patch}, {other}>>
       /\ entry.undo = "split" /\ entry.objs[i] = Geometry(cache[i])
  BY <1>2 DEF Fresh, stages, entry, Geometries
<1>20. QED
  BY <1>1, <1>8, <1>11, <1>14, <1>16, <1>17, <1>18, <1>19

LEMMA SplitLineAgrees ==
  ASSUME Agree, TypeInv, NEW i \in DOMAIN cache, SplitLine(i), ~drift'
  PROVE  Agree'
<1>1. PICK rec : Begin(rec, Released(op)) /\ Unsent(rec) /\ Creates(rec, {i})
  BY SplitCreates
<1>2. server' = server /\ cache' = cache
  BY DEF SplitLine
<1>3. QED
  BY <1>1, <1>2, CreatesBegin

\* The tab finds every line on a point that the backend would find in the same map.
LEMMA TabFinds ==
  ASSUME NEW m, NEW ids PROVE Expand(m, ids) \subseteq TabExpand(m, ids)
<1>1. \A i : Linked(m, i) \subseteq TabLinked(m, i)
  BY DEF Linked, TabLinked, Matches
<1>2. QED
  BY <1>1 DEF Expand, TabExpand

\* What is in nobody's way and deleted is in the backend as the cache shows it.
LEMMA DeletedKnown ==
  ASSUME NEW ids \in SUBSET DOMAIN cache,
         \A i \in TabExpand(cache, ids) : Settled(i, server, cache)
  PROVE  /\ TabExpand(cache, ids) \subseteq DOMAIN server
         /\ \A i \in TabExpand(cache, ids) : server[i] = cache[i]
  BY TabExpandTyped DEF Settled

\* The lines that others have on the way are not on the points deleted.
LEMMA OthersSpared ==
  ASSUME Agree, TypeInv, ~SomeLost, NEW ids \in SUBSET DOMAIN cache, NEW entry,
         ~InTheWay(entry), entry.ids = TabExpand(cache, ids),
         TabExpand(cache, ids) \subseteq DOMAIN server,
         \A i \in TabExpand(cache, ids) : server[i] = cache[i],
         NEW p \in Ops, Editing(op[p]), NEW x \in Load(op[p]), IsLine(x),
         NEW t \in ids, ~IsLine(server[t])
  PROVE  server[t].ends[1] \notin Range(x.ends)
<1> DEFINE all == TabExpand(cache, ids)
           rec == op[p]
           e == server[t].ends[1]
<1>1. t \in all /\ ids \subseteq all /\ t \in DOMAIN server /\ server[t] = cache[t]
  BY TabExpandTyped
<1>2. /\ all \cap Mine(rec) = {} /\ t \notin Hooks(rec.entry)
  BY <1>1 DEF InTheWay, Mine
<1>3. PICK q \in Todo(rec) : x \in Carried(q)
  BY DEF Load
<1>4. SUFFICES ASSUME e \in Range(x.ends) PROVE FALSE
  OBVIOUS
<1>5. /\ Orderly(rec) /\ Holds(rec, server, cache) /\ Around(rec, server, cache)
      /\ OpTyped(rec, edits, nextId, seq) /\ ~Lost(rec, seq)
  BY DEF Agree, TypeInv, OpsTyped, SomeLost
<1>6. CASE rec.kind \in {"move", "group", "detail"}
  <2>1. UpdaterHolds(rec, server, cache)
    BY <1>5, <1>6 DEF Holds
  <2>2. PICK i \in rec.entry.ids :
          /\ q.do = "update" /\ \A f \in DOMAIN q.objs[1] : q.objs[1][f] = cache[i][f]
    BY <2>1 DEF UpdaterHolds
  <2>3. x = q.objs[1] /\ i \in DOMAIN cache /\ x \in Part(edits)
    BY <1>3, <1>5, <2>1, <2>2 DEF Carried, UpdaterHolds, OpTyped, RequestTyped
  <2>4. x.ends = cache[i].ends
    <3>1. "ends" \in DOMAIN x
      BY <2>3 DEF Part, Shape, Obj
    <3>2. QED
      BY <2>2, <2>3, <3>1
  <2>5. i \in Linked(cache, t)
    BY <1>1, <1>4, <2>3, <2>4 DEF Linked, IsLine
  <2>6. i \in all
    BY <2>5, TabFinds DEF Expand
  <2>7. QED
    BY <1>2, <2>6 DEF Mine
<1>7. CASE rec.kind = "delete"
  <2>1. \A r \in Todo(rec) : r.do = "delete"
    BY <1>5, <1>7 DEF Holds, DeleterHolds
  <2>2. QED
    BY <1>3, <2>1 DEF Carried
<1>8. CASE rec.kind \in {"place", "split", "paste"}
  <2>1. CASE e \in Own(rec)
    <3>1. Harmless(server[t], rec, server)
      BY <1>1, <1>2, <1>5 DEF Around
    <3>2. e \in Range(server[t].ends)
      <4>1. server[t] \in Obj(edits)
        BY <1>1 DEF TypeInv, MapsTyped, Map
      <4>2. server[t].ends \in Seq(Places(edits)) /\ Len(server[t].ends) \in {1, 2}
        BY <4>1 DEF Obj
      <4>3. 1 \in DOMAIN server[t].ends
        BY <4>2
      <4>4. QED
        BY <4>3 DEF Range
    <3>3. QED
      BY <2>1, <3>1, <3>2 DEF Harmless
  <2>2. CASE e \notin Own(rec)
    <3>1. e \in Spots(Range(rec.entry.objs))
      BY <1>4, <2>2 DEF Own, Spots
    <3>2. PICK obj \in Range(rec.entry.objs) : e \in Range(obj.ends)
      BY <3>1 DEF Spots
    <3>3. rec.kind = "split"
      <4>1. Range(None) = {}
        BY NoMap DEF Range
      <4>2. QED
        BY <1>5, <1>8, <3>2, <4>1 DEF Orderly, NoEntry
    <3>4. PICK l \in DOMAIN rec.entry.objs : obj = rec.entry.objs[l]
      BY <3>2 DEF Range
    <3>5. IsLine(obj) /\ l \notin Linked(server, t)
      <4>1. l \in Mine(rec)
        BY <1>5, <3>3, <3>4 DEF Orderly, Mine
      <4>2. l \notin Expand(server, all)
        <5>1. entry.ids \cap DOMAIN server = all
          OBVIOUS
        <5>2. ASSUME NEW j \in Expand(server, entry.ids \cap DOMAIN server) PROVE j \notin Mine(rec)
          BY <5>2 DEF InTheWay, Mine
        <5>3. QED
          BY <4>1, <5>1, <5>2
      <4>3. l \notin Linked(server, t)
        BY <1>1, <4>2 DEF Expand
      <4>4. QED
        BY <1>5, <3>3, <3>4, <4>3 DEF Orderly
    <3>6. t \in Hooks(rec.entry)
      BY <1>1, <3>2, <3>4, <3>5 DEF Hooks
    <3>7. QED
      BY <1>2, <3>6
  <2>3. QED
    BY <2>1, <2>2
<1>9. QED
  BY <1>5, <1>6, <1>7, <1>8 DEF Orderly, Kinds, Editing, Lost

\* ... and a delete begin.
LEMMA DeleteSelectionAgrees ==
  ASSUME Agree, TypeInv, ~SomeLost, NEW ids \in SUBSET DOMAIN cache, DeleteSelection(ids), ~drift'
  PROVE  Agree'
<1> DEFINE all == TabExpand(cache, ids)
           q == Delete(ids)
           entry == [undo |-> "restore", ids |-> all, objs |-> Only(cache, all)]
           rec == [Free EXCEPT !.kind = "delete", !.stages = <<{q}>>, !.snap = cache, !.entry = entry]
<1>1. Begin(rec, Released(op)) /\ server' = server /\ cache' = Removed(cache, all)
  BY DEF DeleteSelection
<1>2. Fresh(rec, "delete", 0, <<{q}>>, entry, cache)
  BY DEF Fresh, Free
<1>3. q.do = "delete" /\ q.ids = ids /\ Carried(q) = {} /\ entry.ids = all
  BY DEF Delete, Carried
<1> HIDE DEF q, rec, entry
<1>4. Unsent(rec) /\ Todo(rec) = {q}
  BY <1>2, OneStage, FreshUnsent
<1>5. Load(rec) = {} /\ Targets(rec) = ids
  BY <1>3, <1>4 DEF Load, Targets
<1>6. rec.kind = "delete" /\ rec.entry = entry /\ rec.stages = <<{q}>>
  BY <1>2 DEF Fresh
<1>7. ~InTheWay(entry) /\ ~Misjudged(rec)
  BY <1>1, <1>6 DEF Begin
<1>8. /\ all \subseteq DOMAIN server /\ \A i \in all : server[i] = cache[i]
      /\ Expand(server, ids) = all /\ ids \subseteq all /\ all \subseteq DOMAIN cache
  <2>1. \A i \in all : Settled(i, server, cache)
    BY <1>3, <1>7, NobodysSettled
  <2>2. all \subseteq DOMAIN server /\ \A i \in all : server[i] = cache[i]
    BY <2>1, DeletedKnown
  <2>3. Expand(server, ids) = all
    BY <1>3, <1>6, <1>7 DEF Misjudged
  <2>4. QED
    BY <2>2, <2>3, TabExpandTyped
<1>9. /\ DOMAIN cache' = DOMAIN cache \ all
      /\ \A i \in DOMAIN cache \ all : cache'[i] = cache[i]
  BY <1>1 DEF Removed, Only
<1>10. Ready(rec)
  <2>1. Own(rec) = {}
    BY <1>5 DEF Own, Spots
  <2>2. \A i : i \notin all => Alike(i, cache, cache')
    BY <1>9 DEF Alike
  <2>3. rec.kind \in Kinds /\ Editing(rec)
    BY <1>6 DEF Kinds, Editing
  <2>4. QED
    BY <1>3, <1>4, <1>5, <1>6, <1>9, <2>1, <2>2, <2>3 DEF Ready, Unsent
<1>11. Holds(rec, server, cache')
  <2>1. DOMAIN rec.got = {}
    BY <1>4, NoMap DEF Unsent
  <2>2. DeleterHolds(rec, server, cache')
    BY <1>3, <1>4, <1>5, <1>6, <1>8, <1>9, <2>1 DEF DeleterHolds
  <2>3. QED
    BY <1>3, <1>5, <1>6, <1>8, <2>1, <2>2 DEF Holds
<1>12. \A e \in Doors(rec, server) : \E t \in ids : t \in DOMAIN server /\ ~IsLine(server[t]) /\ e = server[t].ends[1]
  BY <1>5 DEF Doors
<1>13. \A i \in DOMAIN server \ all : Spared(rec, server[i])
  <2>1. SUFFICES ASSUME NEW i \in DOMAIN server \ all, IsLine(server[i]), NEW t \in ids,
                        t \in DOMAIN server, ~IsLine(server[t]), server[t].ends[1] \in Range(server[i].ends)
                 PROVE  FALSE
    BY <1>12 DEF Spared
  <2>2. i \in Linked(server, t)
    BY <2>1 DEF Linked
  <2>3. i \in Expand(server, ids)
    BY <2>2 DEF Expand
  <2>4. QED
    BY <1>8, <2>3
<1>14. \A i \in DOMAIN cache \ all : Spared(rec, cache[i])
  <2>1. SUFFICES ASSUME NEW i \in DOMAIN cache \ all, IsLine(cache[i]), NEW t \in ids,
                        t \in DOMAIN server, ~IsLine(server[t]), server[t].ends[1] \in Range(cache[i].ends)
                 PROVE  FALSE
    BY <1>12 DEF Spared
  <2>2. server[t] = cache[t]
    BY <1>8
  <2>3. i \in Linked(cache, t)
    BY <2>1, <2>2 DEF Linked
  <2>4. i \in all
    BY <2>3, TabFinds DEF Expand
  <2>5. QED
    BY <2>4
<1>15. \A p \in Ops : Editing(op[p]) => \A x \in Load(op[p]) : Spared(rec, x)
  <2>1. SUFFICES ASSUME NEW p \in Ops, Editing(op[p]), NEW x \in Load(op[p]), IsLine(x), NEW t \in ids,
                        t \in DOMAIN server, ~IsLine(server[t]), server[t].ends[1] \in Range(x.ends)
                 PROVE  FALSE
    BY <1>12 DEF Spared
  <2>2. QED
    BY <1>3, <1>7, <1>8, <2>1, OthersSpared
<1>16. QED
  BY <1>1, <1>3, <1>6, <1>10, <1>11, <1>13, <1>14, <1>15, BeginAgrees

LEMMA EditsAgree ==
  ASSUME Agree, TypeInv, ~SomeLost, Edits, ~drift'
  PROVE  Agree'
  BY MoveAgrees, MoveGroupAgrees, SaveDetailAgrees, DeleteSelectionAgrees, PlacePointAgrees,
     SplitLineAgrees, PasteAgrees DEF Edits

LEMMA UndoAgrees ==
  ASSUME Agree, TypeInv, NEW o \in Ops, Undo(o)
  PROVE  Agree'
<1> DEFINE entry == stack[Len(stack)]
           rec == [Free EXCEPT !.kind = "undo", !.entry = entry, !.stages = UndoStages(entry)]
<1>1. /\ op[o] = Free /\ server' = server /\ cache' = cache
      /\ op' \in {[op EXCEPT ![o] = r] : r \in Send(rec)}
  BY DEF Undo
<1>2. PICK r \in Send(rec) : op' = [op EXCEPT ![o] = r]
  BY <1>1
<1>3. "kind" \in DOMAIN rec /\ "err" \in DOMAIN rec /\ rec.kind = "undo" /\ rec.err = "none"
  BY DEF Free
<1> HIDE DEF rec
<1>4. \E x, y : r = [rec EXCEPT !.sent = x, !.stages = y]
  BY DEF Send
<1>5. r.kind = "undo" /\ r.err = "none"
  BY <1>3, <1>4
<1>6. Orderly(r) /\ ~Editing(r) /\ ~Editing(op[o])
  BY <1>1, <1>5 DEF Orderly, Kinds, Editing, Free
<1>7. Becomes(o, r)
  BY <1>2, OneBecomes DEF TypeInv, OpsTyped
<1>8. QED
  BY <1>1, <1>6, <1>7, OnlookerStep

-------------------------------------------------------------------------------
(* The refetch.                                                               *)

LEMMA IdleTodo ==
  ASSUME NEW o \in Ops, o \notin Optimistic, op[o].kind \in {"move", "group", "detail", "delete"}
  PROVE  Todo(op[o]) = {} /\ op[o].err # "failed"
<1>1. op[o].stages = <<>> /\ op[o].sent = {} /\ op[o].err # "failed"
  BY DEF Optimistic
<1>2. QED
  BY <1>1, NoStages DEF Todo

\* The cache becomes the backend's map, which no edit has a patch on the way to.
LEMMA RefetchHolds ==
  ASSUME Agree, TypeInv, NEW o \in Ops, Editing(op[o]), Optimistic = {}
  PROVE  Holds(op[o], server, server) /\ Around(op[o], server, server)
<1> DEFINE rec == op[o]
<1>1. Holds(rec, server, cache) /\ Around(rec, server, cache)
  BY DEF Agree
<1>2. CASE rec.kind \in {"move", "group", "detail"}
  <2>1. Todo(rec) = {} /\ rec.err # "failed"
    BY <1>2, IdleTodo
  <2>2. UpdaterHolds(rec, server, cache)
    BY <1>1, <1>2 DEF Holds
  <2>3. rec.entry.ids \subseteq DOMAIN server /\ DOMAIN rec.got \subseteq rec.entry.ids
    BY <2>2 DEF UpdaterHolds
  <2>4. UpdaterHolds(rec, server, server)
    BY <2>1, <2>3 DEF UpdaterHolds
  <2>5. QED
    BY <1>1, <1>2, <2>4 DEF Holds, Around
<1>3. CASE rec.kind = "delete"
  <2>1. Todo(rec) = {}
    BY <1>3, IdleTodo
  <2>2. DeleterHolds(rec, server, cache)
    BY <1>1, <1>3 DEF Holds
  <2>3. DeleterHolds(rec, server, server)
    BY <2>1, <2>2 DEF DeleterHolds
  <2>4. QED
    BY <1>1, <1>3, <2>3 DEF Holds, Around
<1>4. CASE rec.kind \in {"place", "split", "paste"}
  <2>1. CreatorHolds(rec, server, cache)
    BY <1>1, <1>4 DEF Holds
  <2>2. CreatorHolds(rec, server, server)
    BY <2>1 DEF CreatorHolds, Settled
  <2>3. QED
    BY <1>1, <1>4, <2>2 DEF Holds, Around
<1>5. CASE rec.kind \notin {"move", "group", "detail", "delete", "place", "split", "paste"}
  BY <1>1, <1>5 DEF Holds, Around
<1>6. QED
  BY <1>2, <1>3, <1>4, <1>5

\* With nothing under way, and the cache just read, nothing is out of date.
LEMMA NothingAgrees ==
  ASSUME cache' = server', \A o \in Ops : op'[o] = Free
  PROVE  Agree'
<1>1. Orderly(Free) /\ ~Editing(Free)
  BY DEF Orderly, Kinds, Editing, Free
<1>2. \A o \in Ops : Orderly(op'[o]) /\ ~Editing(op'[o])
  BY <1>1
<1>3. \A i \in DOMAIN server' \cup DOMAIN cache' : Settled(i, server', cache')
  BY DEF Settled
<1>4. QED
  BY <1>2, <1>3 DEF Agree

\* The answer of a refetch: with no cause left it is what the backend has.
LEMMA AnswerAgrees ==
  ASSUME CacheInv, ~SomeLost, TypeInv, FetchAnswer, ~drift'
  PROVE  Agree'
<1>1. /\ cache' = fetch.data /\ server' = server /\ op' = Released(op) /\ fetch.data = server
      /\ Optimistic = {} /\ ~(drift /\ \E o \in Ops : Released(op)[o] # Free)
  BY DEF FetchAnswer
<1>2. CASE drift
  BY <1>1, <1>2, NothingAgrees
<1>3. CASE ~drift
  <2>1. Agree
    BY <1>3 DEF CacheInv
  <2>2. \A o \in Ops : op'[o] = op[o]
    BY <1>1, <2>1, NobodyAwaits DEF TypeInv, OpsTyped
  <2>3. \A o \in Ops : Orderly(op'[o])
    BY <2>1, <2>2 DEF Agree
  <2>4. \A o \in Ops : Editing(op'[o]) => Holds(op'[o], server', cache') /\ Around(op'[o], server', cache')
    BY <1>1, <2>1, <2>2, RefetchHolds
  <2>5. \A o, p \in Ops : o # p /\ Editing(op'[o]) /\ Editing(op'[p]) => Apart(op'[o], op'[p], server')
    BY <1>1, <2>1, <2>2 DEF Agree
  <2>6. \A i \in DOMAIN server' \cup DOMAIN cache' : Settled(i, server', cache')
    BY <1>1 DEF Settled
  <2>7. QED
    BY <2>3, <2>4, <2>5, <2>6 DEF Agree
<1>4. QED
  BY <1>2, <1>3

-------------------------------------------------------------------------------
(* An edit that is lost stays so, until the cache is known to have drifted.    *)

\* A lost edit stays lost while it stands, newer drags included, ...
LEMMA LostStays ==
  ASSUME TypeInv, NEW o \in Ops, Lost(op[o], seq), op'[o] = op[o], seq' \in {seq, seq + 1}
  PROVE  SomeLost'
<1>1. seq \in Nat /\ op[o].seq \in 0..seq
  BY DEF TypeInv, OpsTyped, MapsTyped, OpTyped
<1>2. op[o].seq # seq => op[o].seq # seq'
  BY <1>1
<1>3. Lost(op'[o], seq')
  BY <1>2 DEF Lost
<1>4. QED
  BY <1>3 DEF SomeLost

\* A step of coroutine p, by which it becomes r and others may be released.
Moves(p) == \E r, f : (f = op \/ f = Released(op)) /\ op' = [f EXCEPT ![p] = r]

\* ... while another coroutine steps, ...
LEMMA LostBeside ==
  ASSUME TypeInv, NEW o \in Ops, Lost(op[o], seq), NEW p \in Ops \ {o}, Moves(p), seq' \in {seq, seq + 1}
  PROVE  SomeLost'
<1>1. PICK r, f : (f = op \/ f = Released(op)) /\ op' = [f EXCEPT ![p] = r]
  BY DEF Moves
<1>2. DOMAIN op = Ops
  BY DEF TypeInv, OpsTyped
<1>3. Released(op)[o] = op[o] /\ DOMAIN Released(op) = Ops
  BY <1>2 DEF Released, Lost
<1>4. op'[o] = op[o]
  BY <1>1, <1>2, <1>3
<1>5. QED
  BY <1>4, LostStays

\* ... and when undos are released.
LEMMA LostReleased ==
  ASSUME TypeInv, NEW o \in Ops, Lost(op[o], seq), op' = op \/ op' = Released(op), seq' = seq
  PROVE  SomeLost'
<1>1. Released(op)[o] = op[o]
  BY DEF Released, Lost
<1>2. QED
  BY <1>1, LostStays

LEMMA BeginMoves ==
  ASSUME NEW rec, NEW f, f = op \/ f = Released(op), Begin(rec, f)
  PROVE  \E p \in Ops : op[p] = Free /\ Moves(p)
<1>1. PICK p \in Ops : op[p] = Free /\ op' \in {[f EXCEPT ![p] = r] : r \in Send(rec)}
  BY DEF Begin
<1>2. QED
  BY <1>1 DEF Moves

LEMMA EditBegins ==
  ASSUME Edits
  PROVE  \E rec, f : (f = op \/ f = Released(op)) /\ Begin(rec, f)
<1>1. ASSUME NEW i \in DOMAIN cache, Move(i) PROVE \E rec : Begin(rec, op)
  BY <1>1 DEF Move
<1>2. ASSUME NEW i \in DOMAIN cache, SaveDetail(i) PROVE \E rec : Begin(rec, op)
  BY <1>2 DEF SaveDetail
<1>3. ASSUME NEW i \in DOMAIN cache, SplitLine(i) PROVE \E rec : Begin(rec, Released(op))
  BY <1>3 DEF SplitLine
<1>4. ASSUME NEW ids \in SUBSET DOMAIN cache, MoveGroup(ids) PROVE \E rec : Begin(rec, op)
  BY <1>4 DEF MoveGroup
<1>5. ASSUME NEW ids \in SUBSET DOMAIN cache, DeleteSelection(ids) PROVE \E rec : Begin(rec, Released(op))
  BY <1>5 DEF DeleteSelection
<1>6. ASSUME PlacePoint PROVE \E rec : Begin(rec, Released(op))
  BY <1>6 DEF PlacePoint
<1>7. ASSUME Paste PROVE \E rec : Begin(rec, op)
  BY <1>7 DEF Paste
<1>8. QED
  BY <1>1, <1>2, <1>3, <1>4, <1>5, <1>6, <1>7 DEF Edits

LEMMA LostEdits ==
  ASSUME TypeInv, SomeLost, Edits
  PROVE  SomeLost'
<1>1. PICK p \in Ops : op[p] = Free /\ Moves(p)
  BY EditBegins, BeginMoves
<1>2. seq' \in {seq, seq + 1}
  BY DEF Edits, Move, MoveGroup, SaveDetail, DeleteSelection, PlacePoint, SplitLine, Paste, undoVars
<1>3. PICK o \in Ops : Lost(op[o], seq)
  BY DEF SomeLost
<1>4. o # p
  BY <1>1, <1>3 DEF Lost, Free
<1>5. QED
  BY <1>1, <1>2, <1>3, <1>4, LostBeside

LEMMA LostUndo ==
  ASSUME TypeInv, SomeLost, NEW p \in Ops, Undo(p)
  PROVE  SomeLost'
<1>1. op[p] = Free /\ seq' = seq /\ Moves(p)
  BY DEF Undo, Moves
<1>2. PICK o \in Ops : Lost(op[o], seq)
  BY DEF SomeLost
<1>3. o # p
  BY <1>1, <1>2 DEF Lost, Free
<1>4. QED
  BY <1>1, <1>2, <1>3, LostBeside

\* Requests of a lost edit that are still carried out do not find it again.
LEMMA LostGoesOn ==
  ASSUME NEW rec, Lost(rec, seq), DOMAIN rec = DOMAIN Free, NEW q
  PROVE  /\ Lost(Failed(rec, q), seq)
         /\ \A r \in GoOn(Served(rec, q)) : Lost(r, seq)
<1>1. /\ "kind" \in DOMAIN rec /\ "err" \in DOMAIN rec /\ "seq" \in DOMAIN rec
      /\ "applied" \in DOMAIN rec /\ "sent" \in DOMAIN rec /\ "got" \in DOMAIN rec
  BY DEF Free
<1>2. /\ Failed(rec, q).kind = rec.kind /\ Failed(rec, q).err = "failed"
      /\ Failed(rec, q).applied = rec.applied /\ Failed(rec, q).seq = rec.seq
  BY <1>1 DEF Failed
<1>3. Lost(Failed(rec, q), seq)
  BY <1>2 DEF Lost
<1>4. ASSUME NEW r \in GoOn(Served(rec, q)) PROVE Lost(r, seq)
  <2>1. PICK x, y : Served(rec, q) = [rec EXCEPT !.sent = x, !.applied = TRUE, !.got = y]
    BY DEF Served
  <2> DEFINE s == Served(rec, q)
  <2>2. /\ s.kind = rec.kind /\ s.err = rec.err /\ s.seq = rec.seq /\ s.applied = TRUE
        /\ DOMAIN s = DOMAIN rec
    BY <1>1, <2>1
  <2> HIDE DEF s
  <2>3. r = s \/ r \in Send(s)
    BY DEF GoOn, s
  <2>4. r = s \/ \E u, v : r = [s EXCEPT !.sent = u, !.stages = v]
    BY <2>3 DEF Send
  <2>5. r.kind = s.kind /\ r.err = s.err /\ r.seq = s.seq /\ r.applied = s.applied
    BY <1>1, <2>2, <2>4
  <2>6. QED
    BY <2>2, <2>5 DEF Lost
<1>5. QED
  BY <1>3, <1>4

LEMMA LostRequests ==
  ASSUME TypeInv, SomeLost, NEW p \in Ops, Serve(p) \/ RequestFails(p)
  PROVE  SomeLost'
<1>1. DOMAIN op = Ops /\ seq' = seq /\ DOMAIN op[p] = DOMAIN Free
  BY DEF Serve, RequestFails, undoVars, TypeInv, OpsTyped, OpTyped
<1>2. PICK q \in op[p].sent :
        \/ op' \in {[op EXCEPT ![p] = r] : r \in GoOn(Served(op[p], q))}
        \/ op' = [op EXCEPT ![p] = Failed(op[p], q)]
  BY DEF Serve, RequestFails
<1>3. PICK r : /\ r \in GoOn(Served(op[p], q)) \/ r = Failed(op[p], q)
               /\ op' = [op EXCEPT ![p] = r]
  BY <1>2
<1>4. PICK o \in Ops : Lost(op[o], seq)
  BY DEF SomeLost
<1>5. CASE o = p
  <2>1. Lost(r, seq')
    BY <1>1, <1>3, <1>4, <1>5, LostGoesOn
  <2>2. op'[p] = r
    BY <1>1, <1>3
  <2>3. QED
    BY <2>1, <2>2 DEF SomeLost
<1>6. CASE o # p
  <2>1. Moves(p)
    BY <1>3 DEF Moves
  <2>2. QED
    BY <1>1, <1>4, <1>6, <2>1, LostBeside
<1>7. QED
  BY <1>5, <1>6

LEMMA EndMoves ==
  ASSUME TypeInv, NEW p \in Ops, EditEnds(p)
  PROVE  seq' = seq /\ Moves(p)
<1>1. seq' = seq
  BY DEF EditEnds, MoveSaved, MoveFailed, GroupSaved, GroupFailed, DetailSaved, DetailFailed,
         Deleted, DeleteFailed, Placed, PlaceFailed, SplitDone, SplitFailed, Pasted, PasteFailed,
         UndoDone, UndoFailed, undoVars
<1>2. \/ op' = Ended(p) \/ op' = Released(Ended(p))
      \/ SplitFailed(p) \/ UndoDone(p)
  BY DEF EditEnds, MoveSaved, MoveFailed, GroupSaved, GroupFailed, DetailSaved, DetailFailed,
         Deleted, DeleteFailed, Placed, PlaceFailed, SplitDone, Pasted, PasteFailed, UndoFailed
<1>3. CASE op' = Ended(p) \/ op' = Released(Ended(p))
  <2>1. op' = [op EXCEPT ![p] = Free] \/ op' = [Released(op) EXCEPT ![p] = Free]
    BY <1>3, ReleasedEnded DEF Ended, TypeInv
  <2>2. QED
    BY <1>1, <2>1 DEF Moves
<1>4. CASE SplitFailed(p)
  <2>1. PICK x : op' = [op EXCEPT ![p] = [@ EXCEPT !.kind = "unsplit", !.err = "none",
                                                   !.stages = <<>>, !.sent = x]]
    BY <1>4 DEF SplitFailed, TypeInv, OpsTyped
  <2>2. QED
    BY <1>1, <2>1 DEF Moves
<1>5. CASE UndoDone(p)
  <2>1. op' = [op EXCEPT ![p] = [@ EXCEPT !.err = "refetch"]]
    BY <1>5 DEF UndoDone
  <2>2. QED
    BY <1>1, <2>1 DEF Moves
<1>6. QED
  BY <1>2, <1>3, <1>4, <1>5

\* At its end a lost edit declares the cache drifted off, or deletes the point of a split.
LEMMA LostEnds ==
  ASSUME TypeInv, NEW o \in Ops, Lost(op[o], seq), EditEnds(o), ~drift'
  PROVE  SomeLost'
<1>1. ~(GroupFailed(o) \/ DetailFailed(o) \/ DeleteFailed(o) \/ PlaceFailed(o) \/ UndoDone(o))
  BY DEF GroupFailed, DetailFailed, DeleteFailed, PlaceFailed, UndoDone
<1>2. ~(MoveSaved(o) \/ GroupSaved(o) \/ DetailSaved(o) \/ Deleted(o) \/ Placed(o) \/ SplitDone(o)
        \/ Pasted(o) \/ PasteFailed(o))
  BY DEF MoveSaved, GroupSaved, DetailSaved, Deleted, Placed, SplitDone, Pasted, PasteFailed,
         Done, Broken, Lost
<1>3. ~MoveFailed(o)
  BY DEF MoveFailed, Broken, HalfDone, Lost
<1>4. ~UndoFailed(o)
  BY DEF UndoFailed, Broken, HalfDone, Lost
<1>5. SplitFailed(o)
  BY <1>1, <1>2, <1>3, <1>4 DEF EditEnds
<1>6. "kind" \in DOMAIN op[o] /\ DOMAIN op = Ops
  BY DEF TypeInv, OpsTyped, OpTyped, Free
<1>7. op' = [op EXCEPT ![o].kind = "unsplit", ![o].err = "none", ![o].stages = <<>>,
                       ![o].sent = {Delete(DOMAIN op[o].got \ op[o].entry.ids)}]
  BY <1>5 DEF SplitFailed
<1>8. op'[o].kind = "unsplit"
  BY <1>6, <1>7
<1>9. QED
  BY <1>8 DEF SomeLost, Lost

\* So there is a lost edit until one ends, and declares it.
LEMMA LostStep ==
  ASSUME TypeInv, SomeLost, [Next]_vars, ~drift'
  PROVE  SomeLost'
<1>1. PICK o \in Ops : Lost(op[o], seq)
  BY DEF SomeLost
<1>2. CASE \E p \in Ops : EditEnds(p)
  <2>1. PICK p \in Ops : EditEnds(p)
    BY <1>2
  <2>2. CASE p = o
    BY <1>1, <2>1, <2>2, LostEnds
  <2>3. CASE p # o
    BY <1>1, <2>1, <2>3, EndMoves, LostBeside
  <2>4. QED
    BY <2>2, <2>3
<1>3. CASE ServeStray \/ FetchRead \/ FetchAnswer \/ Refetch \/ FetchFails \/ UNCHANGED vars
  <2>1. /\ op' = op \/ op' = Released(op)
        /\ seq' = seq
    BY <1>3 DEF ServeStray, FetchRead, FetchAnswer, Refetch, FetchFails, vars, undoVars
  <2>2. QED
    BY <1>1, <2>1, LostReleased
<1>4. CASE \E p \in Ops : Serve(p) \/ RequestFails(p)
  BY <1>4, LostRequests
<1>5. CASE \E p \in Ops : Undo(p)
  BY <1>5, LostUndo
<1>6. CASE Edits
  BY <1>6, LostEdits
<1>7. QED
  BY <1>2, <1>3, <1>4, <1>5, <1>6 DEF Next, OpSteps, FetchSteps

-------------------------------------------------------------------------------
(* Every step.                                                                *)

\* A step of a map that agrees: it agrees still, or some edit is lost.
LEMMA AgreeStep ==
  ASSUME Agree, ~SomeLost, TypeInv, [Next]_vars, ~drift'
  PROVE  SomeLost' \/ Agree'
<1>1. CASE Refetch \/ FetchRead \/ FetchFails \/ UNCHANGED vars
  <2>1. /\ UNCHANGED <<server, cache>>
        /\ op' = op \/ op' = Released(op)
    BY <1>1 DEF Refetch, FetchRead, FetchFails, vars
  <2>2. QED
    BY <2>1, AgreeStands DEF TypeInv, OpsTyped
<1>2. CASE FetchAnswer
  BY <1>2, AnswerAgrees DEF CacheInv
<1>3. CASE Edits
  BY <1>3, EditsAgree
<1>4. CASE ServeStray
  BY <1>4, StrayAgrees
<1>5. CASE \E o \in Ops : Serve(o) \/ EditEnds(o)
  BY <1>5, ServeAgrees, EndsAgree
<1>6. CASE \E o \in Ops : Undo(o) \/ RequestFails(o)
  BY <1>6, UndoAgrees, FailsAgrees
<1>7. QED
  BY <1>1, <1>2, <1>3, <1>4, <1>5, <1>6 DEF Next, OpSteps, FetchSteps

\* Only the answer of a refetch makes good for a cache that drifted off.
LEMMA DriftStep ==
  ASSUME drift, [Next]_vars, ~drift'
  PROVE  FetchAnswer
<1>1. ~(UNCHANGED vars \/ Refetch \/ FetchRead \/ FetchFails \/ ServeStray)
  BY DEF vars, history, Refetch, FetchRead, FetchFails, ServeStray
<1>2. \A o \in Ops : ~(Serve(o) \/ Undo(o) \/ RequestFails(o))
  BY DEF Serve, Undo, RequestFails, history
<1>3. \A o \in Ops : ~EditEnds(o)
  BY DEF EditEnds, MoveSaved, MoveFailed, GroupSaved, GroupFailed, DetailSaved, DetailFailed,
         Deleted, DeleteFailed, Placed, PlaceFailed, SplitDone, SplitFailed, Pasted, PasteFailed,
         UndoDone, UndoFailed, HalfDone, history
<1>4. ~Edits
  <2>1. ASSUME NEW rec, NEW f, Begin(rec, f) PROVE drift' = (drift \/ InTheWay(rec.entry) \/ Misjudged(rec))
    BY <2>1 DEF Begin
  <2>2. QED
    BY <2>1, EditBegins
<1>5. QED
  BY <1>1, <1>2, <1>3, <1>4 DEF Next, OpSteps, FetchSteps

\* The three cases together are inductive.
LEMMA CacheStep ==
  ASSUME TypeInv, CacheInv, [Next]_vars
  PROVE  CacheInv'
<1>1. SUFFICES ASSUME ~drift' PROVE SomeLost' \/ Agree'
  BY DEF CacheInv
<1>2. CASE SomeLost
  BY <1>1, <1>2, LostStep
<1>3. CASE ~SomeLost /\ drift
  BY <1>1, <1>3, DriftStep, AnswerAgrees
<1>4. CASE ~SomeLost /\ ~drift
  BY <1>1, <1>4, AgreeStep DEF CacheInv
<1>5. QED
  BY <1>2, <1>3, <1>4

LEMMA CacheInit == Init => CacheInv
<1> SUFFICES ASSUME Init PROVE Agree
  BY DEF CacheInv
<1>1. server = cache /\ op = [o \in Ops |-> Free]
  BY DEF Init
<1>2. Orderly(Free) /\ ~Editing(Free)
  BY DEF Orderly, Kinds, Editing, Free
<1>3. \A o \in Ops : Orderly(op[o]) /\ ~Editing(op[o])
  BY <1>1, <1>2
<1>4. \A i \in DOMAIN server \cup DOMAIN cache : Settled(i, server, cache)
  BY <1>1 DEF Settled
<1>5. QED
  BY <1>3, <1>4 DEF Agree

\* When nothing is under way and nothing went wrong, the cache shows the backend's objects:
\* every patch of the cache is carried out or taken back, however many edits run beside
\* each other, in whatever order their requests are served, and whichever of them fail.
THEOREM CacheHolds == Spec => []CacheAgrees
<1>1. TypeInv /\ CacheInv => CacheAgrees
  <2> SUFFICES ASSUME TypeInv, CacheInv, \A o \in Ops : op[o] = Free, ~drift PROVE cache = server
    BY DEF CacheAgrees, Quiet
  <2>1. ~SomeLost
    BY DEF SomeLost, Lost, Free
  <2>2. \A i \in DOMAIN server \cup DOMAIN cache : Settled(i, server, cache)
    BY <2>1 DEF CacheInv, Agree, Area, Editing, Free
  <2>3. DOMAIN server = DOMAIN cache /\ \A i \in DOMAIN server : server[i] = cache[i]
    BY <2>2 DEF Settled
  <2>4. server \in [DOMAIN server -> Obj(edits)] /\ cache \in [DOMAIN cache -> Obj(edits)]
    BY DEF TypeInv, MapsTyped, Map
  <2>5. QED
    BY <2>3, <2>4
<1>2. Init => TypeInv /\ StackInv /\ CountInv /\ CacheInv
  BY TypeInit, StackInit, CountInit, CacheInit
<1>3. TypeInv /\ StackInv /\ CountInv /\ CacheInv /\ [Next]_vars
        => TypeInv' /\ StackInv' /\ CountInv' /\ CacheInv'
  BY TypeStep, StackStep, CountStep, CacheStep
<1>4. QED
  BY <1>1, <1>2, <1>3, PTL DEF Spec

===============================================================================
