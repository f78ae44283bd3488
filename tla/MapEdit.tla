-------------------------------- MODULE MapEdit --------------------------------
(***************************************************************************)
(* Editing the map of a project in one browser tab: every edit patches the *)
(* tab's cache of objects, sends requests, and when they are answered      *)
(* pushes an entry onto the undo stack or takes its patch back.  Edits run *)
(* as coroutines beside each other, beside one undo and one refetch.       *)
(*                                                                         *)
(* An object has its ends (one for a point, two for a line), the path      *)
(* between them, and form, which is everything else.  Places are pairs     *)
(* <<edit, object>>: every edit moves every object to a place of its own.  *)
(* For the backend a line hangs on the points at its very ends (within     *)
(* COORD_MATCH_EPS), for the tab also on those whose coordinates round to  *)
(* the same three decimals as an end's (linkCoordMatch).  Points of        *)
(* interest behave like points no line hangs on.                           *)
(***************************************************************************)
EXTENDS Naturals, Sequences, FiniteSets, Functions

CONSTANTS
  Ops,        \* coroutines under way at once (a bound)
  Start,      \* the objects the map starts with, as a sequence
  Near,       \* pairs of different places that round to the same three decimals
  MaxSelected,          \* objects dragged or deleted together (a bound)
  MaxEdits, MaxFaults,  \* edits begun, refetches out of turn included; requests that fail (bounds)
  MaxUndo,    \* MAX_UNDO_STACK
  MaxIds      \* nextId when an undo begins (a bound: a half done one may be tried for ever)

\* Places of the first n edits and of the start, and objects that have no other.
Places(n) == (0..n) \X Nat
Obj(n) == [ends : {s \in Seq(Places(n)) : Len(s) \in {1, 2}}, path : Nat, form : Nat]

ASSUME MapAssumption ==
  /\ IsFiniteSet(Ops)
  /\ Start \in Seq(Obj(0))
  /\ \A r \in Near : r[1] # r[2] /\ <<r[2], r[1]>> \in Near
  /\ MaxEdits \in Nat /\ MaxFaults \in Nat /\ MaxSelected \in Nat
  /\ MaxUndo \in Nat \ {0} /\ MaxIds \in Nat

VARIABLES
  server, nextId,   \* the backend's objects by id, and the id it hands out next
  cache,            \* the query ['infra', projectId] of the tab
  fetch,            \* the refetch of that query under way
  stack,            \* stackRef of useMapUndo
  pending,          \* geometrySavePending
  seq,              \* geometrySaveSeqRef
  op,               \* the coroutines
  strays,           \* requests whose answers nobody waits for any more
  edits, faults

\* History: that the cache, and that the stack cannot be expected to be right, for the
\* reasons that CacheAgrees and RoundTrip name.
VARIABLES drift, holes

undoVars == <<stack, pending, seq>>
bounds   == <<edits, faults>>
history  == <<drift, holes>>
vars == <<server, nextId, cache, fetch, undoVars, op, strays, bounds, history>>

None == [x \in {} |-> x]
NoFetch == [st |-> "none", data |-> None]
NoEntry == [undo |-> "none", ids |-> {}, objs |-> None]
\* entry: for the undo stack; snap: for the rollback; got: the objects answered
Free == [kind |-> "free", stages |-> <<>>, sent |-> {}, err |-> "none", seq |-> 0,
         entry |-> NoEntry, snap |-> None, got |-> None, applied |-> FALSE]

Init ==
  /\ server = Start
  /\ nextId = Len(Start) + 1
  /\ cache = server
  /\ fetch = NoFetch
  /\ stack = <<>> /\ pending = 0 /\ seq = 0
  /\ op = [o \in Ops |-> Free]
  /\ strays = {}
  /\ edits = 0 /\ faults = 0
  /\ drift = FALSE /\ holes = FALSE

-----------------------------------------------------------------------------
(* Objects and requests.                                                     *)

IsLine(obj) == Len(obj.ends) = 2

\* The lines on a point, and objects with the lines on them, as the backend sees it:
\* _line_endpoint_matches_point, resolve_infra_delete_ids.
Linked(m, i) == IF IsLine(m[i]) THEN {}
                ELSE {l \in DOMAIN m : IsLine(m[l]) /\ m[i].ends[1] \in Range(m[l].ends)}
Expand(m, ids) == ids \cup UNION {Linked(m, i) : i \in ids}

\* The same as the tab sees it: linkCoordMatch, linkedLineIdsForPoint, expandInfraDeleteIds.
Matches(p, q) == p = q \/ <<p, q>> \in Near
TabLinked(m, i) ==
  IF IsLine(m[i]) THEN {}
  ELSE {l \in DOMAIN m : IsLine(m[l]) /\ \E p \in Range(m[l].ends) : Matches(p, m[i].ends[1])}
TabExpand(m, ids) == ids \cup UNION {TabLinked(m, i) : i \in ids}

Place(i) == <<edits + 1, i>>

\* The points ids are dragged: each to its place, and with it every end of a line that the
\* tab finds on it, which then is at the point's very place.  Of several points that an
\* end is on the last of the selection wins; which that is is left open.
Dragged(m, ids) ==
  LET on(p) == {i \in ids : Matches(p, m[i].ends[1])}
      to(p) == IF on(p) = {} THEN p ELSE Place(CHOOSE i \in on(p) : TRUE)
  IN [i \in TabExpand(m, ids) |->
        [m[i] EXCEPT !.ends = [k \in DOMAIN @ |-> IF i \in ids THEN Place(i) ELSE to(@[k])]]]

Geometry(obj) == [ends |-> obj.ends, path |-> obj.path]
Geometries(m, ids) == [i \in ids |-> Geometry(m[i])]
Only(m, ids) == [i \in ids |-> m[i]]

\* Objects, and likewise the fields of one, over others: upsertInfraObjectsInQueries.
Upserted(m, new) ==
  [i \in DOMAIN new \cup DOMAIN m |-> IF i \in DOMAIN new THEN new[i] ELSE m[i]]
\* patchInfraObjectsInQueries: fields of objects that are there are overwritten.
Patched(m, new) ==
  [i \in DOMAIN m |-> IF i \in DOMAIN new THEN Upserted(m[i], new[i]) ELSE m[i]]
Removed(m, ids) == Only(m, DOMAIN m \ ids)

Update(i, patch) == [do |-> "update", ids |-> {i}, objs |-> <<patch>>]
Delete(ids)      == [do |-> "delete", ids |-> ids, objs |-> <<>>]
Restore(i, obj)  == [do |-> "create", ids |-> {}, objs |-> <<obj>>, of |-> i]
Create(objs)     == [do |-> "create", ids |-> {}, objs |-> objs]

\* get_infra_object answers 404 for an object that is gone.
Found(q) == q.ids \subseteq DOMAIN server

\* validate_line_endpoint_matrix: a line that is saved or created ends at points.  Those
\* of a paste, which is the only batch, keep their ends.
Anchored(q) ==
  Len(q.objs) = 1 /\ IsLine(q.objs[1]) =>
    \A p \in Range(q.objs[1].ends) :
      \E i \in DOMAIN server : ~IsLine(server[i]) /\ server[i].ends[1] = p

Accepted(q) == Found(q) /\ Anchored(q)

Made(q) == [i \in nextId..(nextId + Len(q.objs) - 1) |-> q.objs[i - nextId + 1]]

\* A request is handled in one transaction; deleted points take their lines with them.
Apply(q) ==
  /\ server' = CASE q.do = "update" -> Patched(server, [i \in q.ids |-> q.objs[1]])
                 [] q.do = "delete" -> Removed(server, Expand(server, q.ids))
                 [] q.do = "create" -> Upserted(server, Made(q))
  /\ nextId' = IF q.do = "create" THEN nextId + Len(q.objs) ELSE nextId

\* The stages of a coroutine are sets of requests.  Updates of one stage are awaited one
\* by one (in which order is left open), other requests are sent together.
Send(rec) ==
  LET stage == Head(rec.stages) IN
  IF \A q \in stage : q.do = "update"
  THEN {[rec EXCEPT !.sent = {q},
                    !.stages = IF stage = {q} THEN Tail(rec.stages)
                               ELSE <<stage \ {q}>> \o Tail(rec.stages)] : q \in stage}
  ELSE {[rec EXCEPT !.sent = stage, !.stages = Tail(rec.stages)]}

\* A stage, unless it is empty.
Stage(reqs) == IF reqs = {} THEN <<>> ELSE <<reqs>>
Updates(new) == {Update(i, new[i]) : i \in DOMAIN new}

-----------------------------------------------------------------------------
(* The tab: queries, the undo stack, and the beginning of an edit.           *)

Undoing == \E o \in Ops : op[o].kind = "undo"
Pasting == \E o \in Ops : op[o].kind = "paste"

\* Whoever awaits the refetch of refreshMapQueries goes on when it ends or is cancelled.
Released(ops) == [o \in Ops |-> IF ops[o].kind = "undo" /\ ops[o].err = "refetch"
                                THEN Free ELSE ops[o]]

Refetching == [st |-> "sent", data |-> None]

\* pushUndo: nothing is recorded during an undo, and the oldest entry goes when it is full.
Push(entry) ==
  /\ stack' = IF Undoing THEN stack
              ELSE LET s == Append(stack, entry) IN IF Len(s) > MaxUndo THEN Tail(s) ELSE s
  /\ holes' = (holes \/ Undoing \/ Len(stack) >= MaxUndo)

\* Edits that get into each other's way: one begins on objects, or on lines the backend
\* has on them, that another is changing, or has a line end, now or when it is taken back,
\* at a point the other changes and on which that line does not hang.
Hooks(entry) ==
  {i \in DOMAIN server : \E l \in DOMAIN entry.objs :
     /\ ~IsLine(server[i]) /\ IsLine(entry.objs[l]) /\ l \notin Linked(server, i)
     /\ server[i].ends[1] \in Range(entry.objs[l].ends)}

InTheWay(entry) ==
  (entry.ids \cup Expand(server, entry.ids \cap DOMAIN server) \cup Hooks(entry))
    \cap UNION {op[o].entry.ids \cup DOMAIN op[o].got \cup Hooks(op[o].entry) : o \in Ops} # {}

\* A delete of objects that are gone, or in which the lines the tab takes along are not
\* those the backend will.
Misjudged(rec) ==
  rec.kind = "delete" /\ \E q \in Head(rec.stages) :
    ~Found(q) \/ rec.entry.ids # Expand(server, q.ids)

\* An edit starts: the next free coroutine becomes rec and sends its first requests.
\* What it records of a cache that is wrong is wrong, too.
Begin(rec, ops) ==
  \E o \in Ops :
    /\ edits' = edits + 1
    /\ op[o] = Free /\ o = CHOOSE p \in Ops : op[p] = Free
    /\ op' \in {[ops EXCEPT ![o] = r] : r \in Send(rec)}
    /\ drift' = (drift \/ InTheWay(rec.entry) \/ Misjudged(rec))
    /\ holes' = (holes \/ drift \/ InTheWay(rec.entry) \/ Misjudged(rec))

\* handleGeometryChange: a point is dragged and the lines on it follow, or a line is
\* reshaped.  Any later call makes this one a superseded save.
Move(i) ==
  LET new == IF IsLine(cache[i]) THEN [j \in {i} |-> [cache[i] EXCEPT !.path = edits + 1]]
             ELSE Dragged(cache, {i})
      ids == DOMAIN new IN
  /\ seq' = seq + 1
  /\ pending' = pending + 1
  /\ cache' = Patched(cache, Geometries(new, ids))
  /\ Begin([Free EXCEPT !.kind = "move", !.seq = seq + 1,
              !.stages = <<{Update(i, Geometry(new[i]))}>>
                         \o Stage(Updates(Geometries(new, ids \ {i}))),
              !.entry = [undo |-> "patch", ids |-> ids, objs |-> Geometries(cache, ids)],
              !.snap = Upserted(Geometries(cache, ids), Only(cache, {i}))], op)
  /\ UNCHANGED <<server, nextId, fetch, stack, strays, faults>>

\* handleBatchGeometryChange: points dragged together, with the lines on them.
MoveGroup(ids) ==
  LET new == Geometries(Dragged(cache, ids), TabExpand(cache, ids)) IN
  /\ \A i \in ids : ~IsLine(cache[i])
  /\ Cardinality(ids) > 1
  /\ pending' = pending + 1
  /\ cache' = Patched(cache, new)
  /\ Begin([Free EXCEPT !.kind = "group",
              !.stages = Stage(Updates(Only(new, ids))) \o Stage(Updates(Only(new, DOMAIN new \ ids))),
              !.entry = [undo |-> "patch", ids |-> DOMAIN new,
                         objs |-> Geometries(cache, DOMAIN new)]], op)
  /\ UNCHANGED <<server, nextId, fetch, stack, seq, strays, faults>>

\* saveDetailMut: the form of one object.
SaveDetail(i) ==
  LET new == [cache[i] EXCEPT !.form = edits + 1] IN
  /\ cache' = Patched(cache, [j \in {i} |-> new])
  /\ Begin([Free EXCEPT !.kind = "detail", !.stages = <<{Update(i, new)}>>,
              !.entry = [undo |-> "patch", ids |-> {i}, objs |-> Only(cache, {i})]], op)
  /\ UNCHANGED <<server, nextId, fetch, undoVars, strays, faults>>

\* deleteInfraMut, deleteGroupMut: refetches are cancelled, the objects and the lines the
\* tab finds on them leave the cache, and the backend is asked for those selected only:
\* infraDeleteApiIds looks for lines in a cache that has none of them any more.
DeleteSelection(ids) ==
  LET all == TabExpand(cache, ids) IN
  /\ ids # {}
  /\ cache' = Removed(cache, all)
  /\ fetch' = NoFetch
  /\ Begin([Free EXCEPT !.kind = "delete", !.stages = <<{Delete(ids)}>>, !.snap = cache,
              !.entry = [undo |-> "restore", ids |-> all, objs |-> Only(cache, all)]],
           Released(op))
  /\ UNCHANGED <<server, nextId, undoVars, strays, faults>>

NewPoint == [ends |-> <<Place(0)>>, path |-> 0, form |-> edits + 1]

\* placeInfraPointAt on free ground.
PlacePoint ==
  /\ fetch' = NoFetch
  /\ Begin([Free EXCEPT !.kind = "place", !.stages = <<{Create(<<NewPoint>>)}>>], Released(op))
  /\ UNCHANGED <<server, nextId, cache, undoVars, strays, faults>>

\* placeInfraPointAt on a line, with applyInfraLineSplit: the line now ends at the new
\* point, and a second one starts there.
SplitLine(i) ==
  LET line == cache[i] IN
  /\ IsLine(line)
  /\ fetch' = NoFetch
  /\ Begin([Free EXCEPT !.kind = "split",
              !.stages = <<{Create(<<NewPoint>>)},
                           {Update(i, [ends |-> <<line.ends[1], Place(0)>>, path |-> edits + 1])},
                           {Create(<<[line EXCEPT !.ends = <<Place(0), @[2]>>,
                                                  !.path = edits + 1]>>)}>>,
              !.entry = [undo |-> "split", ids |-> {i}, objs |-> Geometries(cache, {i})]],
           Released(op))
  /\ UNCHANGED <<server, nextId, cache, undoVars, strays, faults>>

\* executePaste of a point and a line that starts at it, one transaction in the backend.
Paste ==
  /\ ~Pasting /\ pending = 0
  /\ pending' = pending + 1
  /\ Begin([Free EXCEPT !.kind = "paste",
              !.stages = <<{Create(<<NewPoint, [NewPoint EXCEPT !.ends = @ \o <<Place(1)>>]>>)}>>], op)
  /\ UNCHANGED <<server, nextId, cache, fetch, stack, seq, strays, faults>>

-----------------------------------------------------------------------------
(* The backend, and answers.                                                 *)

Served(rec, q) ==
  [rec EXCEPT !.sent = @ \ {q}, !.applied = TRUE,
     !.got = Upserted(@,
       CASE q.do = "update" -> Only(Patched(server, [i \in q.ids |-> q.objs[1]]), q.ids)
         [] q.do = "create" -> Made(q)
         [] q.do = "delete" -> None)]

\* The coroutine goes on with its next await, unless one before has thrown.
GoOn(rec) == IF rec.err = "none" /\ rec.sent = {} /\ rec.stages # <<>> THEN Send(rec)
             ELSE {rec}

Failed(rec, q) == [rec EXCEPT !.sent = @ \ {q}, !.err = "failed"]

Serve(o) ==
  /\ \E q \in op[o].sent :
       /\ \/ /\ Accepted(q)
             /\ Apply(q)
             /\ op' \in {[op EXCEPT ![o] = r] : r \in GoOn(Served(op[o], q))}
          \/ /\ ~Accepted(q)
             /\ op' = [op EXCEPT ![o] = Failed(op[o], q)]
             /\ UNCHANGED <<server, nextId>>
  /\ UNCHANGED <<cache, fetch, undoVars, strays, bounds, history>>

ServeStray ==
  /\ \E q \in strays :
       /\ strays' = strays \ {q}
       /\ IF Accepted(q) THEN /\ Apply(q)
                              /\ drift' = TRUE /\ holes' = TRUE
          ELSE UNCHANGED <<server, nextId, history>>
  /\ UNCHANGED <<cache, fetch, undoVars, op, bounds>>

\* A request is refused, or carried out and its answer lost.
RequestFails(o) ==
  /\ faults < MaxFaults /\ faults' = faults + 1
  /\ \E q \in op[o].sent :
       /\ op' = [op EXCEPT ![o] = Failed(op[o], q)]
       /\ \/ UNCHANGED <<server, nextId, history>>
          \/ /\ Accepted(q) /\ Apply(q)
             /\ drift' = TRUE /\ holes' = TRUE
  /\ UNCHANGED <<cache, fetch, undoVars, strays, edits>>

Done(o, kind) == /\ op[o].kind = kind /\ op[o].err = "none"
                 /\ op[o].sent = {} /\ op[o].stages = <<>>
Broken(o, kind) == op[o].kind = kind /\ op[o].err = "failed"

Ended(o) == [op EXCEPT ![o] = Free]

\* What went before the failure stays done.
HalfDone(o) == /\ drift' = (drift \/ op[o].applied)
               /\ holes' = (holes \/ op[o].applied)

-----------------------------------------------------------------------------
(* The ends of the edits.                                                    *)

\* A superseded save returns at once: no entry, no rollback, and its count stays.
MoveSaved(o) ==
  /\ Done(o, "move")
  /\ op' = Ended(o)
  /\ IF op[o].seq = seq
     THEN Push(op[o].entry) /\ pending' = pending - 1
     ELSE holes' = TRUE /\ UNCHANGED <<stack, pending>>
  /\ UNCHANGED <<server, nextId, cache, fetch, seq, strays, bounds, drift>>

\* A faulty variant: the lines are not taken back.
MoveFailedPointOnly(o) ==
  LET point == {i \in DOMAIN op[o].snap : "form" \in DOMAIN op[o].snap[i]} IN
  /\ Broken(o, "move")
  /\ op' = Ended(o)
  /\ IF op[o].seq = seq
     THEN /\ cache' = Patched(cache, Only(op[o].snap, point))
          /\ pending' = pending - 1
          /\ HalfDone(o)
     ELSE /\ drift' = TRUE /\ holes' = (holes \/ op[o].applied)
          /\ UNCHANGED <<cache, pending>>
  /\ UNCHANGED <<server, nextId, fetch, stack, seq, strays, bounds>>

MoveFailed(o) ==
  /\ Broken(o, "move")
  /\ op' = Ended(o)
  /\ IF op[o].seq = seq
     THEN /\ cache' = Patched(cache, op[o].snap)
          /\ pending' = pending - 1
          /\ HalfDone(o)
     ELSE /\ drift' = TRUE /\ holes' = (holes \/ op[o].applied)
          /\ UNCHANGED <<cache, pending>>
  /\ UNCHANGED <<server, nextId, fetch, stack, seq, strays, bounds>>

GroupSaved(o) ==
  /\ Done(o, "group")
  /\ op' = Ended(o)
  /\ Push(op[o].entry)
  /\ pending' = pending - 1
  /\ UNCHANGED <<server, nextId, cache, fetch, seq, strays, bounds, drift>>

\* A faulty variant: the count is taken back in catch and in finally.
GroupFailedTwice(o) ==
  /\ Broken(o, "group")
  /\ op' = Released(Ended(o))
  /\ fetch' = Refetching
  /\ pending' = pending - 2
  /\ drift' = TRUE /\ holes' = (holes \/ op[o].applied)
  /\ UNCHANGED <<server, nextId, cache, stack, seq, strays, bounds>>

\* Nothing is taken back, the map is refetched.
GroupFailed(o) ==
  /\ Broken(o, "group")
  /\ op' = Released(Ended(o))
  /\ fetch' = Refetching
  /\ pending' = pending - 1
  /\ drift' = TRUE /\ holes' = (holes \/ op[o].applied)
  /\ UNCHANGED <<server, nextId, cache, stack, seq, strays, bounds>>

DetailSaved(o) ==
  /\ Done(o, "detail")
  /\ op' = Ended(o)
  /\ Push(op[o].entry)
  /\ cache' = Upserted(cache, op[o].got)
  /\ UNCHANGED <<server, nextId, fetch, pending, seq, strays, bounds, drift>>

\* Only a toast: the patch stays in the cache.
DetailFailed(o) ==
  /\ Broken(o, "detail")
  /\ op' = Ended(o)
  /\ drift' = TRUE
  /\ UNCHANGED <<server, nextId, cache, fetch, undoVars, strays, bounds, holes>>

Deleted(o) ==
  /\ Done(o, "delete")
  /\ op' = Released(Ended(o))
  /\ Push(op[o].entry)
  /\ fetch' = Refetching
  /\ UNCHANGED <<server, nextId, cache, pending, seq, strays, bounds, drift>>

\* The snapshot is put back, whatever else has changed since, and the query refetched.
DeleteFailed(o) ==
  /\ Broken(o, "delete")
  /\ op' = Released(Ended(o))
  /\ cache' = op[o].snap
  /\ fetch' = Refetching
  /\ drift' = TRUE
  /\ UNCHANGED <<server, nextId, undoVars, strays, bounds, holes>>

Placed(o) ==
  /\ Done(o, "place")
  /\ op' = Released(Ended(o))
  /\ cache' = Upserted(cache, op[o].got)
  /\ fetch' = NoFetch
  /\ Push([undo |-> "drop", ids |-> DOMAIN op[o].got, objs |-> None])
  /\ UNCHANGED <<server, nextId, pending, seq, strays, bounds, drift>>

\* A faulty variant: the undo entry is that of a new point.
SplitDoneAsPoint(o) ==
  /\ Done(o, "split")
  /\ op' = Released(Ended(o))
  /\ cache' = Upserted(cache, op[o].got)
  /\ fetch' = NoFetch
  /\ Push([undo |-> "drop", objs |-> None,
           ids |-> {i \in DOMAIN op[o].got : i \notin op[o].entry.ids /\ ~IsLine(op[o].got[i])}])
  /\ UNCHANGED <<server, nextId, pending, seq, strays, bounds, drift>>

SplitDone(o) ==
  /\ Done(o, "split")
  /\ op' = Released(Ended(o))
  /\ cache' = Upserted(cache, op[o].got)
  /\ fetch' = NoFetch
  /\ Push([op[o].entry EXCEPT !.ids = DOMAIN op[o].got])
  /\ UNCHANGED <<server, nextId, pending, seq, strays, bounds, drift>>

\* The error is shown and the map refetched.
PlaceFailed(o) ==
  /\ \/ Broken(o, "place")
     \/ Broken(o, "split") /\ ~op[o].applied
     \/ Done(o, "unsplit")
     \/ Broken(o, "unsplit")
  /\ op' = Released(Ended(o))
  /\ fetch' = Refetching
  /\ drift' = TRUE
  /\ holes' = (holes \/ Broken(o, "unsplit"))
  /\ UNCHANGED <<server, nextId, cache, undoVars, strays, bounds>>

\* The split failed after the point was created: the point is deleted, and with it the
\* line, if that already ends there.
SplitFailed(o) ==
  /\ Broken(o, "split") /\ op[o].applied
  /\ op' = [op EXCEPT ![o].kind = "unsplit", ![o].err = "none", ![o].stages = <<>>,
                      ![o].sent = {Delete(DOMAIN op[o].got \ op[o].entry.ids)}]
  /\ holes' = (holes \/ op[o].entry.ids \subseteq DOMAIN op[o].got)
  /\ UNCHANGED <<server, nextId, cache, fetch, undoVars, strays, bounds, drift>>

\* A faulty variant: the count is reset.
PastedResets(o) ==
  /\ Done(o, "paste")
  /\ op' = Ended(o)
  /\ cache' = Upserted(cache, op[o].got)
  /\ Push([undo |-> "drop", ids |-> DOMAIN op[o].got, objs |-> None])
  /\ pending' = 0
  /\ UNCHANGED <<server, nextId, fetch, seq, strays, bounds, drift>>

Pasted(o) ==
  /\ Done(o, "paste")
  /\ op' = Ended(o)
  /\ cache' = Upserted(cache, op[o].got)
  /\ Push([undo |-> "drop", ids |-> DOMAIN op[o].got, objs |-> None])
  /\ pending' = pending - 1
  /\ UNCHANGED <<server, nextId, fetch, seq, strays, bounds, drift>>

PasteFailed(o) ==
  /\ Broken(o, "paste")
  /\ op' = Ended(o)
  /\ pending' = pending - 1
  /\ UNCHANGED <<server, nextId, cache, fetch, stack, seq, strays, bounds, history>>

-----------------------------------------------------------------------------
(* Undo.                                                                     *)

\* applyMapUndo.  Restored objects get new ids; what was created is deleted one by one.
UndoStages(entry) ==
  LET updates(lines) == {Update(i, entry.objs[i]) :
                         i \in {j \in DOMAIN entry.objs : IsLine(entry.objs[j]) = lines}}
      creates(lines) == {Restore(i, entry.objs[i]) :
                         i \in {j \in entry.ids : IsLine(entry.objs[j]) = lines}}
      made   == entry.ids \ DOMAIN entry.objs
      point  == CHOOSE i \in made : \A j \in made : i <= j
      second == CHOOSE i \in made : \A j \in made : i >= j
  IN CASE entry.undo = "patch"   -> Stage(updates(FALSE)) \o Stage(updates(TRUE))
       [] entry.undo = "restore" -> Stage(creates(FALSE)) \o Stage(creates(TRUE))
       [] entry.undo = "drop"    -> <<{Delete({i}) : i \in entry.ids}>>
       [] entry.undo = "split"   -> <<Updates(entry.objs), {Delete({second})}, {Delete({point})}>>

\* performUndo: one at a time, the entry leaves the stack first.
Undo(o) ==
  /\ ~Undoing /\ stack # <<>> /\ nextId <= MaxIds
  /\ op[o] = Free /\ o = CHOOSE p \in Ops : op[p] = Free
  /\ LET entry == stack[Len(stack)] IN
       /\ stack' = SubSeq(stack, 1, Len(stack) - 1)
       /\ op' \in {[op EXCEPT ![o] = r] :
                     r \in Send([Free EXCEPT !.kind = "undo", !.entry = entry,
                                             !.stages = UndoStages(entry)])}
       /\ drift' = (drift \/ InTheWay(entry))
       /\ holes' = (holes \/ InTheWay(entry))
  /\ UNCHANGED <<server, nextId, cache, fetch, pending, seq, strays, bounds>>

\* invalidateMap, and the undo stays under way until refreshMapQueries has refetched.
UndoDone(o) ==
  /\ Done(o, "undo")
  /\ op' = [op EXCEPT ![o].err = "refetch"]
  /\ fetch' = Refetching
  /\ drift' = TRUE
  /\ UNCHANGED <<server, nextId, cache, undoVars, strays, bounds, holes>>

\* A faulty variant: undoingRef is not reset.
UndoFailedKept(o) ==
  /\ Broken(o, "undo")
  /\ op' = [op EXCEPT ![o].err = "kept"]
  /\ stack' = Append(stack, op[o].entry)
  /\ strays' = strays \cup op[o].sent
  /\ HalfDone(o)
  /\ UNCHANGED <<server, nextId, cache, fetch, pending, seq, bounds>>

\* The entry goes back, whatever part of it was carried out; nothing is refetched.
UndoFailed(o) ==
  /\ Broken(o, "undo")
  /\ op' = Ended(o)
  /\ stack' = Append(stack, op[o].entry)
  /\ strays' = strays \cup op[o].sent
  /\ HalfDone(o)
  /\ UNCHANGED <<server, nextId, cache, fetch, pending, seq, bounds>>

-----------------------------------------------------------------------------
(* The query is refetched when the window gets focus, after undo and delete. *)

Refetch ==
  /\ fetch = NoFetch /\ edits < MaxEdits
  /\ edits' = edits + 1
  /\ fetch' = Refetching
  /\ UNCHANGED <<server, nextId, cache, undoVars, op, strays, faults, history>>

FetchRead ==
  /\ fetch.st = "sent"
  /\ fetch' = [st |-> "read", data |-> server]
  /\ UNCHANGED <<server, nextId, cache, undoVars, op, strays, bounds, history>>

\* Edits whose patch the answer overwrites, though the backend does not have it yet.
Optimistic == {o \in Ops : op[o].kind \in {"move", "group", "detail", "delete"}
                          /\ (op[o].stages # <<>> \/ op[o].sent # {} \/ op[o].err = "failed")}

FetchAnswer ==
  /\ fetch.st = "read"
  /\ cache' = fetch.data
  /\ fetch' = NoFetch
  /\ op' = Released(op)
  /\ drift' = \/ fetch.data # server \/ Optimistic # {}
              \/ drift /\ \E o \in Ops : Released(op)[o] # Free
  /\ UNCHANGED <<server, nextId, undoVars, strays, bounds, holes>>

FetchFails ==
  /\ fetch.st = "sent" /\ faults < MaxFaults
  /\ faults' = faults + 1
  /\ fetch' = NoFetch
  /\ op' = Released(op)
  /\ UNCHANGED <<server, nextId, cache, undoVars, strays, edits, history>>

-----------------------------------------------------------------------------
EditEnds(o) ==
  \/ MoveSaved(o)   \/ MoveFailed(o)
  \/ GroupSaved(o)  \/ GroupFailed(o)
  \/ DetailSaved(o) \/ DetailFailed(o)
  \/ Deleted(o)     \/ DeleteFailed(o)
  \/ Placed(o)      \/ PlaceFailed(o)
  \/ SplitDone(o)   \/ SplitFailed(o)
  \/ Pasted(o)      \/ PasteFailed(o)
  \/ UndoDone(o)    \/ UndoFailed(o)

\* What goes on by itself: requests are served, answered or run into their timeout.
OpSteps(o) == Serve(o) \/ EditEnds(o)
FetchSteps == FetchRead \/ FetchAnswer

\* The user begins another edit, while there is a coroutine for it.
Edits ==
  /\ edits < MaxEdits /\ Free \in Range(op)
  /\ \/ \E i \in DOMAIN cache : Move(i) \/ SaveDetail(i) \/ SplitLine(i)
     \/ \E ids \in SUBSET DOMAIN cache :
          Cardinality(ids) <= MaxSelected /\ (MoveGroup(ids) \/ DeleteSelection(ids))
     \/ PlacePoint \/ Paste

Next ==
  \/ \E o \in Ops : OpSteps(o)
  \/ ServeStray \/ FetchSteps
  \/ Edits
  \/ \E o \in Ops : Undo(o) \/ RequestFails(o)
  \/ Refetch \/ FetchFails

Spec == Init /\ [][Next]_vars

\* While a coroutine or a refetch can go on, one of them does.
Work == (\E o \in Ops : OpSteps(o)) \/ FetchSteps
FairSpec == Spec /\ WF_vars(Work)

-----------------------------------------------------------------------------
(* Properties.                                                               *)

Quiet == (\A o \in Ops : op[o] = Free) /\ strays = {}

\* The map is a set of objects, none at a place of an edit to come, only what is on the
\* map can be changed, and the stack never exceeds MAX_UNDO_STACK although a failed undo
\* puts its entry back unchecked.
TypeOK ==
  /\ nextId \in Nat
  /\ \A m \in {server, cache} : /\ DOMAIN m \subseteq 1..(nextId - 1)
                               /\ \A i \in DOMAIN m : m[i] \in Obj(edits)
  /\ Len(stack) <= MaxUndo
  /\ pending \in Nat /\ seq \in Nat
  /\ \A o \in Ops : op[o].seq <= seq
  /\ drift \in BOOLEAN /\ holes \in BOOLEAN

\* geometrySavePending = 0, the condition under which a paste may start, implies that no
\* geometry is being saved: whatever overlaps, the count is never too low.
PendingCoversSaves ==
  pending = 0 => \A o \in Ops : op[o].kind \notin {"move", "group", "paste"}

\* Two maps are the same when each object occurs as often in both.
SameMap(m, n) ==
  \A x \in Range(m) \cup Range(n) :
    Cardinality({i \in DOMAIN m : m[i] = x}) = Cardinality({i \in DOMAIN n : n[i] = x})

\* Undoing everything gives back the map one started with, but for the ids of what was
\* deleted, unless the stack does not have what was done (holes): edits in each other's way
\* or begun on a cache that had drifted, an edit that ended during an undo or superseded,
\* more than MAX_UNDO_STACK entries, a request half done, and a delete of which the backend
\* kept a line: its undo creates that line a second time (Misjudged).
RoundTrip ==
  Quiet /\ stack = <<>> /\ ~holes =>
    SameMap(server, Start)

\* The cache shows the backend's objects when nothing is under way, in whatever order
\* answers come, until something happens that only a refetch puts right (drift): edits in
\* each other's way, a request that failed half done or whose answer was lost, a form, a
\* group or a superseded drag that failed, whose patch nobody takes back, a delete of
\* which the backend kept lines that have left the cache (Misjudged), a delete or a new
\* point that failed, or an undo, which refetch themselves.  A clean refetch ends the
\* exception.
CacheAgrees == Quiet /\ fetch = NoFetch /\ ~drift => cache = server

\* An undo under way ends: the flag that blocks all others does not stay.
UndoEnds == []<>~Undoing

\* What docs/features/map/map-objects-and-spatial-calculations.md says of Ctrl+Z: the last
\* edit is taken back.  With no fault and nothing in the way no request of an undo fails.
UndoApplies ==
  faults = 0 /\ ~holes => \A o \in Ops : ~Broken(o, "undo")

=============================================================================
