----------------------------- MODULE MapEdit_proofs -----------------------------
(* geometrySavePending counts the saves of geometry under way, the undo stack *)
(* keeps its limit, and the state keeps its types, for any number of          *)
(* coroutines, objects, edits and faults.                                     *)
EXTENDS MapEdit, FiniteSetTheorems, SequenceTheorems, TLAPS

Saving == {"move", "group", "paste"}

\* The coroutines that have raised the count and not yet lowered it.
Savers == {o \in Ops : op[o].kind \in Saving}

Shaped(f) == DOMAIN f = Ops /\ \A o \in Ops : "kind" \in DOMAIN f[o]

\* The inductive invariant.  The count may be too high (a superseded save never lowers
\* it), so it only bounds the number of savers.
CountInv == Shaped(op) /\ pending \in Nat /\ Cardinality(Savers) <= pending

-------------------------------------------------------------------------------
(* What a step does to the kinds of the coroutines.                           *)

LEMMA SaversFinite == IsFiniteSet(Savers) /\ Cardinality(Savers) \in Nat
<1>1. IsFiniteSet(Savers)
  BY MapAssumption, FS_Subset DEF Savers
<1>2. QED
  BY <1>1, FS_CardinalityType

\* A step that makes no coroutine a saver leaves at most as many.
LEMMA NobodyJoins ==
  ASSUME \A p \in Ops : op'[p].kind \in Saving => op[p].kind \in Saving
  PROVE  Cardinality(Savers') \in Nat /\ Cardinality(Savers') <= Cardinality(Savers)
<1>1. Savers' \subseteq Savers
  BY DEF Savers
<1>2. QED
  BY <1>1, SaversFinite, FS_Subset, FS_CardinalityType

\* A step in which a saver ends leaves fewer.
LEMMA OneLeaves ==
  ASSUME NEW o \in Ops, op[o].kind \in Saving, op'[o].kind \notin Saving,
         \A p \in Ops : op'[p].kind \in Saving => op[p].kind \in Saving
  PROVE  Cardinality(Savers') \in Nat /\ Cardinality(Savers') <= Cardinality(Savers) - 1
<1>1. Savers' \subseteq Savers \ {o} /\ o \in Savers
  BY DEF Savers
<1>2. IsFiniteSet(Savers \ {o}) /\ Cardinality(Savers \ {o}) = Cardinality(Savers) - 1
  BY <1>1, SaversFinite, FS_RemoveElement
<1>3. QED
  BY <1>1, <1>2, FS_Subset, FS_CardinalityType

\* A step in which one coroutine starts to save adds at most one.
LEMMA OneJoins ==
  ASSUME NEW o \in Ops,
         \A p \in Ops \ {o} : op'[p].kind \in Saving => op[p].kind \in Saving
  PROVE  Cardinality(Savers') \in Nat /\ Cardinality(Savers') <= Cardinality(Savers) + 1
<1>1. Savers' \subseteq Savers \cup {o}
  BY DEF Savers
<1>2. /\ IsFiniteSet(Savers \cup {o})
      /\ Cardinality(Savers \cup {o}) \in {Cardinality(Savers), Cardinality(Savers) + 1}
  BY SaversFinite, FS_AddElement
<1>3. QED
  BY <1>1, <1>2, SaversFinite, FS_Subset, FS_CardinalityType

\* A coroutine keeps its kind while it sends and is answered.
LEMMA SendKeeps ==
  ASSUME NEW rec, "kind" \in DOMAIN rec, NEW r \in Send(rec)
  PROVE  "kind" \in DOMAIN r /\ r.kind = rec.kind
<1>1. \E x, y : r = [rec EXCEPT !.sent = x, !.stages = y]
  BY DEF Send
<1>2. QED
  BY <1>1

LEMMA ServedKeeps ==
  ASSUME NEW rec, "kind" \in DOMAIN rec, NEW q, NEW r \in GoOn(Served(rec, q))
  PROVE  "kind" \in DOMAIN r /\ r.kind = rec.kind
<1>1. \E x, y : Served(rec, q) = [rec EXCEPT !.sent = x, !.applied = TRUE, !.got = y]
  BY DEF Served
<1>2. "kind" \in DOMAIN Served(rec, q) /\ Served(rec, q).kind = rec.kind
  BY <1>1
<1>3. CASE r = Served(rec, q)
  BY <1>2, <1>3
<1>4. CASE r \in Send(Served(rec, q))
  BY <1>2, <1>4, SendKeeps
<1>5. QED
  BY <1>3, <1>4 DEF GoOn

LEMMA FreeKind == "kind" \in DOMAIN Free /\ Free.kind = "free" /\ "free" \notin Saving
  BY DEF Free, Saving

LEMMA OtherKinds == "detail" \notin Saving /\ "delete" \notin Saving /\ "place" \notin Saving /\ "split" \notin Saving
  BY DEF Saving

\* Coroutines that awaited a refetch are undos, and become free.
LEMMA ReleasedKeeps ==
  ASSUME NEW f, Shaped(f)
  PROVE  /\ Shaped(Released(f))
         /\ \A p \in Ops : Released(f)[p].kind \in {f[p].kind, "free"}
  BY FreeKind DEF Shaped, Released

-------------------------------------------------------------------------------
(* Each step keeps the count.                                                 *)

\* The count stands, and no coroutine begins to save.
LEMMA CountStands ==
  ASSUME CountInv, Shaped(op'), pending' = pending,
         \A p \in Ops : op'[p].kind \in Saving => op[p].kind \in Saving
  PROVE  CountInv'
<1>1. Cardinality(Savers') \in Nat /\ Cardinality(Savers') <= Cardinality(Savers)
  BY NobodyJoins
<1>2. Cardinality(Savers') <= pending'
  BY <1>1, SaversFinite DEF CountInv
<1>3. QED
  BY <1>2 DEF CountInv, Shaped

LEMMA OpStands ==
  ASSUME CountInv, UNCHANGED <<op, pending>>
  PROVE  CountInv'
<1>1. Shaped(op')
  BY DEF CountInv, Shaped
<1>2. QED
  BY <1>1, CountStands

\* One coroutine goes on, with its kind or one that is no saver's, and perhaps others
\* are released.
LEMMA OneGoesOn ==
  ASSUME CountInv, pending' = pending, NEW o \in Ops, NEW r, "kind" \in DOMAIN r,
         r.kind \in Saving => op[o].kind \in Saving,
         NEW f, f = op \/ f = Released(op), op' = [f EXCEPT ![o] = r]
  PROVE  CountInv'
<1>1. /\ Shaped(f)
      /\ \A p \in Ops : f[p].kind \in {op[p].kind, "free"}
  BY ReleasedKeeps DEF CountInv
<1>2. Shaped(op') /\ op'[o].kind = r.kind /\ \A p \in Ops \ {o} : op'[p] = f[p]
  BY <1>1 DEF Shaped
<1>3. \A p \in Ops : op'[p].kind \in Saving => op[p].kind \in Saving
  BY <1>1, <1>2, FreeKind
<1>4. QED
  BY <1>2, <1>3, CountStands

\* One coroutine ends.
LEMMA EndedFrees ==
  ASSUME CountInv, NEW o \in Ops, op' = Ended(o) \/ op' = Released(Ended(o))
  PROVE  /\ Shaped(op') /\ op'[o].kind = "free"
         /\ \A p \in Ops : op'[p].kind \in {op[p].kind, "free"}
<1>1. /\ Shaped(Ended(o)) /\ Ended(o)[o].kind = "free"
      /\ \A p \in Ops \ {o} : Ended(o)[p] = op[p]
  BY FreeKind DEF Ended, CountInv, Shaped
<1>2. CASE op' = Ended(o)
  BY <1>1, <1>2
<1>3. CASE op' = Released(Ended(o))
  <2>1. Shaped(op') /\ \A p \in Ops : op'[p].kind \in {Ended(o)[p].kind, "free"}
    BY <1>1, <1>3, ReleasedKeeps
  <2>2. QED
    BY <1>1, <2>1
<1>4. QED
  BY <1>2, <1>3

\* It lowers the count if it was a saver.
LEMMA SaveEnds ==
  ASSUME CountInv, NEW o \in Ops, op[o].kind \in Saving,
         op' = Ended(o) \/ op' = Released(Ended(o)), pending' = pending - 1
  PROVE  CountInv'
<1>1. /\ Shaped(op') /\ op'[o].kind \notin Saving
      /\ \A p \in Ops : op'[p].kind \in Saving => op[p].kind \in Saving
  BY EndedFrees, FreeKind
<1>2. Cardinality(Savers') \in Nat /\ Cardinality(Savers') <= Cardinality(Savers) - 1
  BY <1>1, OneLeaves
<1>3. pending' \in Nat /\ Cardinality(Savers') <= pending'
  BY <1>2, SaversFinite DEF CountInv
<1>4. QED
  BY <1>1, <1>3 DEF CountInv, Shaped

\* It need not lower the count.
LEMMA OtherEnds ==
  ASSUME CountInv, NEW o \in Ops, op' = Ended(o) \/ op' = Released(Ended(o)),
         pending' = pending
  PROVE  CountInv'
<1>1. Shaped(op') /\ \A p \in Ops : op'[p].kind \in {op[p].kind, "free"}
  BY EndedFrees
<1>2. QED
  BY <1>1, FreeKind, CountStands

\* An edit begins: rec is what its coroutine was handed to begin with.
LEMMA BeginKinds ==
  ASSUME CountInv, NEW rec, "kind" \in DOMAIN rec,
         NEW f, f = op \/ f = Released(op), Begin(rec, f)
  PROVE  /\ Shaped(op')
         /\ \E o \in Ops : /\ op'[o].kind = rec.kind
                           /\ \A p \in Ops \ {o} : op'[p].kind \in {op[p].kind, "free"}
<1>1. Shaped(f) /\ \A p \in Ops : f[p].kind \in {op[p].kind, "free"}
  BY ReleasedKeeps DEF CountInv
<1>2. PICK o \in Ops : op' \in {[f EXCEPT ![o] = r] : r \in Send(rec)}
  BY DEF Begin
<1>3. PICK r \in Send(rec) : op' = [f EXCEPT ![o] = r]
  BY <1>2
<1>4. "kind" \in DOMAIN r /\ r.kind = rec.kind
  BY SendKeeps
<1>5. Shaped(op') /\ op'[o].kind = r.kind /\ \A p \in Ops \ {o} : op'[p] = f[p]
  BY <1>1, <1>3, <1>4 DEF Shaped
<1>6. QED
  BY <1>1, <1>4, <1>5

LEMMA SaveBegins ==
  ASSUME CountInv, NEW rec, "kind" \in DOMAIN rec,
         NEW f, f = op \/ f = Released(op), Begin(rec, f), pending' = pending + 1
  PROVE  CountInv'
<1>1. Shaped(op')
  BY BeginKinds
<1>2. PICK o \in Ops : \A p \in Ops \ {o} : op'[p].kind \in {op[p].kind, "free"}
  BY BeginKinds
<1>3. Cardinality(Savers') \in Nat /\ Cardinality(Savers') <= Cardinality(Savers) + 1
  BY <1>2, FreeKind, OneJoins
<1>4. pending' \in Nat /\ Cardinality(Savers') <= pending'
  BY <1>3, SaversFinite DEF CountInv
<1>5. QED
  BY <1>1, <1>4 DEF CountInv, Shaped

LEMMA OtherBegins ==
  ASSUME CountInv, NEW rec, "kind" \in DOMAIN rec, rec.kind \notin Saving,
         NEW f, f = op \/ f = Released(op), Begin(rec, f), pending' = pending
  PROVE  CountInv'
<1>1. Shaped(op')
  BY BeginKinds
<1>2. \A p \in Ops : op'[p].kind \in Saving => op[p].kind \in Saving
  BY BeginKinds, FreeKind
<1>3. QED
  BY <1>1, <1>2, CountStands

-------------------------------------------------------------------------------
(* The actions.                                                               *)

\* Every edit begins a coroutine of its kind, and leaves the stack alone.
LEMMA EditsBegin ==
  ASSUME Edits
  PROVE  \E rec, f : /\ "kind" \in DOMAIN rec /\ rec.kind # "undo"
                     /\ f = op \/ f = Released(op)
                     /\ Begin(rec, f)
                     /\ stack' = stack
                     /\ \/ pending' = pending + 1
                        \/ pending' = pending /\ rec.kind \notin Saving
<1> USE DEF undoVars
<1> DEFINE Begun == \E rec, f : /\ "kind" \in DOMAIN rec /\ rec.kind # "undo"
                                /\ f = op \/ f = Released(op)
                                /\ Begin(rec, f)
                                /\ stack' = stack
                                /\ \/ pending' = pending + 1
                                   \/ pending' = pending /\ rec.kind \notin Saving
<1>1. ASSUME NEW i, Move(i) PROVE Begun
  <2>1. PICK a, b, c, d :
          Begin([Free EXCEPT !.kind = "move", !.seq = a, !.stages = b, !.entry = c, !.snap = d], op)
    BY <1>1 DEF Move
  <2>2. pending' = pending + 1 /\ stack' = stack
    BY <1>1 DEF Move
  <2>3. QED
    BY <2>1, <2>2, FreeKind
<1>2. ASSUME NEW ids, MoveGroup(ids) PROVE Begun
  <2>1. PICK b, c : Begin([Free EXCEPT !.kind = "group", !.stages = b, !.entry = c], op)
    BY <1>2 DEF MoveGroup
  <2>2. pending' = pending + 1 /\ stack' = stack
    BY <1>2 DEF MoveGroup
  <2>3. QED
    BY <2>1, <2>2, FreeKind
<1>3. CASE Paste
  <2>1. PICK b : Begin([Free EXCEPT !.kind = "paste", !.stages = b], op)
    BY <1>3 DEF Paste
  <2>2. pending' = pending + 1 /\ stack' = stack
    BY <1>3 DEF Paste
  <2>3. QED
    BY <2>1, <2>2, FreeKind
<1>4. ASSUME NEW i, SaveDetail(i) PROVE Begun
  <2>1. PICK b, c : Begin([Free EXCEPT !.kind = "detail", !.stages = b, !.entry = c], op)
    BY <1>4 DEF SaveDetail
  <2>2. pending' = pending /\ stack' = stack
    BY <1>4 DEF SaveDetail
  <2> DEFINE rec == [Free EXCEPT !.kind = "detail", !.stages = b, !.entry = c]
  <2>3. "kind" \in DOMAIN rec /\ rec.kind = "detail"
    BY FreeKind
  <2>4. Begin(rec, op)
    BY <2>1
  <2> HIDE DEF rec
  <2>5. QED
    BY <2>2, <2>3, <2>4, OtherKinds
<1>5. ASSUME NEW ids, DeleteSelection(ids) PROVE Begun
  <2>1. PICK b, c, d : Begin([Free EXCEPT !.kind = "delete", !.stages = b, !.snap = c, !.entry = d], Released(op))
    BY <1>5 DEF DeleteSelection
  <2>2. pending' = pending /\ stack' = stack
    BY <1>5 DEF DeleteSelection
  <2> DEFINE rec == [Free EXCEPT !.kind = "delete", !.stages = b, !.snap = c, !.entry = d]
  <2>3. "kind" \in DOMAIN rec /\ rec.kind = "delete"
    BY FreeKind
  <2>4. Begin(rec, Released(op))
    BY <2>1
  <2> HIDE DEF rec
  <2>5. QED
    BY <2>2, <2>3, <2>4, OtherKinds
<1>6. CASE PlacePoint
  <2>1. PICK b : Begin([Free EXCEPT !.kind = "place", !.stages = b], Released(op))
    BY <1>6 DEF PlacePoint
  <2>2. pending' = pending /\ stack' = stack
    BY <1>6 DEF PlacePoint
  <2> DEFINE rec == [Free EXCEPT !.kind = "place", !.stages = b]
  <2>3. "kind" \in DOMAIN rec /\ rec.kind = "place"
    BY FreeKind
  <2>4. Begin(rec, Released(op))
    BY <2>1
  <2> HIDE DEF rec
  <2>5. QED
    BY <2>2, <2>3, <2>4, OtherKinds
<1>7. ASSUME NEW i, SplitLine(i) PROVE Begun
  <2>1. PICK b, c : Begin([Free EXCEPT !.kind = "split", !.stages = b, !.entry = c], Released(op))
    BY <1>7 DEF SplitLine
  <2>2. pending' = pending /\ stack' = stack
    BY <1>7 DEF SplitLine
  <2> DEFINE rec == [Free EXCEPT !.kind = "split", !.stages = b, !.entry = c]
  <2>3. "kind" \in DOMAIN rec /\ rec.kind = "split"
    BY FreeKind
  <2>4. Begin(rec, Released(op))
    BY <2>1
  <2> HIDE DEF rec
  <2>5. QED
    BY <2>2, <2>3, <2>4, OtherKinds
<1>8. QED
  BY <1>1, <1>2, <1>3, <1>4, <1>5, <1>6, <1>7 DEF Edits

LEMMA EditsCount == ASSUME CountInv, Edits PROVE CountInv'
  BY EditsBegin, SaveBegins, OtherBegins

LEMMA RequestsCount ==
  ASSUME CountInv, NEW o \in Ops, Serve(o) \/ RequestFails(o) \/ Undo(o)
  PROVE  CountInv'
<1> USE DEF undoVars
<1>1. "kind" \in DOMAIN op[o]
  BY DEF CountInv, Shaped
<1>2. ASSUME NEW q PROVE "kind" \in DOMAIN Failed(op[o], q) /\ Failed(op[o], q).kind = op[o].kind
  BY <1>1 DEF Failed
<1>3. CASE Serve(o)
  <2>1. PICK q : \/ op' \in {[op EXCEPT ![o] = r] : r \in GoOn(Served(op[o], q))}
                 \/ op' = [op EXCEPT ![o] = Failed(op[o], q)]
    BY <1>3 DEF Serve
  <2>2. pending' = pending
    BY <1>3 DEF Serve
  <2>3. \E r : "kind" \in DOMAIN r /\ r.kind = op[o].kind /\ op' = [op EXCEPT ![o] = r]
    BY <2>1, <1>1, <1>2, ServedKeeps
  <2>4. QED
    BY <2>2, <2>3, OneGoesOn
<1>4. CASE RequestFails(o)
  <2>1. PICK q : op' = [op EXCEPT ![o] = Failed(op[o], q)]
    BY <1>4 DEF RequestFails
  <2>2. pending' = pending
    BY <1>4 DEF RequestFails
  <2>3. QED
    BY <2>1, <2>2, <1>2, OneGoesOn
<1>5. CASE Undo(o)
  <2>1. PICK e, b : op' \in {[op EXCEPT ![o] = r] :
                              r \in Send([Free EXCEPT !.kind = "undo", !.entry = e, !.stages = b])}
    BY <1>5 DEF Undo
  <2>2. pending' = pending
    BY <1>5 DEF Undo
  <2>3. \E r : "kind" \in DOMAIN r /\ r.kind = "undo" /\ op' = [op EXCEPT ![o] = r]
    BY <2>1, FreeKind, SendKeeps
  <2>4. QED
    BY <2>2, <2>3, OneGoesOn DEF Saving
<1>6. QED
  BY <1>3, <1>4, <1>5

LEMMA EndsCount == ASSUME CountInv, NEW o \in Ops, EditEnds(o) PROVE CountInv'
<1> USE DEF undoVars
<1>1. "kind" \in DOMAIN op[o]
  BY DEF CountInv, Shaped
<1>2. CASE MoveSaved(o)
  <2>1. op[o].kind \in Saving /\ op' = Ended(o)
    BY <1>2 DEF MoveSaved, Done, Saving
  <2>2. pending' = pending - 1 \/ pending' = pending
    BY <1>2 DEF MoveSaved
  <2>3. QED
    BY <2>1, <2>2, SaveEnds, OtherEnds
<1>3. CASE MoveFailed(o)
  <2>1. op[o].kind \in Saving /\ op' = Ended(o)
    BY <1>3 DEF MoveFailed, Broken, Saving
  <2>2. pending' = pending - 1 \/ pending' = pending
    BY <1>3 DEF MoveFailed
  <2>3. QED
    BY <2>1, <2>2, SaveEnds, OtherEnds
<1>4. CASE GroupSaved(o) \/ GroupFailed(o)
  <2>1. /\ op[o].kind \in Saving /\ pending' = pending - 1
        /\ op' = Ended(o) \/ op' = Released(Ended(o))
    BY <1>4 DEF GroupSaved, GroupFailed, Done, Broken, Saving
  <2>2. QED
    BY <2>1, SaveEnds
<1>5. CASE Pasted(o) \/ PasteFailed(o)
  <2>1. op[o].kind \in Saving /\ pending' = pending - 1 /\ op' = Ended(o)
    BY <1>5 DEF Pasted, PasteFailed, Done, Broken, Saving
  <2>2. QED
    BY <2>1, SaveEnds
<1>6. CASE DetailSaved(o) \/ DetailFailed(o) \/ UndoFailed(o)
  <2>1. op' = Ended(o) /\ pending' = pending
    BY <1>6 DEF DetailSaved, DetailFailed, UndoFailed
  <2>2. QED
    BY <2>1, OtherEnds
<1>7. CASE Deleted(o) \/ DeleteFailed(o) \/ Placed(o) \/ PlaceFailed(o) \/ SplitDone(o)
  <2>1. op' = Released(Ended(o)) /\ pending' = pending
    BY <1>7 DEF Deleted, DeleteFailed, Placed, PlaceFailed, SplitDone
  <2>2. QED
    BY <2>1, OtherEnds
<1>8. CASE SplitFailed(o)
  <2>1. PICK x : op' = [op EXCEPT ![o] = [@ EXCEPT !.kind = "unsplit", !.err = "none",
                                                   !.stages = <<>>, !.sent = x]]
    BY <1>8, <1>1 DEF SplitFailed, CountInv, Shaped
  <2>2. pending' = pending
    BY <1>8 DEF SplitFailed
  <2>3. QED
    BY <2>1, <2>2, <1>1, OneGoesOn DEF Saving
<1>9. CASE UndoDone(o)
  <2>1. op' = [op EXCEPT ![o] = [@ EXCEPT !.err = "refetch"]] /\ pending' = pending
    BY <1>9 DEF UndoDone
  <2>2. QED
    BY <2>1, <1>1, OneGoesOn
<1>10. QED
  BY <1>2, <1>3, <1>4, <1>5, <1>6, <1>7, <1>8, <1>9 DEF EditEnds

LEMMA CountStep == CountInv /\ [Next]_vars => CountInv'
<1> SUFFICES ASSUME CountInv, [Next]_vars PROVE CountInv'
  OBVIOUS
<1>1. CASE ServeStray \/ Refetch \/ FetchRead
  BY <1>1, OpStands DEF ServeStray, Refetch, FetchRead, undoVars
<1>2. CASE FetchAnswer \/ FetchFails
  <2>1. op' = Released(op) /\ pending' = pending
    BY <1>2 DEF FetchAnswer, FetchFails, undoVars
  <2>2. Shaped(op') /\ \A p \in Ops : op'[p].kind \in Saving => op[p].kind \in Saving
    BY <2>1, ReleasedKeeps, FreeKind DEF CountInv
  <2>3. QED
    BY <2>1, <2>2, CountStands
<1>3. CASE UNCHANGED vars
  BY <1>3, OpStands DEF vars, undoVars
<1>4. QED
  BY <1>1, <1>2, <1>3, EditsCount, RequestsCount, EndsCount DEF Next, OpSteps, FetchSteps

LEMMA CountInit == Init => CountInv
<1> SUFFICES ASSUME Init PROVE CountInv
  OBVIOUS
<1>1. Shaped(op) /\ \A o \in Ops : op[o].kind \notin Saving
  BY FreeKind DEF Init, Shaped
<1>2. Savers = {}
  BY <1>1 DEF Savers
<1>3. Cardinality(Savers) = 0
  BY <1>2, FS_EmptySet
<1>4. QED
  BY <1>1, <1>3 DEF Init, CountInv

\* A paste may start only while the count is zero: then no geometry is being saved, in
\* whatever order the saves of any number of coroutines overlap, end, fail or are
\* superseded.
THEOREM PendingHolds == Spec => []PendingCoversSaves
<1>1. CountInv => PendingCoversSaves
  <2> SUFFICES ASSUME CountInv, pending = 0, NEW o \in Ops, op[o].kind \in Saving PROVE FALSE
    BY DEF PendingCoversSaves, Saving
  <2>1. Savers # {}
    BY DEF Savers
  <2>2. Cardinality(Savers) # 0
    BY <2>1, SaversFinite, FS_EmptySet
  <2>3. QED
    BY <2>2, SaversFinite DEF CountInv
<1>2. QED
  BY <1>1, CountInit, CountStep, PTL DEF Spec

-------------------------------------------------------------------------------
(* The undo stack.                                                            *)

\* One undo at a time; while it is under way nothing is pushed, so that there is room for
\* the entry it took, should it fail.
StackInv ==
  /\ \E S : stack \in Seq(S)
  /\ Len(stack) <= MaxUndo
  /\ \A p, q \in Ops : op[p].kind = "undo" /\ op[q].kind = "undo" => p = q
  /\ Undoing => Len(stack) < MaxUndo

\* No undo begins.
NoUndoBegins == \A p \in Ops : op'[p].kind = "undo" => op[p].kind = "undo"

LEMMA StackStands ==
  ASSUME StackInv, NoUndoBegins, stack' = stack
  PROVE  StackInv'
<1>1. Undoing' => Undoing
  BY DEF Undoing, NoUndoBegins
<1>2. \E S : stack' \in Seq(S)
  BY DEF StackInv
<1>3. QED
  BY <1>1, <1>2 DEF StackInv, NoUndoBegins

LEMMA StackPushed ==
  ASSUME StackInv, NoUndoBegins, NEW entry, Push(entry)
  PROVE  StackInv'
<1>1. CASE Undoing
  BY <1>1, StackStands DEF Push
<1>2. CASE ~Undoing
  <2>1. ~Undoing'
    BY <1>2 DEF Undoing, NoUndoBegins
  <2>2. PICK S : stack \in Seq(S)
    BY DEF StackInv
  <2>3. Append(stack, entry) \in Seq(S \cup {entry}) /\ Len(Append(stack, entry)) = Len(stack) + 1
    <3>1. stack \in Seq(S \cup {entry})
      BY <2>2
    <3>2. QED
      BY <3>1
  <2>4. /\ stack' \in Seq(S \cup {entry})
        /\ Len(stack') <= MaxUndo
    BY <1>2, <2>3, MapAssumption DEF Push, StackInv
  <2>5. QED
    BY <2>1, <2>4 DEF StackInv, Undoing
<1>3. QED
  BY <1>1, <1>2

LEMMA EndsStack ==
  ASSUME CountInv, StackInv, NEW o \in Ops, EditEnds(o)
  PROVE  StackInv'
<1> USE DEF undoVars
<1>1. ASSUME op' = Ended(o) \/ op' = Released(Ended(o)) PROVE NoUndoBegins
  BY <1>1, EndedFrees DEF NoUndoBegins
<1>2. CASE MoveSaved(o)
  <2>1. stack' = stack \/ \E entry : Push(entry)
    BY <1>2 DEF MoveSaved
  <2>2. op' = Ended(o)
    BY <1>2 DEF MoveSaved
  <2>3. QED
    BY <1>1, <2>1, <2>2, StackStands, StackPushed
<1>3. CASE GroupSaved(o) \/ DetailSaved(o) \/ Deleted(o) \/ Placed(o) \/ SplitDone(o) \/ Pasted(o)
  <2>1. op' = Ended(o) \/ op' = Released(Ended(o))
    BY <1>3 DEF GroupSaved, DetailSaved, Deleted, Placed, SplitDone, Pasted
  <2>2. \E entry : Push(entry)
    BY <1>3 DEF GroupSaved, DetailSaved, Deleted, Placed, SplitDone, Pasted
  <2>3. QED
    BY <1>1, <2>1, <2>2, StackPushed
<1>4. CASE MoveFailed(o) \/ GroupFailed(o) \/ DetailFailed(o) \/ DeleteFailed(o) \/ PlaceFailed(o)
           \/ PasteFailed(o)
  <2>1. op' = Ended(o) \/ op' = Released(Ended(o))
    BY <1>4 DEF MoveFailed, GroupFailed, DetailFailed, DeleteFailed, PlaceFailed, PasteFailed
  <2>2. stack' = stack
    BY <1>4 DEF MoveFailed, GroupFailed, DetailFailed, DeleteFailed, PlaceFailed, PasteFailed
  <2>3. QED
    BY <1>1, <2>1, <2>2, StackStands
<1>5. CASE SplitFailed(o)
  <2>1. PICK x : op' = [op EXCEPT ![o] = [@ EXCEPT !.kind = "unsplit", !.err = "none",
                                                   !.stages = <<>>, !.sent = x]]
    BY <1>5 DEF SplitFailed, CountInv, Shaped
  <2>2. NoUndoBegins /\ stack' = stack
    BY <1>5, <2>1 DEF SplitFailed, CountInv, Shaped, NoUndoBegins
  <2>3. QED
    BY <2>2, StackStands
<1>6. CASE UndoDone(o)
  <2>1. op' = [op EXCEPT ![o] = [@ EXCEPT !.err = "refetch"]] /\ stack' = stack
    BY <1>6 DEF UndoDone
  <2>2. NoUndoBegins
    BY <2>1 DEF CountInv, Shaped, NoUndoBegins
  <2>3. QED
    BY <2>1, <2>2, StackStands
<1>7. CASE UndoFailed(o)
  <2>1. op' = Ended(o) /\ stack' = Append(stack, op[o].entry) /\ op[o].kind = "undo"
    BY <1>7 DEF UndoFailed, Broken
  <2>2. NoUndoBegins /\ op'[o].kind # "undo"
    BY <1>1, <2>1, EndedFrees
  <2>3. ~Undoing'
    BY <2>1, <2>2 DEF StackInv, NoUndoBegins, Undoing
  <2>4. PICK S : stack \in Seq(S)
    BY DEF StackInv
  <2>5. stack' \in Seq(S \cup {op[o].entry}) /\ Len(stack') = Len(stack) + 1
    <3>1. stack \in Seq(S \cup {op[o].entry})
      BY <2>4
    <3>2. QED
      BY <2>1, <3>1
  <2>6. Len(stack) < MaxUndo
    BY <2>1 DEF StackInv, Undoing
  <2>7. Len(stack') <= MaxUndo
    BY <2>4, <2>5, <2>6, MapAssumption
  <2>8. QED
    BY <2>3, <2>5, <2>7 DEF StackInv, Undoing
<1>8. QED
  BY <1>2, <1>3, <1>4, <1>5, <1>6, <1>7 DEF EditEnds

LEMMA RequestsStack ==
  ASSUME CountInv, StackInv, NEW o \in Ops, Serve(o) \/ RequestFails(o)
  PROVE  StackInv'
<1>1. "kind" \in DOMAIN op[o]
  BY DEF CountInv, Shaped
<1>2. ASSUME NEW q PROVE "kind" \in DOMAIN Failed(op[o], q) /\ Failed(op[o], q).kind = op[o].kind
  BY <1>1 DEF Failed
<1>3. PICK q : \/ op' \in {[op EXCEPT ![o] = r] : r \in GoOn(Served(op[o], q))}
               \/ op' = [op EXCEPT ![o] = Failed(op[o], q)]
  BY DEF Serve, RequestFails
<1>4. PICK r : r.kind = op[o].kind /\ op' = [op EXCEPT ![o] = r]
  BY <1>1, <1>2, <1>3, ServedKeeps
<1>5. NoUndoBegins
  BY <1>4 DEF NoUndoBegins, CountInv, Shaped
<1>6. stack' = stack
  BY DEF Serve, RequestFails, undoVars
<1>7. QED
  BY <1>5, <1>6, StackStands

LEMMA UndoStack ==
  ASSUME CountInv, StackInv, NEW o \in Ops, Undo(o)
  PROVE  StackInv'
<1>1. /\ ~Undoing /\ stack # <<>>
      /\ stack' = SubSeq(stack, 1, Len(stack) - 1)
  BY DEF Undo
<1>2. PICK S : stack \in Seq(S)
  BY DEF StackInv
<1>3. Len(stack) \in Nat \ {0} /\ Len(stack) - 1 \in 0..Len(stack)
  BY <1>1, <1>2
<1>4. stack' \in Seq(S) /\ Len(stack') = Len(stack) - 1
  <2> DEFINE n == Len(stack) - 1
  <2>1. n \in Int /\ 1 \in Int /\ (1 <= n \/ n = 0)
    <3>1. \A k \in Nat \ {0} : k - 1 \in Int /\ 1 \in Int /\ (1 <= k - 1 \/ k - 1 = 0)
      OBVIOUS
    <3>2. QED
      BY <1>3, <3>1
  <2>2. \A i \in 1..n : stack[i] \in S
    <3>1. \A i \in 1..n : i \in 1..Len(stack)
      BY <1>3
    <3>2. QED
      BY <1>2, <3>1
  <2>3. stack' = SubSeq(stack, 1, n)
    BY <1>1
  <2> HIDE DEF n
  <2>4. /\ SubSeq(stack, 1, n) \in Seq(S)
        /\ Len(SubSeq(stack, 1, n)) = IF 1 <= n THEN n - 1 + 1 ELSE 0
    BY <2>1, <2>2, SubSeqProperties
  <2>5. Len(SubSeq(stack, 1, n)) = n
    BY <2>1, <2>4
  <2>6. QED
    BY <2>3, <2>4, <2>5 DEF n
<1>5. Len(stack') < MaxUndo
  BY <1>3, <1>4, MapAssumption DEF StackInv
<1>6. PICK r : op' = [op EXCEPT ![o] = r]
  BY DEF Undo
<1>7. \A p \in Ops \ {o} : op'[p].kind # "undo"
  BY <1>1, <1>6 DEF Undoing, CountInv, Shaped
<1>8. Len(stack') <= MaxUndo
  BY <1>3, <1>4, <1>5, MapAssumption
<1>9. \A p, q \in Ops : op'[p].kind = "undo" /\ op'[q].kind = "undo" => p = q
  BY <1>7
<1>10. QED
  BY <1>4, <1>5, <1>8, <1>9 DEF StackInv

LEMMA StackStep ==
  ASSUME CountInv, StackInv, [Next]_vars
  PROVE  StackInv'
<1> USE DEF undoVars
<1>1. CASE Edits
  <2>1. PICK rec, f : /\ "kind" \in DOMAIN rec /\ rec.kind # "undo"
                      /\ f = op \/ f = Released(op)
                      /\ Begin(rec, f)
                      /\ stack' = stack
    BY <1>1, EditsBegin
  <2>2. \E o \in Ops : /\ op'[o].kind = rec.kind
                       /\ \A p \in Ops \ {o} : op'[p].kind \in {op[p].kind, "free"}
    BY <2>1, BeginKinds
  <2>3. NoUndoBegins
    BY <2>1, <2>2 DEF NoUndoBegins
  <2>4. QED
    BY <2>1, <2>3, StackStands
<1>2. CASE FetchAnswer \/ FetchFails
  <2>1. op' = Released(op) /\ stack' = stack
    BY <1>2 DEF FetchAnswer, FetchFails
  <2>2. NoUndoBegins
    BY <2>1, ReleasedKeeps DEF CountInv, NoUndoBegins
  <2>3. QED
    BY <2>1, <2>2, StackStands
<1>3. CASE ServeStray \/ Refetch \/ FetchRead \/ UNCHANGED vars
  <2>1. UNCHANGED <<op, stack>>
    BY <1>3 DEF ServeStray, Refetch, FetchRead, vars
  <2>2. QED
    BY <2>1, StackStands DEF NoUndoBegins
<1>4. QED
  BY <1>1, <1>2, <1>3, EndsStack, RequestsStack, UndoStack DEF Next, OpSteps, FetchSteps

LEMMA StackInit == Init => StackInv
<1> SUFFICES ASSUME Init PROVE StackInv
  OBVIOUS
<1>1. \A o \in Ops : op[o].kind # "undo"
  BY FreeKind DEF Init
<1>2. stack \in Seq({}) /\ Len(stack) = 0
  BY DEF Init
<1>3. QED
  BY <1>1, <1>2, MapAssumption DEF StackInv, Undoing

\* The undo stack never holds more than MAX_UNDO_STACK entries, although a failed undo
\* puts its entry back without looking: pushUndo records nothing while an undo is under way.
THEOREM StackBounded == Spec => [](Len(stack) <= MaxUndo)
<1>1. StackInv => Len(stack) <= MaxUndo
  BY DEF StackInv
<1>2. Init => CountInv /\ StackInv
  BY CountInit, StackInit
<1>3. CountInv /\ StackInv /\ [Next]_vars => CountInv' /\ StackInv'
  BY CountStep, StackStep
<1>4. QED
  BY <1>1, <1>2, <1>3, PTL DEF Spec


-------------------------------------------------------------------------------
(* Types: what the invariant says.                                            *)

\* What an update may carry: the geometry of an object, or all of it.
Shape(n) == [ends : {s \in Seq(Places(n)) : Len(s) \in {1, 2}}, path : Nat]
Part(n) == Shape(n) \cup Obj(n)

\* Maps of objects, or of parts, by ids below k.
Map(m, S, k) == m \in [DOMAIN m -> S] /\ DOMAIN m \subseteq 1..(k - 1)

\* The requests of some stages, and those that a coroutine still waits for or will send.
Requests(stages) == UNION {stages[i] : i \in DOMAIN stages}
Todo(rec) == rec.sent \cup Requests(rec.stages)

\* A request of the first n edits.
RequestTyped(q, n) ==
  /\ q.do \in {"update", "delete", "create"}
  /\ q.do = "update" => q.objs[1] \in Part(n)
  /\ q.do = "create" => q.objs \in Seq(Obj(n))

\* An entry of the undo stack, about ids below k; what it restores is whole.
EntryTyped(entry, n, k) ==
  /\ DOMAIN entry = DOMAIN NoEntry
  /\ entry.undo \in {"none", "patch", "restore", "drop", "split"}
  /\ entry.ids \subseteq 1..(k - 1) /\ Map(entry.objs, Part(n), k)
  /\ entry.undo = "restore" =>
       entry.ids # {} /\ entry.ids = DOMAIN entry.objs /\ Map(entry.objs, Obj(n), k)
  /\ entry.undo = "patch" => DOMAIN entry.objs # {}

\* The coroutines whose entry is for the undo stack.
Recorded == {"move", "group", "detail", "delete", "split", "undo"}

\* A coroutine: its requests, its entry, the objects it keeps and those it got.
OpTyped(rec, n, k, s) ==
  /\ DOMAIN rec = DOMAIN Free
  /\ \E S : rec.stages \in Seq(S)
  /\ \A q \in Todo(rec) : RequestTyped(q, n)
  /\ EntryTyped(rec.entry, n, k) /\ (rec.kind \in Recorded => rec.entry.undo # "none")
  /\ rec.kind = "split" => rec.entry.undo = "split"
  /\ Map(rec.snap, Part(n), k) /\ (rec.kind = "delete" => Map(rec.snap, Obj(n), k))
  /\ Map(rec.got, Obj(n), k)
  /\ rec.seq \in 0..s

\* The backend, the cache, an answer to a fetch, lost requests and the undo stack.
MapsTyped ==
  /\ edits \in Nat /\ nextId \in Nat \ {0} /\ seq \in Nat
  /\ Map(server, Obj(edits), nextId) /\ Map(cache, Obj(edits), nextId)
  /\ Map(fetch.data, Obj(edits), nextId)
  /\ \A q \in strays : RequestTyped(q, edits)
  /\ \A i \in DOMAIN stack : EntryTyped(stack[i], edits, nextId) /\ stack[i].undo # "none"

OpsTyped == DOMAIN op = Ops /\ \A o \in Ops : OpTyped(op[o], edits, nextId, seq)

\* The inductive invariant of the types: no place, id or drag is of an edit to come.
TypeInv == MapsTyped /\ OpsTyped /\ drift \in BOOLEAN /\ holes \in BOOLEAN

-------------------------------------------------------------------------------
(* Types: objects, maps and requests.                                         *)

\* A part laid over an object.
LEMMA PartOver ==
  ASSUME NEW n, NEW p \in Part(n), NEW x \in Obj(n)
  PROVE  /\ Upserted(x, p) \in Obj(n)
         /\ Upserted(x, p).ends = p.ends /\ Upserted(x, p).path = p.path
         /\ p \in Obj(n) => Upserted(x, p) = p
         /\ p \in Shape(n) => Upserted(x, p).form = x.form
<1>1. CASE p \in Shape(n)
  <2>1. Upserted(x, p) = [ends |-> p.ends, path |-> p.path, form |-> x.form]
    BY <1>1 DEF Shape, Obj, Upserted
  <2>2. QED
    BY <1>1, <2>1 DEF Shape, Obj
<1>2. CASE p \in Obj(n)
  <2>1. Upserted(x, p) = p
    BY <1>2 DEF Obj, Upserted
  <2>2. QED
    BY <1>2, <2>1 DEF Shape, Obj
<1>3. QED
  BY <1>1, <1>2 DEF Part

\* More edits, more ids, more drags.
LEMMA ObjGrows ==
  ASSUME NEW n \in Nat, NEW n2 \in Nat, n <= n2
  PROVE  Obj(n) \subseteq Obj(n2) /\ Part(n) \subseteq Part(n2)
<1>1. Places(n) \subseteq Places(n2)
  BY DEF Places
<1>2. {s \in Seq(Places(n)) : Len(s) \in {1, 2}} \subseteq {s \in Seq(Places(n2)) : Len(s) \in {1, 2}}
  BY <1>1
<1>3. QED
  BY <1>2 DEF Obj, Shape, Part

LEMMA MapGrows ==
  ASSUME NEW S, NEW T, S \subseteq T, NEW k \in Nat, NEW k2 \in Nat, k <= k2,
         NEW m, Map(m, S, k)
  PROVE  Map(m, T, k2)
  BY DEF Map

LEMMA TypesGrow ==
  ASSUME NEW n \in Nat, NEW n2 \in Nat, n <= n2, NEW k \in Nat, NEW k2 \in Nat, k <= k2,
         NEW s \in Nat, NEW s2 \in Nat, s <= s2
  PROVE  /\ \A q : RequestTyped(q, n) => RequestTyped(q, n2)
         /\ \A e : EntryTyped(e, n, k) => EntryTyped(e, n2, k2)
         /\ \A rec : OpTyped(rec, n, k, s) => OpTyped(rec, n2, k2, s2)
<1>1. Obj(n) \subseteq Obj(n2) /\ Part(n) \subseteq Part(n2)
  BY ObjGrows
<1>2. \A m : /\ Map(m, Obj(n), k) => Map(m, Obj(n2), k2)
             /\ Map(m, Part(n), k) => Map(m, Part(n2), k2)
  BY <1>1, MapGrows
<1>3. \A q : RequestTyped(q, n) => RequestTyped(q, n2)
  BY <1>1 DEF RequestTyped
<1>4. \A e : EntryTyped(e, n, k) => EntryTyped(e, n2, k2)
  BY <1>2 DEF EntryTyped
<1>5. ASSUME NEW rec, OpTyped(rec, n, k, s) PROVE OpTyped(rec, n2, k2, s2)
  BY <1>2, <1>3, <1>4, <1>5 DEF OpTyped
<1>6. QED
  BY <1>3, <1>4, <1>5

LEMMA NoMap == ASSUME NEW S, NEW k PROVE Map(None, S, k) /\ DOMAIN None = {}
  BY DEF Map, None

LEMMA UpsertedTyped ==
  ASSUME NEW S, NEW k, NEW m, NEW new, Map(m, S, k), Map(new, S, k)
  PROVE  Map(Upserted(m, new), S, k)
  BY DEF Map, Upserted

LEMMA OnlyTyped ==
  ASSUME NEW S, NEW k, NEW m, Map(m, S, k), NEW ids \in SUBSET DOMAIN m
  PROVE  Map(Only(m, ids), S, k) /\ DOMAIN Only(m, ids) = ids
  BY DEF Map, Only

LEMMA RemovedTyped ==
  ASSUME NEW S, NEW k, NEW m, Map(m, S, k), NEW ids
  PROVE  Map(Removed(m, ids), S, k)
  BY DEF Map, Only, Removed

LEMMA PatchedTyped ==
  ASSUME NEW n, NEW k, NEW m, Map(m, Obj(n), k), NEW new,
         \A i \in DOMAIN new \cap DOMAIN m : new[i] \in Part(n)
  PROVE  Map(Patched(m, new), Obj(n), k) /\ DOMAIN Patched(m, new) = DOMAIN m
<1>1. \A i \in DOMAIN m : m[i] \in Obj(n)
  BY DEF Map
<1>2. \A i \in DOMAIN m : Patched(m, new)[i] \in Obj(n)
  BY <1>1, PartOver DEF Patched
<1>3. QED
  BY <1>2 DEF Map, Patched

LEMMA GeometryTyped ==
  ASSUME NEW n, NEW x \in Obj(n)
  PROVE  Geometry(x) \in Shape(n) /\ Geometry(x) \in Part(n)
  BY DEF Geometry, Obj, Shape, Part

LEMMA GeometriesTyped ==
  ASSUME NEW n, NEW k, NEW m, Map(m, Obj(n), k), NEW ids \in SUBSET DOMAIN m
  PROVE  Map(Geometries(m, ids), Part(n), k) /\ DOMAIN Geometries(m, ids) = ids
<1>1. \A i \in ids : Geometry(m[i]) \in Part(n)
  BY GeometryTyped DEF Map
<1>2. QED
  BY <1>1 DEF Geometries, Map

LEMMA ExpandTyped ==
  ASSUME NEW m, NEW ids \in SUBSET DOMAIN m
  PROVE  Expand(m, ids) \subseteq DOMAIN m /\ ids \subseteq Expand(m, ids)
  BY DEF Expand, Linked

LEMMA TabExpandTyped ==
  ASSUME NEW m, NEW ids \in SUBSET DOMAIN m
  PROVE  TabExpand(m, ids) \subseteq DOMAIN m /\ ids \subseteq TabExpand(m, ids)
  BY DEF TabExpand, TabLinked

-------------------------------------------------------------------------------
(* Types: stages, and what the backend does.                                  *)

LEMMA NoStages ==
  Requests(<<>>) = {} /\ \A S : <<>> \in Seq(S)
  BY DEF Requests

\* A sequence of stages is its first and the rest.
LEMMA HeadAndTail ==
  ASSUME NEW S, NEW s \in Seq(S), s # <<>>
  PROVE  /\ Tail(s) \in Seq(S) /\ Head(s) \subseteq Requests(s)
         /\ Requests(s) = Head(s) \cup Requests(Tail(s))
<1>1. Len(s) \in Nat \ {0} /\ DOMAIN s = 1..Len(s) /\ Head(s) = s[1]
  OBVIOUS
<1>2. /\ Tail(s) \in Seq(S) /\ DOMAIN Tail(s) = 1..(Len(s) - 1)
      /\ \A i \in 1..(Len(s) - 1) : Tail(s)[i] = s[i + 1]
  OBVIOUS
<1>3. ASSUME NEW x \in Requests(s) PROVE x \in Head(s) \cup Requests(Tail(s))
  <2>1. PICK i \in 1..Len(s) : x \in s[i]
    BY <1>1, <1>3 DEF Requests
  <2>2. CASE i = 1
    BY <1>1, <2>1, <2>2
  <2>3. CASE i # 1
    <3>1. i - 1 \in 1..(Len(s) - 1) /\ (i - 1) + 1 = i
      BY <1>1, <2>3
    <3>2. x \in Tail(s)[i - 1]
      BY <1>2, <2>1, <3>1
    <3>3. QED
      BY <1>2, <3>1, <3>2 DEF Requests
  <2>4. QED
    BY <2>2, <2>3
<1>4. Head(s) \subseteq Requests(s)
  BY <1>1 DEF Requests
<1>5. Requests(Tail(s)) \subseteq Requests(s)
  <2>1. \A i \in 1..(Len(s) - 1) : i + 1 \in 1..Len(s)
    BY <1>1
  <2>2. QED
    BY <1>1, <1>2, <2>1 DEF Requests
<1>6. QED
  BY <1>2, <1>3, <1>4, <1>5

LEMMA StagesJoin ==
  ASSUME NEW S, NEW s \in Seq(S), NEW T, NEW t \in Seq(T)
  PROVE  Requests(s \o t) = Requests(s) \cup Requests(t)
<1>1. s \in Seq(S \cup T) /\ t \in Seq(S \cup T)
  OBVIOUS
<1>2. s \o t \in Seq(S \cup T) /\ Len(s \o t) = Len(s) + Len(t)
  BY <1>1
<1>3. /\ DOMAIN (s \o t) = 1..(Len(s) + Len(t)) /\ DOMAIN s = 1..Len(s) /\ DOMAIN t = 1..Len(t)
      /\ Len(s) \in Nat /\ Len(t) \in Nat
  BY <1>2
<1>4. /\ \A i \in 1..Len(s) : (s \o t)[i] = s[i]
      /\ \A i \in 1..Len(t) : (s \o t)[Len(s) + i] = t[i]
  BY <1>1
<1>5. Requests(s) \cup Requests(t) \subseteq Requests(s \o t)
  <2>1. \A i \in 1..Len(s) : i \in 1..(Len(s) + Len(t))
    BY <1>3
  <2>2. \A i \in 1..Len(t) : Len(s) + i \in 1..(Len(s) + Len(t))
    BY <1>3
  <2>3. QED
    BY <1>3, <1>4, <2>1, <2>2 DEF Requests
<1>6. ASSUME NEW x \in Requests(s \o t) PROVE x \in Requests(s) \cup Requests(t)
  <2>1. PICK i \in 1..(Len(s) + Len(t)) : x \in (s \o t)[i]
    BY <1>3, <1>6 DEF Requests
  <2>2. CASE i \in 1..Len(s)
    BY <1>3, <1>4, <2>1, <2>2 DEF Requests
  <2>3. CASE i \notin 1..Len(s)
    <3>1. i - Len(s) \in 1..Len(t) /\ Len(s) + (i - Len(s)) = i
      BY <1>3, <2>3
    <3>2. x \in t[i - Len(s)]
      BY <1>4, <2>1, <3>1
    <3>3. QED
      BY <1>3, <3>1, <3>2 DEF Requests
  <2>4. QED
    BY <2>2, <2>3
<1>7. QED
  BY <1>5, <1>6

LEMMA JoinTyped ==
  ASSUME NEW S, NEW s \in Seq(S), NEW T, NEW t \in Seq(T)
  PROVE  s \o t \in Seq(S \cup T) /\ (s # <<>> \/ t # <<>> => s \o t # <<>>)
<1>1. s \in Seq(S \cup T) /\ t \in Seq(S \cup T)
  OBVIOUS
<1>2. s \o t \in Seq(S \cup T) /\ Len(s \o t) = Len(s) + Len(t)
  BY <1>1
<1>3. Len(s) \in Nat /\ Len(t) \in Nat /\ (s = <<>> \/ Len(s) > 0) /\ (t = <<>> \/ Len(t) > 0)
  BY <1>1
<1>4. s \o t = <<>> => Len(s) + Len(t) = 0
  BY <1>2
<1>5. QED
  BY <1>2, <1>3, <1>4

LEMMA OneStage ==
  ASSUME NEW reqs
  PROVE  /\ <<reqs>> \in Seq({reqs}) /\ Requests(<<reqs>>) = reqs /\ <<reqs>> # <<>>
         /\ Requests(Stage(reqs)) = reqs /\ Stage(reqs) \in Seq({reqs})
         /\ reqs # {} => Stage(reqs) # <<>>
<1>1. /\ <<reqs>> \in Seq({reqs}) /\ DOMAIN <<reqs>> = {1} /\ <<reqs>>[1] = reqs
      /\ <<reqs>> # <<>>
  OBVIOUS
<1>2. Requests(<<reqs>>) = reqs
  BY <1>1 DEF Requests
<1>3. CASE reqs = {}
  <2>1. Stage(reqs) = <<>>
    BY <1>3 DEF Stage
  <2>2. QED
    BY <1>1, <1>2, <1>3, <2>1, NoStages
<1>4. CASE reqs # {}
  <2>1. Stage(reqs) = <<reqs>>
    BY <1>4 DEF Stage
  <2>2. QED
    BY <1>1, <1>2, <2>1
<1>5. QED
  BY <1>3, <1>4

\* A coroutine sends: what was to be sent is, or is yet to be sent.
LEMMA SendTodo ==
  ASSUME NEW rec, DOMAIN rec = DOMAIN Free, NEW S, rec.stages \in Seq(S), rec.stages # <<>>,
         NEW r \in Send(rec)
  PROVE  /\ \E x, y : r = [rec EXCEPT !.sent = x, !.stages = y]
         /\ \E T : r.stages \in Seq(T)
         /\ Requests(rec.stages) = Todo(r)
<1> DEFINE stage == Head(rec.stages)
<1>1. /\ Tail(rec.stages) \in Seq(S) /\ Requests(rec.stages) = stage \cup Requests(Tail(rec.stages))
  BY HeadAndTail
<1>2. "sent" \in DOMAIN rec /\ "stages" \in DOMAIN rec
  BY DEF Free
<1>3. ASSUME r = [rec EXCEPT !.sent = stage, !.stages = Tail(rec.stages)]
      PROVE  /\ \E T : r.stages \in Seq(T)
             /\ Requests(rec.stages) = Todo(r)
  BY <1>1, <1>2, <1>3 DEF Todo
<1>4. ASSUME NEW q \in stage,
             r = [rec EXCEPT !.sent = {q}, !.stages = <<stage \ {q}>> \o Tail(rec.stages)]
      PROVE  /\ \E T : r.stages \in Seq(T)
             /\ Requests(rec.stages) = Todo(r)
  <2>1. r.sent = {q} /\ r.stages = <<stage \ {q}>> \o Tail(rec.stages)
    BY <1>2, <1>4
  <2> DEFINE first == <<stage \ {q}>>
             rest == Tail(rec.stages)
  <2>2. /\ r.stages = first \o rest /\ Requests(first) = stage \ {q}
        /\ rest \in Seq(S) /\ Requests(rec.stages) = stage \cup Requests(rest)
    BY <1>1, <2>1, OneStage
  <2>3. PICK T : first \in Seq(T)
    BY OneStage
  <2> HIDE DEF first, rest, stage
  <2>4. r.stages \in Seq(T \cup S)
    BY <2>2, <2>3, JoinTyped
  <2>5. Requests(r.stages) = Requests(first) \cup Requests(rest)
    BY <2>2, <2>3, StagesJoin
  <2>6. Requests(rec.stages) = {q} \cup (Requests(first) \cup Requests(rest))
    BY <1>4, <2>2
  <2>7. QED
    BY <2>1, <2>4, <2>5, <2>6 DEF Todo
<1>5. CASE \A q \in stage : q.do = "update"
  <2>1. PICK q \in stage : r = [rec EXCEPT !.sent = {q},
                                  !.stages = IF stage = {q} THEN Tail(rec.stages)
                                             ELSE <<stage \ {q}>> \o Tail(rec.stages)]
    BY <1>5 DEF Send
  <2>2. CASE stage = {q}
    <3>1. r = [rec EXCEPT !.sent = stage, !.stages = Tail(rec.stages)]
      BY <2>1, <2>2
    <3>2. QED
      BY <1>3, <3>1
  <2>3. CASE stage # {q}
    <3>1. r = [rec EXCEPT !.sent = {q}, !.stages = <<stage \ {q}>> \o Tail(rec.stages)]
      BY <2>1, <2>3
    <3>2. QED
      BY <1>4, <3>1
  <2>4. QED
    BY <2>2, <2>3
<1>6. CASE ~\A q \in stage : q.do = "update"
  <2>1. r = [rec EXCEPT !.sent = stage, !.stages = Tail(rec.stages)]
    BY <1>6 DEF Send
  <2>2. QED
    BY <1>3, <2>1
<1>7. QED
  BY <1>5, <1>6

LEMMA FreeTyped ==
  ASSUME NEW n, NEW k \in Nat, NEW s \in Nat
  PROVE  /\ OpTyped(Free, n, k, s) /\ Todo(Free) = {} /\ Free.stages = <<>> /\ Free.sent = {}
         /\ EntryTyped(NoEntry, n, k)
<1>1. Todo(Free) = {}
  BY NoStages DEF Todo, Free
<1>2. EntryTyped(NoEntry, n, k)
  BY NoMap DEF EntryTyped, NoEntry
<1>3. DOMAIN Free = DOMAIN Free /\ Free.entry = NoEntry /\ Free.snap = None /\ Free.got = None
      /\ Free.seq = 0 /\ Free.stages = <<>> /\ Free.sent = {} /\ Free.kind = "free" /\ "free" \notin Recorded
  BY DEF Free, Recorded
<1>4. \E S : Free.stages \in Seq(S)
  BY <1>3, NoStages
<1>5. OpTyped(Free, n, k, s)
  BY <1>1, <1>2, <1>3, <1>4, NoMap DEF OpTyped
<1>6. QED
  BY <1>1, <1>2, <1>3, <1>5

LEMMA SendTyped ==
  ASSUME NEW n, NEW k, NEW s, NEW rec, OpTyped(rec, n, k, s), rec.stages # <<>>, NEW r \in Send(rec)
  PROVE  OpTyped(r, n, k, s)
<1>1. PICK S : rec.stages \in Seq(S)
  BY DEF OpTyped
<1>2. /\ \E x, y : r = [rec EXCEPT !.sent = x, !.stages = y]
      /\ \E T : r.stages \in Seq(T)
      /\ Requests(rec.stages) = Todo(r)
  BY <1>1, SendTodo DEF OpTyped
<1>3. PICK x, y : r = [rec EXCEPT !.sent = x, !.stages = y]
  BY <1>2
<1>4. /\ DOMAIN r = DOMAIN Free /\ r.entry = rec.entry /\ r.snap = rec.snap /\ r.got = rec.got
      /\ r.seq = rec.seq /\ r.kind = rec.kind
  BY <1>3 DEF OpTyped
<1>5. \A q \in Todo(r) : RequestTyped(q, n)
  BY <1>2 DEF OpTyped, Todo
<1>6. QED
  BY <1>2, <1>4, <1>5 DEF OpTyped

\* What is created gets the next ids.
LEMMA MadeTyped ==
  ASSUME MapsTyped, NEW q, NEW n, q.objs \in Seq(Obj(n))
  PROVE  /\ Map(Made(q), Obj(n), nextId + Len(q.objs)) /\ Len(q.objs) \in Nat
         /\ DOMAIN Made(q) = nextId..(nextId + Len(q.objs) - 1)
<1>1. Len(q.objs) \in Nat /\ nextId \in Nat \ {0}
  BY DEF MapsTyped
<1>2. DOMAIN Made(q) = nextId..(nextId + Len(q.objs) - 1)
  BY DEF Made
<1>3. \A i \in nextId..(nextId + Len(q.objs) - 1) : i - nextId + 1 \in 1..Len(q.objs)
  BY <1>1
<1>4. \A j \in 1..Len(q.objs) : q.objs[j] \in Obj(n)
  OBVIOUS
<1>5. \A i \in DOMAIN Made(q) : Made(q)[i] \in Obj(n)
  BY <1>2, <1>3, <1>4 DEF Made
<1>6. \A i \in nextId..(nextId + Len(q.objs) - 1) : i \in 1..(nextId + Len(q.objs) - 1)
  BY <1>1
<1>7. Made(q) = [i \in DOMAIN Made(q) |-> Made(q)[i]]
  BY DEF Made
<1>8. QED
  BY <1>1, <1>2, <1>5, <1>6, <1>7 DEF Map

\* The backend's map stays a map of objects.
LEMMA ApplyTyped ==
  ASSUME MapsTyped, NEW q, RequestTyped(q, edits), Apply(q)
  PROVE  /\ nextId' \in Nat \ {0} /\ nextId <= nextId'
         /\ Map(server', Obj(edits), nextId')
<1>1. nextId \in Nat \ {0} /\ Map(server, Obj(edits), nextId)
  BY DEF MapsTyped
<1>2. CASE q.do = "update"
  <2>1. server' = Patched(server, [i \in q.ids |-> q.objs[1]]) /\ nextId' = nextId
    BY <1>2 DEF Apply
  <2>2. QED
    BY <1>1, <1>2, <2>1, PatchedTyped DEF RequestTyped
<1>3. CASE q.do = "delete"
  <2>1. server' = Removed(server, Expand(server, q.ids)) /\ nextId' = nextId
    BY <1>3 DEF Apply
  <2>2. QED
    BY <1>1, <2>1, RemovedTyped
<1>4. CASE q.do = "create"
  <2>1. server' = Upserted(server, Made(q)) /\ nextId' = nextId + Len(q.objs)
    BY <1>4 DEF Apply
  <2>2. Map(Made(q), Obj(edits), nextId + Len(q.objs)) /\ Len(q.objs) \in Nat
    BY <1>4, MadeTyped DEF RequestTyped
  <2>3. nextId' \in Nat \ {0} /\ nextId <= nextId'
    BY <1>1, <2>1, <2>2
  <2>4. Map(server, Obj(edits), nextId')
    BY <1>1, <2>3, MapGrows
  <2>5. QED
    BY <2>1, <2>2, <2>3, <2>4, UpsertedTyped
<1>5. QED
  BY <1>2, <1>3, <1>4 DEF RequestTyped

\* A request answered, or refused.
LEMMA AnswerTyped ==
  ASSUME MapsTyped, NEW s, NEW rec, OpTyped(rec, edits, nextId, s), NEW q \in rec.sent
  PROVE  /\ Found(q) /\ Apply(q) => OpTyped(Served(rec, q), edits, nextId', s)
         /\ OpTyped(Failed(rec, q), edits, nextId, s)
         /\ Served(rec, q).stages = rec.stages
<1>1. q \in Todo(rec) /\ RequestTyped(q, edits)
  BY DEF OpTyped, Todo
<1>2. nextId \in Nat \ {0} /\ Map(server, Obj(edits), nextId)
  BY DEF MapsTyped
<1>3. PICK got : /\ Served(rec, q) = [rec EXCEPT !.sent = @ \ {q}, !.applied = TRUE, !.got = Upserted(@, got)]
                 /\ q.do = "update" => got = Only(Patched(server, [i \in q.ids |-> q.objs[1]]), q.ids)
                 /\ q.do = "create" => got = Made(q)
                 /\ q.do = "delete" => got = None
  BY <1>1 DEF Served, RequestTyped
<1>4. /\ DOMAIN Served(rec, q) = DOMAIN Free /\ Served(rec, q).entry = rec.entry
      /\ Served(rec, q).snap = rec.snap /\ Served(rec, q).seq = rec.seq
      /\ Served(rec, q).kind = rec.kind /\ Served(rec, q).stages = rec.stages
      /\ Served(rec, q).sent = rec.sent \ {q}
      /\ Served(rec, q).got = Upserted(rec.got, got)
  BY <1>3 DEF OpTyped, Free
<1>5. /\ DOMAIN Failed(rec, q) = DOMAIN Free /\ Failed(rec, q).entry = rec.entry
      /\ Failed(rec, q).snap = rec.snap /\ Failed(rec, q).seq = rec.seq
      /\ Failed(rec, q).kind = rec.kind /\ Failed(rec, q).stages = rec.stages
      /\ Failed(rec, q).sent = rec.sent \ {q} /\ Failed(rec, q).got = rec.got
  BY DEF OpTyped, Free, Failed
<1>6. Todo(Served(rec, q)) \subseteq Todo(rec) /\ Todo(Failed(rec, q)) \subseteq Todo(rec)
  BY <1>4, <1>5 DEF Todo
<1>7. OpTyped(Failed(rec, q), edits, nextId, s)
  BY <1>5, <1>6 DEF OpTyped
<1>8. ASSUME Found(q), Apply(q) PROVE OpTyped(Served(rec, q), edits, nextId', s)
  <2>1. nextId' \in Nat \ {0} /\ nextId <= nextId'
    BY <1>1, <1>8, ApplyTyped
  <2>2. Map(got, Obj(edits), nextId')
    <3>1. CASE q.do = "update"
      <4>1. /\ Map(Patched(server, [i \in q.ids |-> q.objs[1]]), Obj(edits), nextId)
            /\ q.ids \subseteq DOMAIN Patched(server, [i \in q.ids |-> q.objs[1]])
        BY <1>1, <1>2, <1>8, <3>1, PatchedTyped DEF RequestTyped, Found
      <4>2. Map(got, Obj(edits), nextId)
        BY <1>3, <3>1, <4>1, OnlyTyped
      <4>3. QED
        BY <1>2, <2>1, <4>2, MapGrows
    <3>2. CASE q.do = "create"
      <4>1. nextId' = nextId + Len(q.objs)
        BY <1>8, <3>2 DEF Apply
      <4>2. QED
        BY <1>1, <1>3, <3>2, <4>1, MadeTyped DEF RequestTyped
    <3>3. CASE q.do = "delete"
      BY <1>3, <3>3, NoMap
    <3>4. QED
      BY <1>1, <3>1, <3>2, <3>3 DEF RequestTyped
  <2>3. Map(rec.got, Obj(edits), nextId') /\ Map(rec.snap, Part(edits), nextId')
        /\ (rec.kind = "delete" => Map(rec.snap, Obj(edits), nextId'))
    BY <1>2, <2>1, MapGrows DEF OpTyped
  <2>4. Map(Served(rec, q).got, Obj(edits), nextId')
    BY <1>4, <2>2, <2>3, UpsertedTyped
  <2>5. EntryTyped(rec.entry, edits, nextId')
    BY <1>2, <2>1, TypesGrow DEF OpTyped, MapsTyped
  <2>6. QED
    BY <1>4, <1>6, <2>3, <2>4, <2>5 DEF OpTyped
<1>9. QED
  BY <1>4, <1>7, <1>8

LEMMA GoOnTyped ==
  ASSUME NEW n, NEW k, NEW s, NEW rec, OpTyped(rec, n, k, s), NEW r \in GoOn(rec)
  PROVE  OpTyped(r, n, k, s)
  BY SendTyped DEF GoOn

-------------------------------------------------------------------------------
(* Types: the steps.                                                          *)

\* Edits, ids and drags only get more.
Onward ==
  /\ edits' \in Nat /\ edits <= edits' /\ nextId' \in Nat \ {0} /\ nextId <= nextId'
  /\ seq' \in Nat /\ seq <= seq'

LEMMA OnwardGrows ==
  ASSUME MapsTyped, Onward
  PROVE  /\ \A m : /\ Map(m, Obj(edits), nextId) => Map(m, Obj(edits'), nextId')
                   /\ Map(m, Part(edits), nextId) => Map(m, Part(edits'), nextId')
         /\ \A q : RequestTyped(q, edits) => RequestTyped(q, edits')
         /\ \A e : EntryTyped(e, edits, nextId) => EntryTyped(e, edits', nextId')
         /\ \A rec : OpTyped(rec, edits, nextId, seq) => OpTyped(rec, edits', nextId', seq')
<1>1. /\ edits \in Nat /\ edits' \in Nat /\ edits <= edits' /\ nextId \in Nat /\ nextId' \in Nat
      /\ nextId <= nextId' /\ seq \in Nat /\ seq' \in Nat /\ seq <= seq'
  BY DEF MapsTyped, Onward
<1>2. Obj(edits) \subseteq Obj(edits') /\ Part(edits) \subseteq Part(edits')
  BY <1>1, ObjGrows
<1>3. \A m : /\ Map(m, Obj(edits), nextId) => Map(m, Obj(edits'), nextId')
             /\ Map(m, Part(edits), nextId) => Map(m, Part(edits'), nextId')
  BY <1>1, <1>2, MapGrows
<1>4. QED
  BY <1>1, <1>3, TypesGrow

LEMMA OnwardStands == ASSUME MapsTyped, UNCHANGED <<edits, nextId, seq>> PROVE Onward
  BY DEF MapsTyped, Onward

LEMMA ReleasedTyped ==
  ASSUME OpsTyped, MapsTyped, NEW f, f = op \/ f = Released(op)
  PROVE  DOMAIN f = Ops /\ \A o \in Ops : OpTyped(f[o], edits, nextId, seq)
<1>1. OpTyped(Free, edits, nextId, seq)
  BY FreeTyped DEF MapsTyped
<1>2. QED
  BY <1>1 DEF OpsTyped, Released

\* One coroutine becomes rec, others go on or are released.
LEMMA OneOpTyped ==
  ASSUME OpsTyped, MapsTyped, Onward, NEW o \in Ops, NEW r, OpTyped(r, edits', nextId', seq'),
         NEW f, f = op \/ f = Released(op), op' = [f EXCEPT ![o] = r]
  PROVE  OpsTyped'
<1>1. DOMAIN f = Ops /\ \A p \in Ops : OpTyped(f[p], edits', nextId', seq')
  BY ReleasedTyped, OnwardGrows
<1>2. DOMAIN op' = Ops /\ \A p \in Ops : OpTyped(op'[p], edits', nextId', seq')
  BY <1>1
<1>3. QED
  BY <1>2 DEF OpsTyped

LEMMA OpsStandTyped ==
  ASSUME OpsTyped, MapsTyped, Onward, op' = op \/ op' = Released(op)
  PROVE  OpsTyped'
<1>1. DOMAIN op' = Ops /\ \A p \in Ops : OpTyped(op'[p], edits', nextId', seq')
  BY ReleasedTyped, OnwardGrows
<1>2. QED
  BY <1>1 DEF OpsTyped

LEMMA ReleasedEnded ==
  ASSUME OpsTyped, NEW o \in Ops
  PROVE  Released(Ended(o)) = [Released(op) EXCEPT ![o] = Free]
  BY DEF OpsTyped, Released, Ended, Free

LEMMA EndedTyped ==
  ASSUME OpsTyped, MapsTyped, Onward, NEW o \in Ops, op' = Ended(o) \/ op' = Released(Ended(o))
  PROVE  OpsTyped'
<1>1. OpTyped(Free, edits', nextId', seq')
  BY FreeTyped DEF Onward
<1>2. op' = [op EXCEPT ![o] = Free] \/ op' = [Released(op) EXCEPT ![o] = Free]
  BY ReleasedEnded DEF Ended
<1>3. QED
  BY <1>1, <1>2, OneOpTyped

LEMMA PushTyped ==
  ASSUME MapsTyped, StackInv, Onward, NEW entry, EntryTyped(entry, edits', nextId'),
         entry.undo # "none", Push(entry)
  PROVE  \A i \in DOMAIN stack' : EntryTyped(stack'[i], edits', nextId') /\ stack'[i].undo # "none"
<1> DEFINE Good(e) == EntryTyped(e, edits', nextId') /\ e.undo # "none"
<1>1. (\A i \in DOMAIN stack : Good(stack[i])) /\ Good(entry)
  BY OnwardGrows DEF MapsTyped
<1>2. PICK S : stack \in Seq(S)
  BY DEF StackInv
<1>3. stack \in Seq(S \cup {entry})
  BY <1>2
<1> DEFINE longer == Append(stack, entry)
<1>4. /\ longer \in Seq(S \cup {entry}) /\ Len(longer) = Len(stack) + 1 /\ Len(stack) \in Nat
      /\ \A i \in 1..Len(stack) : longer[i] = stack[i]
      /\ longer[Len(stack) + 1] = entry /\ DOMAIN stack = 1..Len(stack)
  BY <1>3
<1>5. stack' \in {stack, longer, Tail(longer)}
  BY DEF Push
<1> HIDE DEF longer, Good
<1>6. DOMAIN longer = 1..(Len(stack) + 1) /\ \A i \in DOMAIN longer : Good(longer[i])
  <2>1. \A i \in 1..(Len(stack) + 1) : i \in 1..Len(stack) \/ i = Len(stack) + 1
    BY <1>4
  <2>2. DOMAIN longer = 1..(Len(stack) + 1)
    BY <1>4
  <2>3. QED
    BY <1>1, <1>4, <2>1, <2>2
<1>7. \A i \in DOMAIN Tail(longer) : Good(Tail(longer)[i])
  <2>1. longer # <<>>
    BY <1>4
  <2>2. \A i \in 1..(Len(longer) - 1) : Tail(longer)[i] = longer[i + 1]
    BY <1>4, <2>1
  <2>3. DOMAIN Tail(longer) = 1..(Len(longer) - 1)
    BY <1>4, <2>1
  <2>4. \A i \in 1..(Len(longer) - 1) : i + 1 \in 1..(Len(stack) + 1)
    BY <1>4
  <2>5. QED
    BY <1>6, <2>2, <2>3, <2>4
<1>8. QED
  BY <1>1, <1>5, <1>6, <1>7 DEF Good

-------------------------------------------------------------------------------
(* Types: the edits.                                                          *)

LEMMA PlaceTyped ==
  ASSUME MapsTyped, NEW i \in Nat
  PROVE  Place(i) \in Places(edits + 1)
  BY DEF Place, Places, MapsTyped

\* Dragged objects have every end where it was, or at a new place.
LEMMA DraggedTyped ==
  ASSUME MapsTyped, NEW m, Map(m, Obj(edits), nextId), NEW ids \in SUBSET DOMAIN m
  PROVE  /\ Map(Dragged(m, ids), Obj(edits + 1), nextId)
         /\ DOMAIN Dragged(m, ids) = TabExpand(m, ids)
         /\ \A i \in TabExpand(m, ids) :
              /\ Dragged(m, ids)[i].path = m[i].path /\ Dragged(m, ids)[i].form = m[i].form
              /\ Len(Dragged(m, ids)[i].ends) = Len(m[i].ends)
              /\ \A k \in 1..Len(m[i].ends) :
                   \/ Dragged(m, ids)[i].ends[k] = m[i].ends[k]
                   \/ \E j \in ids : Dragged(m, ids)[i].ends[k] = Place(j)
<1> DEFINE on(p) == {i \in ids : Matches(p, m[i].ends[1])}
           to(i, p) == IF i \in ids THEN Place(i)
                       ELSE IF on(p) = {} THEN p ELSE Place(CHOOSE j \in on(p) : TRUE)
<1>1. \A i, p : to(i, p) = p \/ \E j \in ids : to(i, p) = Place(j)
  <2>1. \A p : on(p) # {} => (CHOOSE j \in on(p) : TRUE) \in ids
    OBVIOUS
  <2>2. QED
    BY <2>1
<1>2. DOMAIN m \subseteq Nat /\ edits \in Nat
  BY DEF Map, MapsTyped
<1>3. Places(edits) \subseteq Places(edits + 1)
  BY <1>2 DEF Places
<1>4. \A i, p : p \in Places(edits) => to(i, p) \in Places(edits + 1)
  BY <1>1, <1>2, <1>3, PlaceTyped
<1>5. Dragged(m, ids) = [i \in TabExpand(m, ids) |->
                            [m[i] EXCEPT !.ends = [k \in DOMAIN m[i].ends |-> to(i, m[i].ends[k])]]]
  BY DEF Dragged
<1> HIDE DEF to
<1>6. ASSUME NEW i \in TabExpand(m, ids)
      PROVE  /\ Dragged(m, ids)[i] \in Obj(edits + 1)
             /\ Dragged(m, ids)[i].path = m[i].path /\ Dragged(m, ids)[i].form = m[i].form
             /\ Len(Dragged(m, ids)[i].ends) = Len(m[i].ends)
             /\ \A k \in 1..Len(m[i].ends) : Dragged(m, ids)[i].ends[k] = to(i, m[i].ends[k])
  <2>1. m[i] \in Obj(edits)
    BY TabExpandTyped DEF Map
  <2>2. /\ m[i].ends \in Seq(Places(edits)) /\ Len(m[i].ends) \in {1, 2}
        /\ DOMAIN m[i].ends = 1..Len(m[i].ends)
    BY <2>1 DEF Obj
  <2> DEFINE ends == [k \in 1..Len(m[i].ends) |-> to(i, m[i].ends[k])]
  <2>3. \A k \in 1..Len(m[i].ends) : to(i, m[i].ends[k]) \in Places(edits + 1)
    BY <1>4, <2>2
  <2>4. ends \in Seq(Places(edits + 1)) /\ Len(ends) = Len(m[i].ends)
    BY <2>2, <2>3
  <2>5. Dragged(m, ids)[i] = [m[i] EXCEPT !.ends = ends]
    BY <1>5, <2>2
  <2>6. \A k \in 1..Len(m[i].ends) : ends[k] = to(i, m[i].ends[k])
    OBVIOUS
  <2> HIDE DEF ends
  <2>7. QED
    BY <2>1, <2>2, <2>4, <2>5, <2>6 DEF Obj
<1>7. Map(Dragged(m, ids), Obj(edits + 1), nextId) /\ DOMAIN Dragged(m, ids) = TabExpand(m, ids)
  BY <1>5, <1>6, TabExpandTyped DEF Map
<1>8. QED
  BY <1>1, <1>6, <1>7

LEMMA UpdateTyped ==
  ASSUME NEW n, NEW p \in Part(n), NEW i
  PROVE  RequestTyped(Update(i, p), n)
  BY DEF RequestTyped, Update

LEMMA UpdatesTyped ==
  ASSUME NEW n, NEW k, NEW new, Map(new, Part(n), k)
  PROVE  \A q \in Updates(new) : RequestTyped(q, n)
<1>1. \A i \in DOMAIN new : new[i] \in Part(n)
  BY DEF Map
<1>2. QED
  BY <1>1, UpdateTyped DEF Updates

LEMMA DeleteTyped == ASSUME NEW n, NEW ids PROVE RequestTyped(Delete(ids), n)
  BY DEF RequestTyped, Delete

LEMMA CreateTyped ==
  ASSUME NEW n, NEW objs \in Seq(Obj(n)) PROVE RequestTyped(Create(objs), n)
  BY DEF RequestTyped, Create

\* What an edit hands to its coroutine.
Fresh(rec, kind, drag, stages, entry, snap) ==
  /\ DOMAIN rec = DOMAIN Free /\ rec.kind = kind /\ rec.seq = drag
  /\ rec.stages = stages /\ rec.entry = entry /\ rec.snap = snap
  /\ rec.got = None /\ rec.sent = {} /\ rec.err = "none" /\ rec.applied = FALSE

LEMMA RecTyped ==
  ASSUME NEW rec, NEW kind, NEW drag, NEW stages, NEW entry, NEW snap,
         Fresh(rec, kind, drag, stages, entry, snap),
         NEW n, NEW k, NEW s, drag \in 0..s,
         \E S : stages \in Seq(S), \A q \in Requests(stages) : RequestTyped(q, n),
         EntryTyped(entry, n, k), kind \in Recorded => entry.undo # "none",
         kind = "split" => entry.undo = "split",
         Map(snap, Part(n), k), kind = "delete" => Map(snap, Obj(n), k)
  PROVE  OpTyped(rec, n, k, s)
<1>1. Todo(rec) = Requests(stages)
  BY DEF Todo, Fresh
<1>2. QED
  BY <1>1, NoMap DEF OpTyped, Fresh

\* An edit is begun with typed requests.
Opened(rec, f) ==
  /\ f = op \/ f = Released(op)
  /\ Begin(rec, f)
  /\ OpTyped(rec, edits + 1, nextId, seq') /\ rec.stages # <<>>

LEMMA BeginTyped ==
  ASSUME OpsTyped, MapsTyped, seq' \in Nat, seq <= seq', nextId' = nextId, NEW rec, NEW f, Opened(rec, f)
  PROVE  OpsTyped' /\ Onward /\ edits' = edits + 1 /\ drift' \in BOOLEAN /\ holes' \in BOOLEAN
<1>1. PICK o \in Ops : /\ edits' = edits + 1
                       /\ op' \in {[f EXCEPT ![o] = r] : r \in Send(rec)}
                       /\ drift' = (drift \/ InTheWay(rec.entry) \/ Misjudged(rec))
                       /\ holes' = (holes \/ drift \/ InTheWay(rec.entry) \/ Misjudged(rec))
  BY DEF Begin, Opened
<1>2. Onward
  BY <1>1 DEF Onward, MapsTyped
<1>3. PICK r \in Send(rec) : op' = [f EXCEPT ![o] = r]
  BY <1>1
<1>4. OpTyped(r, edits', nextId', seq')
  BY <1>1, SendTyped DEF Opened
<1>5. OpsTyped'
  BY <1>2, <1>3, <1>4, OneOpTyped DEF Opened
<1>6. QED
  BY <1>1, <1>2, <1>5

LEMMA MoveTyped ==
  ASSUME MapsTyped, NEW i \in DOMAIN cache, Move(i)
  PROVE  /\ \E rec, f : Opened(rec, f)
         /\ Map(cache', Obj(edits + 1), nextId) /\ seq' = seq + 1
<1> DEFINE new == IF IsLine(cache[i]) THEN [j \in {i} |-> [cache[i] EXCEPT !.path = edits + 1]]
                  ELSE Dragged(cache, {i})
           ids == DOMAIN new
           rec == [Free EXCEPT !.kind = "move", !.seq = seq + 1,
                     !.stages = <<{Update(i, Geometry(new[i]))}>>
                                \o Stage(Updates(Geometries(new, ids \ {i}))),
                     !.entry = [undo |-> "patch", ids |-> ids, objs |-> Geometries(cache, ids)],
                     !.snap = Upserted(Geometries(cache, ids), Only(cache, {i}))]
<1>1. /\ edits \in Nat /\ edits + 1 \in Nat /\ edits <= edits + 1 /\ nextId \in Nat /\ seq + 1 \in Nat
      /\ Map(cache, Obj(edits), nextId)
  BY DEF MapsTyped
<1>2. /\ Map(new, Obj(edits + 1), nextId) /\ ids \subseteq DOMAIN cache /\ i \in ids
  <2>1. CASE IsLine(cache[i])
    <3>1. cache[i] \in Obj(edits + 1) /\ i \in 1..(nextId - 1)
      BY <1>1, ObjGrows DEF Map
    <3>2. [cache[i] EXCEPT !.path = edits + 1] \in Obj(edits + 1)
      BY <1>1, <3>1 DEF Obj
    <3>3. QED
      BY <2>1, <3>1, <3>2 DEF Map
  <2>2. CASE ~IsLine(cache[i])
    <3>1. /\ Map(Dragged(cache, {i}), Obj(edits + 1), nextId)
          /\ DOMAIN Dragged(cache, {i}) = TabExpand(cache, {i})
      BY <1>1, DraggedTyped
    <3>2. TabExpand(cache, {i}) \subseteq DOMAIN cache /\ i \in TabExpand(cache, {i})
      BY TabExpandTyped
    <3>3. QED
      BY <2>2, <3>1, <3>2
  <2>3. QED
    BY <2>1, <2>2
<1>3. Map(cache, Obj(edits + 1), nextId) /\ Obj(edits + 1) \subseteq Part(edits + 1)
  BY <1>1, ObjGrows, MapGrows DEF Part
<1>4. /\ Begin(rec, op)
      /\ seq' = seq + 1 /\ cache' = Patched(cache, Geometries(new, ids))
  BY DEF Move
<1> HIDE DEF new
<1>5. /\ Map(Geometries(new, ids), Part(edits + 1), nextId) /\ DOMAIN Geometries(new, ids) = ids
      /\ Map(Geometries(new, ids \ {i}), Part(edits + 1), nextId)
      /\ Map(Geometries(cache, ids), Part(edits + 1), nextId)
      /\ DOMAIN Geometries(cache, ids) = ids
  BY <1>2, <1>3, GeometriesTyped
<1>6. Geometry(new[i]) \in Part(edits + 1)
  BY <1>2, GeometryTyped DEF Map
<1>7. Map(cache', Obj(edits + 1), nextId)
  <2>1. \A j \in ids : Geometries(new, ids)[j] \in Part(edits + 1)
    BY <1>5 DEF Map
  <2>2. QED
    BY <1>3, <1>4, <1>5, <2>1, PatchedTyped
<1>8. OpTyped(rec, edits + 1, nextId, seq') /\ rec.stages # <<>>
  <2> DEFINE first == <<{Update(i, Geometry(new[i]))}>>
             rest == Stage(Updates(Geometries(new, ids \ {i})))
             entry == [undo |-> "patch", ids |-> ids, objs |-> Geometries(cache, ids)]
             snap == Upserted(Geometries(cache, ids), Only(cache, {i}))
  <2>1. /\ \E S : first \in Seq(S) /\ first # <<>>
        /\ Requests(first) = {Update(i, Geometry(new[i]))}
        /\ \E S : rest \in Seq(S)
        /\ Requests(rest) = Updates(Geometries(new, ids \ {i}))
    BY OneStage
  <2>2. entry.undo = "patch" /\ entry.ids = ids /\ entry.objs = Geometries(cache, ids)
        /\ DOMAIN entry = DOMAIN NoEntry
    BY DEF NoEntry
  <2>3. EntryTyped(entry, edits + 1, nextId) /\ entry.undo # "none"
    BY <1>2, <1>5, <2>2 DEF EntryTyped, Map
  <2>4. Map(snap, Part(edits + 1), nextId)
    <3>1. Map(Only(cache, {i}), Obj(edits + 1), nextId)
      BY <1>3, OnlyTyped
    <3>2. Map(Only(cache, {i}), Part(edits + 1), nextId)
      BY <1>1, <1>3, <3>1, MapGrows
    <3>3. QED
      BY <1>5, <3>2, UpsertedTyped
  <2>5. Fresh(rec, "move", seq + 1, first \o rest, entry, snap)
    BY DEF Fresh, Free
  <2>6. \A q \in {Update(i, Geometry(new[i]))} \cup Updates(Geometries(new, ids \ {i})) : RequestTyped(q, edits + 1)
    BY <1>5, <1>6, UpdateTyped, UpdatesTyped
  <2> DEFINE stages == first \o rest
  <2> HIDE DEF first, rest, entry, snap, rec
  <2>7. /\ \E S : stages \in Seq(S) /\ stages # <<>>
        /\ Requests(stages) = Requests(first) \cup Requests(rest)
    BY <2>1, StagesJoin, JoinTyped
  <2>8. seq' \in Nat /\ seq + 1 \in 0..seq'
    BY <1>1, <1>4
  <2>9. \A q \in Requests(stages) : RequestTyped(q, edits + 1)
    BY <2>1, <2>6, <2>7
  <2>10. Fresh(rec, "move", seq + 1, stages, entry, snap)
    BY <2>5
  <2> HIDE DEF stages
  <2>11. OpTyped(rec, edits + 1, nextId, seq')
    BY <2>3, <2>4, <2>7, <2>8, <2>9, <2>10, RecTyped
  <2>12. QED
    BY <2>7, <2>10, <2>11 DEF Fresh
<1>9. Opened(rec, op)
  BY <1>4, <1>8 DEF Opened
<1>10. QED
  BY <1>4, <1>7, <1>9

LEMMA EntryPatchTyped ==
  ASSUME NEW n, NEW k, NEW ids, ids \subseteq 1..(k - 1), NEW objs, Map(objs, Part(n), k), DOMAIN objs # {},
         NEW undo \in {"patch", "split", "drop"}
  PROVE  /\ EntryTyped([undo |-> undo, ids |-> ids, objs |-> objs], n, k)
         /\ [undo |-> undo, ids |-> ids, objs |-> objs].undo # "none"
  BY DEF EntryTyped, NoEntry

LEMMA MoveGroupTyped ==
  ASSUME MapsTyped, NEW ids \in SUBSET DOMAIN cache, MoveGroup(ids)
  PROVE  /\ \E rec, f : Opened(rec, f)
         /\ Map(cache', Obj(edits + 1), nextId) /\ seq' = seq
<1> DEFINE all == TabExpand(cache, ids)
           new == Geometries(Dragged(cache, ids), all)
           entry == [undo |-> "patch", ids |-> DOMAIN new, objs |-> Geometries(cache, DOMAIN new)]
           first == Stage(Updates(Only(new, ids)))
           rest == Stage(Updates(Only(new, DOMAIN new \ ids)))
           stages == first \o rest
           rec == [Free EXCEPT !.kind = "group", !.stages = stages, !.entry = entry]
<1>1. /\ edits \in Nat /\ edits + 1 \in Nat /\ edits <= edits + 1 /\ nextId \in Nat /\ seq \in Nat
      /\ Map(cache, Obj(edits), nextId)
  BY DEF MapsTyped
<1>2. /\ Begin(rec, op) /\ seq' = seq /\ cache' = Patched(cache, new)
      /\ Cardinality(ids) > 1
  BY DEF MoveGroup
<1>3. /\ Map(Dragged(cache, ids), Obj(edits + 1), nextId) /\ DOMAIN Dragged(cache, ids) = all
      /\ all \subseteq DOMAIN cache /\ ids \subseteq all
  BY <1>1, DraggedTyped, TabExpandTyped
<1>4. Map(new, Part(edits + 1), nextId) /\ DOMAIN new = all
  BY <1>3, GeometriesTyped
<1>5. Map(cache, Obj(edits + 1), nextId)
  BY <1>1, ObjGrows, MapGrows
<1>6. EntryTyped(entry, edits + 1, nextId) /\ entry.undo # "none"
  <2>1. /\ Map(Geometries(cache, all), Part(edits + 1), nextId) /\ all \subseteq 1..(nextId - 1)
        /\ DOMAIN Geometries(cache, all) = all
    BY <1>1, <1>3, <1>5, GeometriesTyped DEF Map
  <2>2. all # {}
    BY <1>2, <1>3, FS_EmptySet
  <2>3. QED
    BY <1>4, <2>1, <2>2, EntryPatchTyped
<1> HIDE DEF new
<1>7. Map(cache', Obj(edits + 1), nextId)
  <2>1. \A j \in DOMAIN new : new[j] \in Part(edits + 1)
    BY <1>4 DEF Map
  <2>2. QED
    BY <1>2, <1>5, <2>1, PatchedTyped
<1>8. /\ \A q \in Updates(Only(new, ids)) : RequestTyped(q, edits + 1)
      /\ \A q \in Updates(Only(new, DOMAIN new \ ids)) : RequestTyped(q, edits + 1)
      /\ Updates(Only(new, ids)) # {}
  <2>1. /\ Map(Only(new, ids), Part(edits + 1), nextId) /\ DOMAIN Only(new, ids) = ids
        /\ Map(Only(new, DOMAIN new \ ids), Part(edits + 1), nextId)
    BY <1>3, <1>4, OnlyTyped
  <2>2. ids # {}
    BY <1>2, FS_EmptySet
  <2>3. QED
    BY <2>1, <2>2, UpdatesTyped DEF Updates
<1>9. /\ \E S : first \in Seq(S) /\ first # <<>>
      /\ \E S : rest \in Seq(S)
      /\ \A q \in Requests(first) \cup Requests(rest) : RequestTyped(q, edits + 1)
  BY <1>8, OneStage
<1>10. Fresh(rec, "group", 0, stages, entry, None)
  BY DEF Fresh, Free
<1> HIDE DEF first, rest, entry, rec
<1>11. /\ \E S : stages \in Seq(S) /\ stages # <<>>
       /\ \A q \in Requests(stages) : RequestTyped(q, edits + 1)
  BY <1>9, StagesJoin, JoinTyped
<1> HIDE DEF stages
<1>12. 0 \in 0..seq'
  BY <1>1, <1>2
<1>13. OpTyped(rec, edits + 1, nextId, seq')
  BY <1>6, <1>10, <1>11, <1>12, NoMap, RecTyped DEF Recorded
<1>14. Opened(rec, op)
  BY <1>2, <1>10, <1>11, <1>13 DEF Opened, Fresh
<1>15. QED
  BY <1>2, <1>7, <1>14

LEMMA SaveDetailTyped ==
  ASSUME MapsTyped, NEW i \in DOMAIN cache, SaveDetail(i)
  PROVE  /\ \E rec, f : Opened(rec, f)
         /\ Map(cache', Obj(edits + 1), nextId) /\ seq' = seq
<1> DEFINE new == [cache[i] EXCEPT !.form = edits + 1]
           entry == [undo |-> "patch", ids |-> {i}, objs |-> Only(cache, {i})]
           stages == <<{Update(i, new)}>>
           rec == [Free EXCEPT !.kind = "detail", !.stages = stages, !.entry = entry]
<1>1. /\ edits \in Nat /\ edits + 1 \in Nat /\ edits <= edits + 1 /\ nextId \in Nat /\ seq \in Nat
      /\ Map(cache, Obj(edits), nextId)
  BY DEF MapsTyped
<1>2. Begin(rec, op) /\ seq' = seq /\ cache' = Patched(cache, [j \in {i} |-> new])
  BY DEF SaveDetail, undoVars
<1>3. Map(cache, Obj(edits + 1), nextId) /\ Obj(edits + 1) \subseteq Part(edits + 1)
  BY <1>1, ObjGrows, MapGrows DEF Part
<1>4. new \in Part(edits + 1) /\ i \in 1..(nextId - 1)
  BY <1>1, <1>3 DEF Obj, Map
<1>5. EntryTyped(entry, edits + 1, nextId) /\ entry.undo # "none"
  <2>1. Map(Only(cache, {i}), Obj(edits + 1), nextId)
    BY <1>3, OnlyTyped
  <2>2. /\ Map(Only(cache, {i}), Part(edits + 1), nextId) /\ {i} \subseteq 1..(nextId - 1)
        /\ DOMAIN Only(cache, {i}) # {}
    BY <1>1, <1>3, <1>4, <2>1, OnlyTyped, MapGrows
  <2>3. QED
    BY <2>2, EntryPatchTyped
<1>6. Map(cache', Obj(edits + 1), nextId)
  BY <1>2, <1>3, <1>4, PatchedTyped
<1>7. Fresh(rec, "detail", 0, stages, entry, None)
  BY DEF Fresh, Free
<1>8. /\ \E S : stages \in Seq(S) /\ stages # <<>>
      /\ \A q \in Requests(stages) : RequestTyped(q, edits + 1)
  <2> DEFINE q == Update(i, new)
  <2>1. RequestTyped(q, edits + 1)
    BY <1>4, UpdateTyped
  <2> HIDE DEF q
  <2>2. stages = <<{q}>>
    BY DEF q
  <2>3. Requests(stages) = {q} /\ stages \in Seq({{q}}) /\ stages # <<>>
    BY <2>2, OneStage
  <2>4. QED
    BY <2>1, <2>3
<1> HIDE DEF stages, entry, rec
<1>9. 0 \in 0..seq'
  BY <1>1, <1>2
<1>10. OpTyped(rec, edits + 1, nextId, seq')
  BY <1>5, <1>7, <1>8, <1>9, NoMap, RecTyped DEF Recorded
<1>11. Opened(rec, op)
  BY <1>2, <1>7, <1>8, <1>10 DEF Opened, Fresh
<1>12. QED
  BY <1>2, <1>6, <1>11

LEMMA DeleteSelectionTyped ==
  ASSUME MapsTyped, NEW ids \in SUBSET DOMAIN cache, DeleteSelection(ids)
  PROVE  /\ \E rec, f : Opened(rec, f)
         /\ Map(cache', Obj(edits + 1), nextId) /\ seq' = seq
<1> DEFINE all == TabExpand(cache, ids)
           entry == [undo |-> "restore", ids |-> all, objs |-> Only(cache, all)]
           stages == <<{Delete(ids)}>>
           rec == [Free EXCEPT !.kind = "delete", !.stages = stages, !.snap = cache, !.entry = entry]
<1>1. /\ edits \in Nat /\ edits + 1 \in Nat /\ edits <= edits + 1 /\ nextId \in Nat /\ seq \in Nat
      /\ Map(cache, Obj(edits), nextId)
  BY DEF MapsTyped
<1>2. Begin(rec, Released(op)) /\ seq' = seq /\ cache' = Removed(cache, all) /\ ids # {}
  BY DEF DeleteSelection, undoVars
<1>3. Map(cache, Obj(edits + 1), nextId) /\ Map(cache, Part(edits + 1), nextId)
  BY <1>1, ObjGrows, MapGrows DEF Part
<1>4. all \subseteq DOMAIN cache /\ all # {} /\ all \subseteq 1..(nextId - 1)
  BY <1>1, <1>2, TabExpandTyped DEF Map
<1>5. EntryTyped(entry, edits + 1, nextId) /\ entry.undo # "none"
  <2>1. /\ Map(Only(cache, all), Obj(edits + 1), nextId) /\ Map(Only(cache, all), Part(edits + 1), nextId)
        /\ DOMAIN Only(cache, all) = all
    BY <1>3, <1>4, OnlyTyped
  <2>2. QED
    BY <1>4, <2>1 DEF EntryTyped, NoEntry
<1>6. Map(cache', Obj(edits + 1), nextId)
  BY <1>2, <1>3, RemovedTyped
<1>7. Fresh(rec, "delete", 0, stages, entry, cache)
  BY DEF Fresh, Free
<1>8. /\ \E S : stages \in Seq(S) /\ stages # <<>>
      /\ \A q \in Requests(stages) : RequestTyped(q, edits + 1)
  <2> DEFINE q == Delete(ids)
  <2>1. RequestTyped(q, edits + 1)
    BY DeleteTyped
  <2> HIDE DEF q
  <2>2. stages = <<{q}>>
    BY DEF q
  <2>3. Requests(stages) = {q} /\ stages \in Seq({{q}}) /\ stages # <<>>
    BY <2>2, OneStage
  <2>4. QED
    BY <2>1, <2>3
<1> HIDE DEF stages, entry, rec
<1>9. 0 \in 0..seq'
  BY <1>1, <1>2
<1>10. OpTyped(rec, edits + 1, nextId, seq')
  BY <1>3, <1>5, <1>7, <1>8, <1>9, RecTyped DEF Recorded
<1>11. Opened(rec, Released(op))
  BY <1>2, <1>7, <1>8, <1>10 DEF Opened, Fresh
<1>12. QED
  BY <1>2, <1>6, <1>11

LEMMA NewPointTyped == ASSUME MapsTyped PROVE NewPoint \in Obj(edits + 1)
<1>1. Place(0) \in Places(edits + 1) /\ edits + 1 \in Nat
  BY PlaceTyped DEF MapsTyped
<1>2. <<Place(0)>> \in Seq(Places(edits + 1)) /\ Len(<<Place(0)>>) = 1
  BY <1>1
<1>3. QED
  BY <1>1, <1>2 DEF NewPoint, Obj

LEMMA PlacePointTyped ==
  ASSUME MapsTyped, PlacePoint
  PROVE  /\ \E rec, f : Opened(rec, f)
         /\ Map(cache', Obj(edits + 1), nextId) /\ seq' = seq
<1> DEFINE stages == <<{Create(<<NewPoint>>)}>>
           rec == [Free EXCEPT !.kind = "place", !.stages = stages]
<1>1. /\ edits \in Nat /\ edits + 1 \in Nat /\ edits <= edits + 1 /\ nextId \in Nat /\ seq \in Nat
      /\ Map(cache, Obj(edits), nextId)
  BY DEF MapsTyped
<1>2. Begin(rec, Released(op)) /\ seq' = seq /\ cache' = cache
  BY DEF PlacePoint, undoVars
<1>3. Map(cache', Obj(edits + 1), nextId)
  BY <1>1, <1>2, ObjGrows, MapGrows
<1>4. Fresh(rec, "place", 0, stages, NoEntry, None)
  BY DEF Fresh, Free
<1>5. <<NewPoint>> \in Seq(Obj(edits + 1))
  BY NewPointTyped
<1>6. /\ \E S : stages \in Seq(S) /\ stages # <<>>
      /\ \A q \in Requests(stages) : RequestTyped(q, edits + 1)
  <2> DEFINE q == Create(<<NewPoint>>)
  <2>1. RequestTyped(q, edits + 1)
    BY <1>5, CreateTyped
  <2> HIDE DEF q
  <2>2. stages = <<{q}>>
    BY DEF q
  <2>3. Requests(stages) = {q} /\ stages \in Seq({{q}}) /\ stages # <<>>
    BY <2>2, OneStage
  <2>4. QED
    BY <2>1, <2>3
<1> HIDE DEF stages, rec
<1>7. 0 \in 0..seq' /\ EntryTyped(NoEntry, edits + 1, nextId)
  BY <1>1, <1>2, FreeTyped
<1>8. OpTyped(rec, edits + 1, nextId, seq')
  BY <1>4, <1>6, <1>7, NoMap, RecTyped DEF Recorded
<1>9. Opened(rec, Released(op))
  BY <1>2, <1>4, <1>6, <1>8 DEF Opened, Fresh
<1>10. QED
  BY <1>2, <1>3, <1>9

LEMMA PasteTyped ==
  ASSUME MapsTyped, Paste
  PROVE  /\ \E rec, f : Opened(rec, f)
         /\ Map(cache', Obj(edits + 1), nextId) /\ seq' = seq
<1> DEFINE line == [NewPoint EXCEPT !.ends = @ \o <<Place(1)>>]
           objs == <<NewPoint, line>>
           stages == <<{Create(objs)}>>
           rec == [Free EXCEPT !.kind = "paste", !.stages = stages]
<1>1. /\ edits \in Nat /\ edits + 1 \in Nat /\ edits <= edits + 1 /\ nextId \in Nat /\ seq \in Nat
      /\ Map(cache, Obj(edits), nextId)
  BY DEF MapsTyped
<1>2. Begin(rec, op) /\ seq' = seq /\ cache' = cache
  BY DEF Paste
<1>3. Map(cache', Obj(edits + 1), nextId)
  BY <1>1, <1>2, ObjGrows, MapGrows
<1>4. Fresh(rec, "paste", 0, stages, NoEntry, None)
  BY DEF Fresh, Free
<1>5. line \in Obj(edits + 1)
  <2>1. Place(0) \in Places(edits + 1) /\ Place(1) \in Places(edits + 1)
    BY PlaceTyped
  <2>2. /\ <<Place(0)>> \o <<Place(1)>> \in Seq(Places(edits + 1))
        /\ Len(<<Place(0)>> \o <<Place(1)>>) = 2
    BY <2>1
  <2>3. line = [ends |-> <<Place(0)>> \o <<Place(1)>>, path |-> 0, form |-> edits + 1]
    BY DEF NewPoint
  <2>4. QED
    BY <1>1, <2>2, <2>3 DEF Obj
<1> HIDE DEF line
<1>6. objs \in Seq(Obj(edits + 1))
  BY <1>5, NewPointTyped
<1>7. /\ \E S : stages \in Seq(S) /\ stages # <<>>
      /\ \A q \in Requests(stages) : RequestTyped(q, edits + 1)
  <2> DEFINE q == Create(objs)
  <2>1. RequestTyped(q, edits + 1)
    BY <1>6, CreateTyped
  <2> HIDE DEF q
  <2>2. stages = <<{q}>>
    BY DEF q
  <2>3. Requests(stages) = {q} /\ stages \in Seq({{q}}) /\ stages # <<>>
    BY <2>2, OneStage
  <2>4. QED
    BY <2>1, <2>3
<1> HIDE DEF stages, rec
<1>8. 0 \in 0..seq' /\ EntryTyped(NoEntry, edits + 1, nextId)
  BY <1>1, <1>2, FreeTyped
<1>9. OpTyped(rec, edits + 1, nextId, seq')
  BY <1>4, <1>7, <1>8, NoMap, RecTyped DEF Recorded
<1>10. Opened(rec, op)
  BY <1>2, <1>4, <1>7, <1>9 DEF Opened, Fresh
<1>11. QED
  BY <1>2, <1>3, <1>10

LEMMA SplitLineTyped ==
  ASSUME MapsTyped, NEW i \in DOMAIN cache, SplitLine(i)
  PROVE  /\ \E rec, f : Opened(rec, f)
         /\ Map(cache', Obj(edits + 1), nextId) /\ seq' = seq
<1> DEFINE line == cache[i]
           half == [ends |-> <<line.ends[1], Place(0)>>, path |-> edits + 1]
           second == [line EXCEPT !.ends = <<Place(0), @[2]>>, !.path = edits + 1]
           stages == <<{Create(<<NewPoint>>)}, {Update(i, half)}, {Create(<<second>>)}>>
           entry == [undo |-> "split", ids |-> {i}, objs |-> Geometries(cache, {i})]
           rec == [Free EXCEPT !.kind = "split", !.stages = stages, !.entry = entry]
<1>1. /\ edits \in Nat /\ edits + 1 \in Nat /\ edits <= edits + 1 /\ nextId \in Nat /\ seq \in Nat
      /\ Map(cache, Obj(edits), nextId)
  BY DEF MapsTyped
<1>2. Begin(rec, Released(op)) /\ seq' = seq /\ cache' = cache /\ IsLine(line)
  BY DEF SplitLine, undoVars
<1>3. Map(cache, Obj(edits + 1), nextId)
  BY <1>1, ObjGrows, MapGrows
<1>4. /\ line \in Obj(edits + 1) /\ i \in 1..(nextId - 1)
      /\ line.ends[1] \in Places(edits + 1) /\ line.ends[2] \in Places(edits + 1)
  <2>1. line \in Obj(edits + 1) /\ i \in 1..(nextId - 1)
    BY <1>3 DEF Map
  <2>2. QED
    BY <1>2, <2>1 DEF IsLine, Obj
<1>5. half \in Part(edits + 1) /\ second \in Obj(edits + 1)
  <2>1. Place(0) \in Places(edits + 1)
    BY PlaceTyped
  <2>2. /\ <<line.ends[1], Place(0)>> \in Seq(Places(edits + 1)) /\ Len(<<line.ends[1], Place(0)>>) = 2
        /\ <<Place(0), line.ends[2]>> \in Seq(Places(edits + 1)) /\ Len(<<Place(0), line.ends[2]>>) = 2
    BY <1>4, <2>1
  <2>3. half \in Shape(edits + 1)
    BY <1>1, <2>2 DEF Shape
  <2>4. second = [ends |-> <<Place(0), line.ends[2]>>, path |-> edits + 1, form |-> line.form]
    <3>1. second.ends = <<Place(0), line.ends[2]>> /\ second.path = edits + 1
          /\ second.form = line.form /\ DOMAIN second = DOMAIN line
      BY <1>4 DEF Obj
    <3>2. DOMAIN line = {"ends", "path", "form"}
      BY <1>4 DEF Obj
    <3> DEFINE e == <<Place(0), line.ends[2]>>
    <3>3. second = [x \in DOMAIN second |-> second[x]]
      OBVIOUS
    <3> HIDE DEF second, e
    <3>4. second = [ends |-> e, path |-> edits + 1, form |-> line.form]
      BY <3>1, <3>2, <3>3 DEF e
    <3>5. QED
      BY <3>4 DEF e
  <2>5. second \in Obj(edits + 1)
    BY <1>1, <1>4, <2>2, <2>4 DEF Obj
  <2>6. QED
    BY <2>3, <2>5 DEF Part
<1>6. EntryTyped(entry, edits + 1, nextId) /\ entry.undo = "split"
  <2>1. /\ Map(Geometries(cache, {i}), Part(edits + 1), nextId)
        /\ DOMAIN Geometries(cache, {i}) # {}
    BY <1>3, GeometriesTyped
  <2>2. QED
    BY <1>4, <2>1, EntryPatchTyped
<1>7. Fresh(rec, "split", 0, stages, entry, None)
  BY DEF Fresh, Free
<1> HIDE DEF half, second
<1>8. <<NewPoint>> \in Seq(Obj(edits + 1)) /\ <<second>> \in Seq(Obj(edits + 1))
  BY <1>5, NewPointTyped
<1>9. /\ RequestTyped(Create(<<NewPoint>>), edits + 1) /\ RequestTyped(Update(i, half), edits + 1)
      /\ RequestTyped(Create(<<second>>), edits + 1)
  BY <1>5, <1>8, UpdateTyped, CreateTyped
<1>10. /\ \E S : stages \in Seq(S) /\ stages # <<>>
       /\ \A q \in Requests(stages) : RequestTyped(q, edits + 1)
  <2>1. stages \in Seq({{Create(<<NewPoint>>)}, {Update(i, half)}, {Create(<<second>>)}}) /\ stages # <<>>
    OBVIOUS
  <2>2. \A j \in DOMAIN stages : stages[j] \in {{Create(<<NewPoint>>)}, {Update(i, half)}, {Create(<<second>>)}}
    OBVIOUS
  <2>3. \A q \in Requests(stages) : q \in {Create(<<NewPoint>>), Update(i, half), Create(<<second>>)}
    BY <2>2 DEF Requests
  <2>4. QED
    BY <1>9, <2>1, <2>3
<1> HIDE DEF stages, entry, rec
<1>11. 0 \in 0..seq'
  BY <1>1, <1>2
<1>12. OpTyped(rec, edits + 1, nextId, seq')
  BY <1>6, <1>7, <1>10, <1>11, NoMap, RecTyped DEF Recorded
<1>13. Opened(rec, Released(op))
  BY <1>2, <1>7, <1>10, <1>12 DEF Opened, Fresh
<1>14. QED
  BY <1>2, <1>3, <1>13

LEMMA EditsTyped ==
  ASSUME TypeInv, StackInv, Edits
  PROVE  TypeInv'
<1>1. /\ \E rec, f : Opened(rec, f)
      /\ Map(cache', Obj(edits + 1), nextId) /\ (seq' = seq \/ seq' = seq + 1)
  <2>1. CASE \E i \in DOMAIN cache : Move(i) \/ SaveDetail(i) \/ SplitLine(i)
    BY <2>1, MoveTyped, SaveDetailTyped, SplitLineTyped DEF TypeInv
  <2>2. CASE \E ids \in SUBSET DOMAIN cache : MoveGroup(ids) \/ DeleteSelection(ids)
    BY <2>2, MoveGroupTyped, DeleteSelectionTyped DEF TypeInv
  <2>3. CASE PlacePoint \/ Paste
    BY <2>3, PlacePointTyped, PasteTyped DEF TypeInv
  <2>4. QED
    BY <2>1, <2>2, <2>3 DEF Edits
<1>2. /\ server' = server /\ nextId' = nextId /\ stack' = stack /\ strays' = strays
      /\ fetch' = fetch \/ fetch' = NoFetch
  BY DEF Edits, Move, SaveDetail, SplitLine, MoveGroup, DeleteSelection, PlacePoint, Paste, undoVars
<1>3. seq' \in Nat /\ seq <= seq'
  BY <1>1 DEF TypeInv, MapsTyped
<1>4. OpsTyped' /\ Onward /\ edits' = edits + 1 /\ drift' \in BOOLEAN /\ holes' \in BOOLEAN
  BY <1>1, <1>2, <1>3, BeginTyped DEF TypeInv
<1>5. Map(fetch'.data, Obj(edits'), nextId')
  <2>1. Map(NoFetch.data, Obj(edits'), nextId')
    BY NoMap DEF NoFetch
  <2>2. QED
    BY <1>2, <1>4, <2>1, OnwardGrows DEF TypeInv, MapsTyped
<1>6. MapsTyped'
  BY <1>1, <1>2, <1>4, <1>5, OnwardGrows DEF TypeInv, MapsTyped, Onward
<1>7. QED
  BY <1>4, <1>6 DEF TypeInv

\* What a coroutine does at its end leaves the backend alone.
LEMMA EndTyped ==
  ASSUME TypeInv, OpsTyped', UNCHANGED <<server, nextId, seq, edits>>,
         Map(cache', Obj(edits), nextId), fetch' \in {fetch, NoFetch, Refetching},
         \A q \in strays' : RequestTyped(q, edits),
         \/ stack' = stack
         \/ \A i \in DOMAIN stack' : EntryTyped(stack'[i], edits, nextId) /\ stack'[i].undo # "none",
         drift' \in BOOLEAN, holes' \in BOOLEAN
  PROVE  TypeInv'
<1>1. Map(fetch'.data, Obj(edits), nextId)
  <2>1. Map(NoFetch.data, Obj(edits), nextId) /\ Map(Refetching.data, Obj(edits), nextId)
    BY NoMap DEF NoFetch, Refetching
  <2>2. QED
    BY <2>1 DEF TypeInv, MapsTyped
<1>2. MapsTyped'
  BY <1>1 DEF TypeInv, MapsTyped
<1>3. QED
  BY <1>2 DEF TypeInv

LEMMA DropTyped ==
  ASSUME NEW n, NEW k, NEW ids, ids \subseteq 1..(k - 1)
  PROVE  LET entry == [undo |-> "drop", ids |-> ids, objs |-> None] IN
         EntryTyped(entry, n, k) /\ entry.undo # "none"
  BY NoMap DEF EntryTyped, NoEntry

LEMMA EndsTyped ==
  ASSUME TypeInv, StackInv, NEW o \in Ops, EditEnds(o)
  PROVE  TypeInv'
<1> USE DEF undoVars, bounds, history
<1>1. /\ MapsTyped /\ OpsTyped /\ drift \in BOOLEAN /\ holes \in BOOLEAN
      /\ Map(cache, Obj(edits), nextId)
      /\ \A q \in strays : RequestTyped(q, edits)
  BY DEF TypeInv, MapsTyped
<1>2. /\ OpTyped(op[o], edits, nextId, seq) /\ EntryTyped(op[o].entry, edits, nextId)
      /\ Map(op[o].got, Obj(edits), nextId) /\ Map(op[o].snap, Part(edits), nextId)
      /\ op[o].kind = "delete" => Map(op[o].snap, Obj(edits), nextId)
      /\ op[o].kind \in Recorded => op[o].entry.undo # "none"
      /\ DOMAIN op[o] = DOMAIN Free
      /\ DOMAIN op[o].got \subseteq 1..(nextId - 1)
  BY <1>1 DEF OpsTyped, OpTyped, Map
<1>3. UNCHANGED <<server, nextId, seq, edits>> /\ Onward
  <2>1. UNCHANGED <<server, nextId, seq, edits>>
    BY DEF EditEnds, MoveSaved, MoveFailed, GroupSaved, GroupFailed, DetailSaved, DetailFailed,
           Deleted, DeleteFailed, Placed, PlaceFailed, SplitDone, SplitFailed, Pasted, PasteFailed,
           UndoDone, UndoFailed
  <2>2. QED
    BY <1>1, <2>1, OnwardStands
<1>4. ASSUME op' = Ended(o) \/ op' = Released(Ended(o)) PROVE OpsTyped'
  BY <1>1, <1>3, <1>4, EndedTyped
<1>5. ASSUME NEW entry, EntryTyped(entry, edits, nextId), entry.undo # "none", Push(entry)
      PROVE  /\ \A i \in DOMAIN stack' : EntryTyped(stack'[i], edits, nextId) /\ stack'[i].undo # "none"
             /\ holes' \in BOOLEAN
  <2>1. EntryTyped(entry, edits', nextId')
    BY <1>3, <1>5
  <2>2. \A i \in DOMAIN stack' : EntryTyped(stack'[i], edits', nextId') /\ stack'[i].undo # "none"
    BY <1>1, <1>3, <1>5, <2>1, PushTyped
  <2>3. holes' \in BOOLEAN
    BY <1>5 DEF Push
  <2>4. QED
    BY <1>3, <2>2, <2>3
<1>6. ASSUME NEW part, Map(part, Part(edits), nextId) PROVE Map(Patched(cache, part), Obj(edits), nextId)
  <2>1. \A i \in DOMAIN part : part[i] \in Part(edits)
    BY <1>6 DEF Map
  <2>2. QED
    BY <1>1, <2>1, PatchedTyped
<1>7. Map(Upserted(cache, op[o].got), Obj(edits), nextId)
  BY <1>1, <1>2, UpsertedTyped
<1>8. CASE MoveSaved(o)
  <2>1. op' = Ended(o) /\ cache' = cache /\ fetch' = fetch /\ strays' = strays /\ drift' = drift
    BY <1>8 DEF MoveSaved
  <2>2. CASE Push(op[o].entry)
    <3>1. op[o].entry.undo # "none"
      BY <1>2, <1>8 DEF MoveSaved, Done, Recorded
    <3>2. QED
      BY <1>1, <1>2, <1>3, <1>4, <1>5, <2>1, <2>2, <3>1, EndTyped
  <2>3. CASE holes' = TRUE /\ stack' = stack
    BY <1>1, <1>3, <1>4, <2>1, <2>3, EndTyped
  <2>4. QED
    BY <1>8, <2>2, <2>3 DEF MoveSaved
<1>9. CASE MoveFailed(o)
  <2>1. op' = Ended(o) /\ fetch' = fetch /\ strays' = strays /\ stack' = stack
    BY <1>9 DEF MoveFailed
  <2>2. cache' = cache \/ cache' = Patched(cache, op[o].snap)
    BY <1>9 DEF MoveFailed
  <2>3. drift' \in BOOLEAN /\ holes' \in BOOLEAN
    BY <1>9 DEF MoveFailed, HalfDone
  <2>4. Map(cache', Obj(edits), nextId)
    BY <1>1, <1>2, <1>6, <2>2
  <2>5. QED
    BY <1>1, <1>3, <1>4, <2>1, <2>3, <2>4, EndTyped
<1>10. CASE GroupSaved(o) \/ DetailSaved(o) \/ Deleted(o)
  <2>1. op' = Ended(o) \/ op' = Released(Ended(o))
    BY <1>10 DEF GroupSaved, DetailSaved, Deleted
  <2>2. /\ fetch' = fetch \/ fetch' = Refetching
        /\ strays' = strays /\ drift' = drift /\ Push(op[o].entry) /\ op[o].kind \in Recorded
    BY <1>10 DEF GroupSaved, DetailSaved, Deleted, Done, Recorded
  <2>3. Map(cache', Obj(edits), nextId)
    BY <1>1, <1>7, <1>10 DEF GroupSaved, DetailSaved, Deleted
  <2>4. QED
    BY <1>1, <1>2, <1>3, <1>4, <1>5, <2>1, <2>2, <2>3, EndTyped
<1>11. CASE GroupFailed(o) \/ DetailFailed(o) \/ PlaceFailed(o) \/ PasteFailed(o)
  <2>1. op' = Ended(o) \/ op' = Released(Ended(o))
    BY <1>11 DEF GroupFailed, DetailFailed, PlaceFailed, PasteFailed
  <2>2. /\ fetch' = fetch \/ fetch' = Refetching
        /\ strays' = strays /\ cache' = cache /\ stack' = stack
    BY <1>11 DEF GroupFailed, DetailFailed, PlaceFailed, PasteFailed
  <2>3. drift' \in BOOLEAN /\ holes' \in BOOLEAN
    BY <1>1, <1>11 DEF GroupFailed, DetailFailed, PlaceFailed, PasteFailed
  <2>4. QED
    BY <1>1, <1>3, <1>4, <2>1, <2>2, <2>3, EndTyped
<1>12. CASE DeleteFailed(o)
  <2>1. /\ op' = Released(Ended(o)) /\ fetch' = Refetching /\ strays' = strays /\ stack' = stack
        /\ drift' = TRUE /\ holes' = holes /\ cache' = op[o].snap /\ op[o].kind = "delete"
    BY <1>12 DEF DeleteFailed, Broken
  <2>2. QED
    BY <1>1, <1>2, <1>3, <1>4, <2>1, EndTyped
<1>13. CASE Placed(o)
  <2>1. /\ op' = Released(Ended(o)) /\ fetch' = NoFetch /\ strays' = strays /\ drift' = drift
        /\ cache' = Upserted(cache, op[o].got)
        /\ Push([undo |-> "drop", ids |-> DOMAIN op[o].got, objs |-> None])
    BY <1>13 DEF Placed
  <2>2. QED
    BY <1>1, <1>2, <1>3, <1>4, <1>5, <1>7, <2>1, DropTyped, EndTyped
<1>14. CASE Pasted(o)
  <2>1. /\ op' = Ended(o) /\ fetch' = fetch /\ strays' = strays /\ drift' = drift
        /\ cache' = Upserted(cache, op[o].got)
        /\ Push([undo |-> "drop", ids |-> DOMAIN op[o].got, objs |-> None])
    BY <1>14 DEF Pasted
  <2>2. QED
    BY <1>1, <1>2, <1>3, <1>4, <1>5, <1>7, <2>1, DropTyped, EndTyped
<1>15. CASE SplitDone(o)
  <2>1. /\ op' = Released(Ended(o)) /\ fetch' = NoFetch /\ strays' = strays /\ drift' = drift
        /\ cache' = Upserted(cache, op[o].got) /\ op[o].kind = "split"
        /\ Push([op[o].entry EXCEPT !.ids = DOMAIN op[o].got])
    BY <1>15 DEF SplitDone, Done
  <2> DEFINE entry == [op[o].entry EXCEPT !.ids = DOMAIN op[o].got]
  <2>2. EntryTyped(entry, edits, nextId) /\ entry.undo # "none"
    <3>1. op[o].entry.undo = "split"
      BY <1>1, <2>1 DEF OpsTyped, OpTyped
    <3>2. QED
      BY <1>2, <3>1 DEF EntryTyped, NoEntry
  <2> HIDE DEF entry
  <2>3. Push(entry)
    BY <2>1 DEF entry
  <2>4. QED
    BY <1>1, <1>3, <1>4, <1>5, <1>7, <2>1, <2>2, <2>3, EndTyped
<1>16. CASE SplitFailed(o)
  <2>1. PICK q : op' = [op EXCEPT ![o] = [@ EXCEPT !.kind = "unsplit", !.err = "none",
                                                   !.stages = <<>>, !.sent = {Delete(q)}]]
    BY <1>16, <1>1 DEF SplitFailed, OpsTyped
  <2>2. /\ UNCHANGED <<cache, fetch, stack, strays, drift>> /\ holes' \in BOOLEAN
    BY <1>16, <1>1 DEF SplitFailed
  <2> DEFINE rec == [op[o] EXCEPT !.kind = "unsplit", !.err = "none", !.stages = <<>>, !.sent = {Delete(q)}]
  <2>3. /\ DOMAIN rec = DOMAIN Free /\ rec.kind = "unsplit" /\ rec.stages = <<>> /\ rec.sent = {Delete(q)}
        /\ rec.entry = op[o].entry /\ rec.snap = op[o].snap /\ rec.got = op[o].got /\ rec.seq = op[o].seq
    BY <1>2 DEF Free
  <2>4. op' = [op EXCEPT ![o] = rec]
    BY <2>1
  <2> HIDE DEF rec
  <2>5. Todo(rec) = {Delete(q)} /\ \E S : rec.stages \in Seq(S)
    BY <2>3, NoStages DEF Todo
  <2>6. OpTyped(rec, edits, nextId, seq)
    BY <1>2, <2>3, <2>5, DeleteTyped DEF OpTyped, Recorded
  <2>7. OpsTyped'
    BY <1>1, <1>3, <2>4, <2>6, OneOpTyped
  <2>8. QED
    BY <1>1, <1>3, <2>2, <2>7, EndTyped
<1>17. CASE UndoDone(o)
  <2>1. /\ op' = [op EXCEPT ![o] = [@ EXCEPT !.err = "refetch"]] /\ fetch' = Refetching
        /\ UNCHANGED <<cache, stack, strays, holes>> /\ drift' = TRUE
    BY <1>17 DEF UndoDone
  <2> DEFINE rec == [op[o] EXCEPT !.err = "refetch"]
  <2>2. /\ DOMAIN rec = DOMAIN Free /\ rec.kind = op[o].kind /\ rec.stages = op[o].stages /\ rec.sent = op[o].sent
        /\ rec.entry = op[o].entry /\ rec.snap = op[o].snap /\ rec.got = op[o].got /\ rec.seq = op[o].seq
    BY <1>2 DEF Free
  <2>3. op' = [op EXCEPT ![o] = rec]
    BY <1>1, <2>1 DEF OpsTyped
  <2> HIDE DEF rec
  <2>4. OpTyped(rec, edits, nextId, seq)
    BY <1>2, <2>2 DEF OpTyped, Todo
  <2>5. OpsTyped'
    BY <1>1, <1>3, <2>3, <2>4, OneOpTyped
  <2>6. QED
    BY <1>1, <1>3, <2>1, <2>5, EndTyped
<1>18. CASE UndoFailed(o)
  <2>1. /\ op' = Ended(o) /\ stack' = Append(stack, op[o].entry) /\ strays' = strays \cup op[o].sent
        /\ UNCHANGED <<cache, fetch>> /\ drift' \in BOOLEAN /\ holes' \in BOOLEAN
        /\ op[o].kind \in Recorded
    BY <1>18 DEF UndoFailed, HalfDone, Broken, Recorded
  <2>2. \A q \in strays' : RequestTyped(q, edits)
    BY <1>1, <1>2, <2>1 DEF OpTyped, Todo
  <2>3. \A i \in DOMAIN stack' : EntryTyped(stack'[i], edits, nextId) /\ stack'[i].undo # "none"
    <3> DEFINE entry == op[o].entry
               Good(e) == EntryTyped(e, edits, nextId) /\ e.undo # "none"
    <3>1. Good(entry) /\ \A i \in DOMAIN stack : Good(stack[i])
      BY <1>1, <1>2, <2>1 DEF MapsTyped
    <3>2. PICK S : stack \in Seq(S)
      BY DEF StackInv
    <3> HIDE DEF entry, Good
    <3>3. stack \in Seq(S \cup {entry})
      BY <3>2
    <3>4. /\ DOMAIN Append(stack, entry) = 1..(Len(stack) + 1) /\ Len(stack) \in Nat
          /\ DOMAIN stack = 1..Len(stack)
          /\ \A i \in 1..Len(stack) : Append(stack, entry)[i] = stack[i]
          /\ Append(stack, entry)[Len(stack) + 1] = entry
      BY <3>3
    <3>5. \A i \in 1..(Len(stack) + 1) : i \in 1..Len(stack) \/ i = Len(stack) + 1
      BY <3>4
    <3>6. \A i \in DOMAIN Append(stack, entry) : Good(Append(stack, entry)[i])
      BY <3>1, <3>4, <3>5
    <3>7. stack' = Append(stack, entry)
      BY <2>1 DEF entry
    <3>8. QED
      BY <3>6, <3>7 DEF Good
  <2>4. QED
    BY <1>1, <1>3, <1>4, <2>1, <2>2, <2>3, EndTyped
<1>19. QED
  BY <1>8, <1>9, <1>10, <1>11, <1>12, <1>13, <1>14, <1>15, <1>16, <1>17, <1>18 DEF EditEnds

LEMMA RequestsServed ==
  ASSUME TypeInv, NEW o \in Ops, Serve(o) \/ RequestFails(o)
  PROVE  TypeInv'
<1> USE DEF undoVars, bounds, history
<1>1. /\ MapsTyped /\ OpsTyped /\ drift \in BOOLEAN /\ holes \in BOOLEAN
      /\ OpTyped(op[o], edits, nextId, seq)
  BY DEF TypeInv, OpsTyped
<1>2. PICK q \in op[o].sent :
        \/ /\ Found(q) /\ Apply(q)
           /\ op' \in {[op EXCEPT ![o] = r] : r \in GoOn(Served(op[o], q))}
        \/ /\ op' = [op EXCEPT ![o] = Failed(op[o], q)]
           /\ UNCHANGED <<server, nextId>> \/ Apply(q)
  BY DEF Serve, RequestFails, Accepted
<1>3. RequestTyped(q, edits)
  BY <1>1 DEF OpTyped, Todo
<1>4. UNCHANGED <<cache, fetch, stack, seq, strays, edits>> /\ drift' \in BOOLEAN /\ holes' \in BOOLEAN
  BY <1>1 DEF Serve, RequestFails
<1>5. /\ nextId' \in Nat \ {0} /\ nextId <= nextId' /\ Map(server', Obj(edits), nextId')
  BY <1>1, <1>2, <1>3, ApplyTyped DEF MapsTyped
<1>6. Onward
  BY <1>1, <1>4, <1>5 DEF Onward, MapsTyped
<1>7. OpsTyped'
  <2>1. CASE Found(q) /\ Apply(q) /\ op' \in {[op EXCEPT ![o] = r] : r \in GoOn(Served(op[o], q))}
    <3>1. OpTyped(Served(op[o], q), edits, nextId', seq)
      BY <1>1, <2>1, AnswerTyped
    <3>2. PICK r \in GoOn(Served(op[o], q)) : op' = [op EXCEPT ![o] = r]
      BY <2>1
    <3>3. OpTyped(r, edits, nextId', seq)
      BY <3>1, GoOnTyped
    <3>4. QED
      BY <1>1, <1>4, <1>6, <3>2, <3>3, OneOpTyped
  <2>2. CASE op' = [op EXCEPT ![o] = Failed(op[o], q)]
    <3>1. OpTyped(Failed(op[o], q), edits, nextId, seq)
      BY <1>1, AnswerTyped
    <3>2. OpTyped(Failed(op[o], q), edits', nextId', seq')
      BY <1>1, <1>6, <3>1, OnwardGrows
    <3>3. QED
      BY <1>1, <1>6, <2>2, <3>2, OneOpTyped
  <2>3. QED
    BY <1>2, <2>1, <2>2
<1>8. MapsTyped'
  BY <1>1, <1>4, <1>5, <1>6, OnwardGrows DEF MapsTyped
<1>9. QED
  BY <1>4, <1>7, <1>8 DEF TypeInv

LEMMA StrayServed ==
  ASSUME TypeInv, ServeStray
  PROVE  TypeInv'
<1> USE DEF undoVars, bounds, history
<1>1. MapsTyped /\ OpsTyped /\ drift \in BOOLEAN /\ holes \in BOOLEAN
  BY DEF TypeInv
<1>2. PICK q \in strays : /\ strays' = strays \ {q}
                          /\ UNCHANGED <<server, nextId>> \/ Apply(q)
  BY DEF ServeStray
<1>3. RequestTyped(q, edits)
  BY <1>1 DEF MapsTyped
<1>4. UNCHANGED <<cache, fetch, stack, seq, op, edits>> /\ drift' \in BOOLEAN /\ holes' \in BOOLEAN
  BY <1>1 DEF ServeStray
<1>5. /\ nextId' \in Nat \ {0} /\ nextId <= nextId' /\ Map(server', Obj(edits), nextId')
  BY <1>1, <1>2, <1>3, ApplyTyped DEF MapsTyped
<1>6. Onward
  BY <1>1, <1>4, <1>5 DEF Onward, MapsTyped
<1>7. OpsTyped'
  BY <1>1, <1>4, <1>6, OpsStandTyped
<1>8. MapsTyped'
  BY <1>1, <1>2, <1>4, <1>5, <1>6, OnwardGrows DEF MapsTyped
<1>9. QED
  BY <1>4, <1>7, <1>8 DEF TypeInv

\* The requests of an undo are those of an entry.
LEMMA UndoStagesTyped ==
  ASSUME NEW n, NEW k, NEW entry, EntryTyped(entry, n, k), entry.undo # "none"
  PROVE  /\ \E S : UndoStages(entry) \in Seq(S)
         /\ UndoStages(entry) # <<>>
         /\ \A q \in Requests(UndoStages(entry)) : RequestTyped(q, n)
<1>1. /\ entry.undo \in {"patch", "restore", "drop", "split"}
      /\ Map(entry.objs, Part(n), k)
  BY DEF EntryTyped
<1>2. \A q \in Updates(entry.objs) : RequestTyped(q, n)
  BY <1>1, UpdatesTyped
<1>3. CASE entry.undo = "patch"
  <2> DEFINE updates(lines) == {Update(i, entry.objs[i]) :
                                i \in {j \in DOMAIN entry.objs : IsLine(entry.objs[j]) = lines}}
             first == Stage(updates(FALSE))
             rest == Stage(updates(TRUE))
             stages == first \o rest
  <2>1. UndoStages(entry) = stages
    BY <1>3 DEF UndoStages
  <2>2. \A q \in updates(FALSE) \cup updates(TRUE) : RequestTyped(q, n)
    BY <1>2 DEF Updates
  <2>3. updates(FALSE) # {} \/ updates(TRUE) # {}
    <3>1. PICK i \in DOMAIN entry.objs : TRUE
      BY <1>3 DEF EntryTyped
    <3>2. IsLine(entry.objs[i]) \in BOOLEAN
      BY DEF IsLine
    <3>3. QED
      BY <3>1, <3>2
  <2> HIDE DEF updates
  <2>4. /\ Requests(first) = updates(FALSE) /\ Requests(rest) = updates(TRUE)
        /\ \E S : first \in Seq(S)
        /\ \E S : rest \in Seq(S)
        /\ first # <<>> \/ rest # <<>>
    BY <2>3, OneStage
  <2> HIDE DEF first, rest
  <2>5. /\ \E S : stages \in Seq(S)
        /\ stages # <<>>
        /\ Requests(stages) = Requests(first) \cup Requests(rest)
    BY <2>4, StagesJoin, JoinTyped
  <2>6. QED
    BY <2>1, <2>2, <2>4, <2>5
<1>4. CASE entry.undo = "drop"
  <2> DEFINE reqs == {Delete({i}) : i \in entry.ids}
  <2>1. UndoStages(entry) = <<reqs>>
    BY <1>4 DEF UndoStages
  <2>2. \A q \in reqs : RequestTyped(q, n)
    BY DeleteTyped
  <2> HIDE DEF reqs
  <2>3. QED
    BY <2>1, <2>2, OneStage
<1>5. CASE entry.undo = "restore"
  <2> DEFINE creates(lines) == {Restore(i, entry.objs[i]) :
                                i \in {j \in entry.ids : IsLine(entry.objs[j]) = lines}}
             first == Stage(creates(FALSE))
             rest == Stage(creates(TRUE))
             stages == first \o rest
  <2>1. UndoStages(entry) = stages
    BY <1>5 DEF UndoStages
  <2>2. \A i \in entry.ids : entry.objs[i] \in Obj(n)
    BY <1>5 DEF EntryTyped, Map
  <2>3. \A i \in entry.ids : RequestTyped(Restore(i, entry.objs[i]), n)
    <3>1. SUFFICES ASSUME NEW i \in entry.ids PROVE RequestTyped(Restore(i, entry.objs[i]), n)
      OBVIOUS
    <3>2. <<entry.objs[i]>> \in Seq(Obj(n))
      BY <2>2
    <3>3. QED
      BY <3>2 DEF Restore, RequestTyped
  <2>4. \A q \in creates(FALSE) \cup creates(TRUE) : RequestTyped(q, n)
    BY <2>3
  <2>5. creates(FALSE) # {} \/ creates(TRUE) # {}
    <3>1. PICK i \in entry.ids : TRUE
      BY <1>5 DEF EntryTyped
    <3>2. IsLine(entry.objs[i]) \in BOOLEAN
      BY DEF IsLine
    <3>3. QED
      BY <3>1, <3>2
  <2> HIDE DEF creates
  <2>6. /\ Requests(first) = creates(FALSE) /\ Requests(rest) = creates(TRUE)
        /\ \E S : first \in Seq(S)
        /\ \E S : rest \in Seq(S)
        /\ first # <<>> \/ rest # <<>>
    BY <2>5, OneStage
  <2> HIDE DEF first, rest
  <2>7. /\ \E S : stages \in Seq(S)
        /\ stages # <<>>
        /\ Requests(stages) = Requests(first) \cup Requests(rest)
    BY <2>6, StagesJoin, JoinTyped
  <2>8. QED
    BY <2>1, <2>4, <2>6, <2>7
<1>6. CASE entry.undo = "split"
  <2>1. PICK x, y : UndoStages(entry) = <<Updates(entry.objs), {Delete({x})}, {Delete({y})}>>
    BY <1>6 DEF UndoStages
  <2> DEFINE a == Updates(entry.objs)
             b == {Delete({x})}
             c == {Delete({y})}
             stages == <<a, b, c>>
  <2>2. \A q \in a \cup b \cup c : RequestTyped(q, n)
    BY <1>2, DeleteTyped
  <2> HIDE DEF a, b, c
  <2>3. stages \in Seq({a, b, c}) /\ stages # <<>> /\ \A i \in DOMAIN stages : stages[i] \in {a, b, c}
    OBVIOUS
  <2>4. Requests(stages) \subseteq a \cup b \cup c
    BY <2>3 DEF Requests
  <2>5. UndoStages(entry) = stages
    BY <2>1 DEF a, b, c
  <2> HIDE DEF stages
  <2>6. QED
    BY <2>2, <2>3, <2>4, <2>5
<1>7. QED
  BY <1>1, <1>3, <1>4, <1>5, <1>6

LEMMA UndoTyped ==
  ASSUME TypeInv, StackInv, NEW o \in Ops, Undo(o)
  PROVE  TypeInv'
<1> USE DEF undoVars, bounds, history
<1>1. MapsTyped /\ OpsTyped /\ drift \in BOOLEAN /\ holes \in BOOLEAN
  BY DEF TypeInv
<1> DEFINE entry == stack[Len(stack)]
           stages == UndoStages(entry)
           rec == [Free EXCEPT !.kind = "undo", !.entry = entry, !.stages = stages]
<1>2. /\ UNCHANGED <<server, nextId, cache, fetch, seq, strays, edits>>
      /\ drift' \in BOOLEAN /\ holes' \in BOOLEAN
      /\ stack # <<>> /\ stack' = SubSeq(stack, 1, Len(stack) - 1)
      /\ op' \in {[op EXCEPT ![o] = r] : r \in Send(rec)}
  BY <1>1 DEF Undo
<1>3. PICK S : stack \in Seq(S)
  BY DEF StackInv
<1>4. Len(stack) \in Nat \ {0} /\ DOMAIN stack = 1..Len(stack) /\ Len(stack) \in DOMAIN stack
  BY <1>2, <1>3
<1>5. EntryTyped(entry, edits, nextId) /\ entry.undo # "none"
  BY <1>1, <1>4 DEF MapsTyped
<1>6. Fresh(rec, "undo", 0, stages, entry, None)
  BY DEF Fresh, Free
<1>7. /\ \E T : stages \in Seq(T)
      /\ stages # <<>>
      /\ \A q \in Requests(stages) : RequestTyped(q, edits)
  BY <1>5, UndoStagesTyped
<1> HIDE DEF entry, stages, rec
<1>8. 0 \in 0..seq
  BY <1>1 DEF MapsTyped
<1>9. OpTyped(rec, edits, nextId, seq)
  BY <1>5, <1>6, <1>7, <1>8, NoMap, RecTyped
<1>10. PICK r \in Send(rec) : op' = [op EXCEPT ![o] = r]
  BY <1>2
<1>11. OpTyped(r, edits, nextId, seq)
  BY <1>6, <1>7, <1>9, SendTyped DEF Fresh
<1>12. OpsTyped'
  BY <1>1, <1>2, <1>10, <1>11, OnwardStands, OneOpTyped
<1>13. \A i \in DOMAIN stack' : i \in DOMAIN stack /\ stack'[i] = stack[i]
  <2>1. Len(stack) - 1 \in Nat
    BY <1>4
  <2> DEFINE n == Len(stack) - 1
  <2>2. \A i \in 1..n : i \in 1..Len(stack)
    BY <1>4
  <2>3. n \in Nat /\ stack' = SubSeq(stack, 1, n)
    BY <1>2, <2>1
  <2> HIDE DEF n
  <2>4. DOMAIN SubSeq(stack, 1, n) = 1..n /\ \A i \in 1..n : SubSeq(stack, 1, n)[i] = stack[i]
    BY <1>3, <2>2, <2>3, SubSeqProperties
  <2>5. QED
    BY <1>4, <2>2, <2>3, <2>4
<1>14. MapsTyped'
  BY <1>1, <1>2, <1>13 DEF MapsTyped
<1>15. QED
  BY <1>2, <1>12, <1>14 DEF TypeInv

LEMMA FetchTyped ==
  ASSUME TypeInv, Refetch \/ FetchRead \/ FetchAnswer \/ FetchFails \/ UNCHANGED vars
  PROVE  TypeInv'
<1> USE DEF undoVars, bounds, history
<1>1. MapsTyped /\ OpsTyped /\ drift \in BOOLEAN /\ holes \in BOOLEAN
  BY DEF TypeInv
<1>2. /\ UNCHANGED <<server, nextId, seq, stack, strays>>
      /\ edits' = edits \/ edits' = edits + 1
      /\ op' = op \/ op' = Released(op)
      /\ drift' \in BOOLEAN /\ holes' \in BOOLEAN
      /\ cache' = cache \/ cache' = fetch.data
      /\ fetch' = fetch \/ fetch' = NoFetch \/ fetch' = Refetching \/ fetch' = [st |-> "read", data |-> server]
  BY <1>1 DEF Refetch, FetchRead, FetchAnswer, FetchFails, vars
<1>3. Onward
  BY <1>1, <1>2 DEF Onward, MapsTyped
<1>4. OpsTyped'
  BY <1>1, <1>2, <1>3, OpsStandTyped
<1>5. Map(fetch'.data, Obj(edits'), nextId') /\ Map(cache', Obj(edits'), nextId')
  <2>1. Map(NoFetch.data, Obj(edits'), nextId') /\ Map(Refetching.data, Obj(edits'), nextId')
    BY NoMap DEF NoFetch, Refetching
  <2>2. [st |-> "read", data |-> server].data = server
    OBVIOUS
  <2>3. /\ Map(server, Obj(edits'), nextId') /\ Map(cache, Obj(edits'), nextId')
        /\ Map(fetch.data, Obj(edits'), nextId')
    BY <1>1, <1>3, OnwardGrows DEF MapsTyped
  <2>4. QED
    BY <1>2, <2>1, <2>2, <2>3
<1>6. MapsTyped'
  BY <1>1, <1>2, <1>3, <1>5, OnwardGrows DEF MapsTyped, Onward
<1>7. QED
  BY <1>2, <1>4, <1>6 DEF TypeInv

LEMMA TypeStep == ASSUME TypeInv, StackInv, [Next]_vars PROVE TypeInv'
  BY EditsTyped, EndsTyped, RequestsServed, StrayServed, UndoTyped, FetchTyped
     DEF Next, OpSteps, FetchSteps

LEMMA TypeInit == Init => TypeInv
<1> SUFFICES ASSUME Init PROVE TypeInv
  OBVIOUS
<1>1. /\ server = Start /\ cache = Start /\ nextId = Len(Start) + 1 /\ fetch = NoFetch /\ stack = <<>>
      /\ seq = 0 /\ op = [o \in Ops |-> Free] /\ strays = {} /\ edits = 0 /\ drift = FALSE /\ holes = FALSE
  BY DEF Init
<1>2. Start \in Seq(Obj(0))
  BY MapAssumption
<1>3. Map(Start, Obj(0), nextId) /\ nextId \in Nat \ {0}
  <2>1. Len(Start) \in Nat /\ DOMAIN Start = 1..Len(Start) /\ Start \in [1..Len(Start) -> Obj(0)]
    BY <1>2
  <2>2. QED
    BY <1>1, <2>1 DEF Map
<1>4. Map(fetch.data, Obj(0), nextId)
  BY <1>1, NoMap DEF NoFetch
<1>5. MapsTyped
  BY <1>1, <1>3, <1>4 DEF MapsTyped
<1>6. OpsTyped
  <2>1. OpTyped(Free, edits, nextId, seq)
    BY <1>1, <1>3, FreeTyped
  <2>2. QED
    BY <1>1, <2>1 DEF OpsTyped
<1>7. QED
  BY <1>1, <1>5, <1>6 DEF TypeInv

\* Every object of the backend and of the cache is well-formed and has an id already handed
\* out, no place of an edit to come is on the map, the stack keeps its limit, and no drag is
\* newer than the last, for any number of coroutines, objects, edits and faults.
THEOREM MapTypes == Spec => []TypeOK
<1>1. TypeInv /\ CountInv /\ StackInv => TypeOK
  <2> SUFFICES ASSUME TypeInv, CountInv, StackInv PROVE TypeOK
    OBVIOUS
  <2>1. \A o \in Ops : op[o].seq <= seq
    BY DEF TypeInv, OpsTyped, OpTyped, MapsTyped
  <2>2. \A m \in {server, cache} : /\ DOMAIN m \subseteq 1..(nextId - 1)
                                   /\ \A i \in DOMAIN m : m[i] \in Obj(edits)
    BY DEF TypeInv, MapsTyped, Map
  <2>3. QED
    BY <2>1, <2>2 DEF TypeOK, TypeInv, MapsTyped, CountInv, StackInv
<1>2. Init => TypeInv /\ CountInv /\ StackInv
  BY TypeInit, CountInit, StackInit
<1>3. TypeInv /\ CountInv /\ StackInv /\ [Next]_vars => TypeInv' /\ CountInv' /\ StackInv'
  BY TypeStep, CountStep, StackStep
<1>4. QED
  BY <1>1, <1>2, <1>3, PTL DEF Spec

=============================================================================
