-------------------------- MODULE SliceCatalog_proofs -------------------------
(***************************************************************************)
(* Theorems about SliceCatalog, for any number of slices, UPFs, UEs and     *)
(* requests, whether or not calls fail and launchers overlap.               *)
(***************************************************************************)
EXTENDS SliceCatalog, TLAPS

-----------------------------------------------------------------------------
(* The catalogs of SliceState.                                              *)

LEMMA InitialCatalogIsARecord == initialCatalog \in CatalogRecord
  BY InitialPhases DEF initialCatalog, CatalogRecord

LEMMA MovedIsARecord ==
  ASSUME NEW c \in CatalogRecord, NEW s \in Slices, NEW phase \in SlicePhase
  PROVE  moved(c, s, phase) \in CatalogRecord
  BY DEF moved, CatalogRecord

LEMMA CanMoveToAPhase ==
  ASSUME NEW c \in CatalogRecord, NEW s \in Slices, NEW phase, CanMove(c, s, phase)
  PROVE  phase \in SlicePhase
  <1>1. Phase(c, s) \in {"running", "stopped", "deleted"}
    BY DEF Phase, CatalogRecord, SlicePhase
  <1> QED
    BY <1>1 DEF CanMove, allowed, SlicePhase

LEMMA PhaseTyped ==
  ASSUME NEW c \in CatalogRecord
  PROVE  [s \in Slices |-> Phase(c, s)] \in [Slices -> SlicePhase]
  BY DEF Phase, CatalogRecord

LEMMA SlicesHaveUpfs ==
  ASSUME NEW s \in Slices
  PROVE  UpfsOf(s) \in (SUBSET Upfs) \ {{}}
  BY SlicesAreServed, SessionsAreBound DEF UpfsOf

-----------------------------------------------------------------------------
(* Type correctness.  What a request's step does to its own record.         *)

SliceSteps == RequestSteps \ {"idle", "restart_container", "pings", "resources",
                              "update_resources", "receipt"}
WriteSteps == {"append", "truncate", "overwrite"}

(* A request at a step of a slice's lifecycle is a slice action and holds    *)
(* the lock of the catalog.                                                 *)
Sound(r) ==
  /\ r \in Request
  /\ r.at \in UpfSteps => r.todo \in (SUBSET Upfs) \ {{}}
  /\ r.at = "ues" => r.todo \in (SUBSET UEs) \ {{}}
  /\ r.at \in SliceSteps =>
       r.lock = CatalogLock /\ r.slice \in Slices /\ r.kind \in SliceActions
  /\ r.at = "resources" => r.slice \in Slices

TypeInv == TypeOK /\ \A p \in Requests : Sound(req[p])

LEMMA IdleIsSound == Sound(Idle)
  BY InitialCatalogIsARecord
     DEF Sound, Idle, Request, RequestSteps, SliceSteps, UpfSteps

(* A request goes on with the same lock, or is over and removes it.         *)
Moves(p) == \E r : /\ Sound(r) /\ r.lock = req[p].lock
                   /\ req' = [req EXCEPT ![p] = r]
                   /\ locks' = locks

LEMMA GotoMoves ==
  ASSUME NEW p \in Requests, TypeInv, NEW s \in RequestSteps \ UpfSteps,
         s # "ues", s # "resources",
         s \in SliceSteps => req[p].at \in SliceSteps,
         Goto(p, s), UNCHANGED locks
  PROVE  Moves(p)
  <1> DEFINE r == [req[p] EXCEPT !.at = s]
  <1>1. req[p] \in Request /\ Sound(req[p]) /\ req \in [Requests -> Request]
    BY DEF TypeInv, TypeOK
  <1>2. r \in Request /\ r.at = s /\ r.lock = req[p].lock /\ r.slice = req[p].slice
          /\ r.kind = req[p].kind
    BY <1>1 DEF Request
  <1>3. req' = [req EXCEPT ![p] = r]
    BY <1>1 DEF Goto
  <1> HIDE DEF r
  <1>4. Sound(r)
    BY <1>1, <1>2 DEF Sound
  <1> QED
    BY <1>2, <1>3, <1>4 DEF Moves

LEMMA GotoTodoMoves ==
  ASSUME NEW p \in Requests, TypeInv, NEW s \in RequestSteps \ {"resources"}, NEW t,
         s \in UpfSteps => t \in (SUBSET Upfs) \ {{}},
         s = "ues" => t \in (SUBSET UEs) \ {{}},
         t \in SUBSET (Upfs \union UEs),
         s \in SliceSteps => req[p].at \in SliceSteps,
         req' = [req EXCEPT ![p] = [req[p] EXCEPT !.at = s, !.todo = t]],
         UNCHANGED locks
  PROVE  Moves(p)
  <1> DEFINE r == [req[p] EXCEPT !.at = s, !.todo = t]
  <1>1. req[p] \in Request /\ Sound(req[p])
    BY DEF TypeInv, TypeOK
  <1>2. r \in Request /\ r.at = s /\ r.todo = t /\ r.lock = req[p].lock
          /\ r.slice = req[p].slice /\ r.kind = req[p].kind
    BY <1>1 DEF Request
  <1> HIDE DEF r
  <1>4. Sound(r)
    BY <1>1, <1>2 DEF Sound
  <1> QED
    BY <1>2, <1>4 DEF Moves, r

LEMMA GotoRecMoves ==
  ASSUME NEW p \in Requests, TypeInv, NEW c \in CatalogRecord,
         req[p].at \in SliceSteps,
         req' = [req EXCEPT ![p] = [req[p] EXCEPT !.at = "append", !.rec = c]],
         UNCHANGED locks
  PROVE  Moves(p)
  <1> DEFINE r == [req[p] EXCEPT !.at = "append", !.rec = c]
  <1>1. req[p] \in Request /\ Sound(req[p])
    BY DEF TypeInv, TypeOK
  <1>2. r \in Request /\ r.at = "append" /\ r.lock = req[p].lock
          /\ r.slice = req[p].slice /\ r.kind = req[p].kind
    BY <1>1 DEF Request, RequestSteps
  <1> HIDE DEF r
  <1>4. Sound(r)
    BY <1>1, <1>2 DEF Sound, UpfSteps
  <1> QED
    BY <1>2, <1>4 DEF Moves, r

(* The docker calls that go through a set of containers.                    *)
Effects == {Starting, Stopping, Creating, Removing, Limiting}

LEMMA EffectsTyped ==
  ASSUME NEW e \in Effects, NEW c \in DOMAIN e
  PROVE  e[c] \in ContainerState
  <1>1. CASE e = Starting
    BY <1>1 DEF Starting, ContainerState
  <1>2. CASE e = Stopping
    BY <1>2 DEF Stopping, ContainerState
  <1>3. CASE e = Creating
    BY <1>3 DEF Creating, ContainerState
  <1>4. CASE e = Removing
    BY <1>4 DEF Removing, ContainerState
  <1>5. CASE e = Limiting
    BY <1>5 DEF Limiting, ContainerState
  <1> QED
    BY <1>1, <1>2, <1>3, <1>4, <1>5 DEF Effects

LEMMA EachUpfMoves ==
  ASSUME NEW p \in Requests, TypeInv, NEW here \in UpfSteps, NEW e \in Effects,
         NEW s \in RequestSteps \ UpfSteps, s # "ues", s # "resources",
         s \in SliceSteps => here \in SliceSteps,
         EachUpf(p, here, s, e)
  PROVE  /\ Moves(p)
         /\ upf' \in [Upfs -> ContainerState] /\ attached' \subseteq Sessions
  <1>1. PICK u \in req[p].todo :
          /\ upf[u] \in DOMAIN e
          /\ upf' = [upf EXCEPT ![u] = e[upf[u]]]
          /\ attached' = IF here \in Restarts \/ upf'[u] # upf[u]
                         THEN attached \ Through(u) ELSE attached
          /\ req' = [req EXCEPT ![p].todo = req[p].todo \ {u},
                                ![p].at = IF req[p].todo = {u} THEN s ELSE here]
    BY DEF EachUpf
  <1> DEFINE to == IF req[p].todo = {u} THEN s ELSE here
             left == req[p].todo \ {u}
  <1>2. req[p].at = here /\ locks' = locks /\ req[p].todo \in (SUBSET Upfs) \ {{}}
    BY DEF EachUpf, TypeInv, Sound
  <1>3. req \in [Requests -> Request] /\ req[p] \in Request
          /\ upf \in [Upfs -> ContainerState] /\ attached \subseteq Sessions
    BY DEF TypeInv, TypeOK
  <1>4. left \in SUBSET Upfs /\ (to \in UpfSteps => left # {}) /\ to # "ues"
          /\ to # "resources"
          /\ (to \in SliceSteps => here \in SliceSteps) /\ to \in RequestSteps
    BY <1>2 DEF UpfSteps, RequestSteps
  <1>5. req' = [req EXCEPT ![p].todo = left, ![p].at = to]
    BY <1>1
  <1> HIDE DEF to, left
  <1>6. req' = [req EXCEPT ![p] = [req[p] EXCEPT !.at = to, !.todo = left]]
    BY <1>3, <1>5 DEF Request
  <1>7. Moves(p)
    BY <1>2, <1>4, <1>6, GotoTodoMoves
  <1>8. upf' \in [Upfs -> ContainerState]
    BY <1>1, <1>3, EffectsTyped
  <1> QED
    BY <1>1, <1>3, <1>7, <1>8

(* Each step of Serve moves its request or removes its lock.                *)
LEMMA AdvanceMoves ==
  ASSUME NEW p \in Requests, TypeInv, Advance(p)
  PROVE  Moves(p) \/ Leave(p)
  <1> DEFINE s == req[p].slice
             target == next_phase[req[p].kind]
  <1>1. req \in [Requests -> Request] /\ req[p] \in Request /\ Sound(req[p])
          /\ catalog \in CatalogRecord /\ req[p].at \in SliceSteps
    BY DEF TypeInv, TypeOK, Advance, SliceSteps, RequestSteps
  <1>2. s \in Slices
    BY <1>1 DEF Sound
  <1>3. CASE ~empty /\ CanMove(catalog, s, target)
    <2>1. moved(catalog, s, target) \in CatalogRecord
      BY <1>1, <1>2, <1>3, CanMoveToAPhase, MovedIsARecord
    <2> DEFINE c == moved(catalog, s, target)
    <2>2. req' = [req EXCEPT ![p].at = "append", ![p].rec = c] /\ UNCHANGED locks
      BY <1>3 DEF Advance
    <2> HIDE DEF c
    <2>3. req' = [req EXCEPT ![p] = [req[p] EXCEPT !.at = "append", !.rec = c]]
      BY <1>1, <2>2 DEF Request
    <2> QED
      BY <1>1, <2>1, <2>2, <2>3, GotoRecMoves DEF c
  <1> QED
    BY <1>3 DEF Advance

LEMMA ServeMovesOrLeaves ==
  ASSUME NEW p \in Requests, TypeInv, Serve(p)
  PROVE  Moves(p) \/ Leave(p)
  <1>1. req \in [Requests -> Request] /\ req[p] \in Request /\ Sound(req[p])
    BY DEF TypeInv, TypeOK
  <1>2. /\ {"create_slice", "start_slice", "restart", "stop_slice", "delete_slice",
            "restart_container", "update_resources"} = UpfSteps
        /\ {"advance", "list", "smf"} \subseteq (RequestSteps \ UpfSteps) \intersect SliceSteps
        /\ {"pings", "receipt"} \subseteq RequestSteps \ UpfSteps
        /\ "pings" \notin SliceSteps /\ "receipt" \notin SliceSteps
        /\ {"create_slice", "start_slice", "restart", "stop_slice", "delete_slice"}
             \subseteq SliceSteps
    BY DEF UpfSteps, RequestSteps, SliceSteps
  <1>3. ASSUME CheckPhase(p)
        PROVE  Moves(p) \/ Leave(p)
    <2> DEFINE k == req[p].kind
               t == UpfsOf(req[p].slice)
    <2>1. req[p].at = "check" /\ req[p].at \in SliceSteps
      BY <1>3 DEF CheckPhase, SliceSteps, RequestSteps
    <2>2. k \in SliceActions /\ req[p].slice \in Slices
      BY <1>1, <2>1 DEF Sound
    <2>3. t \in (SUBSET Upfs) \ {{}}
      BY <2>2, SlicesHaveUpfs
    <2>4. k \in RequestSteps \ {"resources"} /\ k # "ues"
      BY <2>2 DEF SliceActions, RequestSteps
    <2>5. CASE req' = [req EXCEPT ![p].at = k, ![p].todo = t] /\ UNCHANGED locks
      <3> HIDE DEF k, t
      <3>1. req' = [req EXCEPT ![p] = [req[p] EXCEPT !.at = k, !.todo = t]]
        BY <1>1, <2>5 DEF Request
      <3> QED
        BY <2>1, <2>3, <2>4, <2>5, <3>1, GotoTodoMoves
    <2> QED
      BY <1>3, <2>5 DEF CheckPhase
  <1>4. ASSUME CreateContainer(p) \/ StartUpf(p) \/ RestartUpf(p) \/ StopUpf(p)
                 \/ RemoveContainer(p) \/ RestartContainer(p) \/ UpdateResources(p)
        PROVE  Moves(p)
    <2>1. {Starting, Stopping, Creating, Removing, Limiting} \subseteq Effects
      BY DEF Effects
    <2>2. CreateContainer(p) => Moves(p)
      BY <1>2, <2>1, EachUpfMoves DEF CreateContainer
    <2>3. StartUpf(p) => Moves(p)
      BY <1>2, <2>1, EachUpfMoves DEF StartUpf
    <2>4. RestartUpf(p) => Moves(p)
      BY <1>2, <2>1, EachUpfMoves DEF RestartUpf
    <2>5. StopUpf(p) => Moves(p)
      BY <1>2, <2>1, EachUpfMoves DEF StopUpf
    <2>6. RemoveContainer(p) => Moves(p)
      BY <1>2, <2>1, EachUpfMoves DEF RemoveContainer
    <2>7. RestartContainer(p) => Moves(p)
      BY <1>2, <2>1, EachUpfMoves DEF RestartContainer
    <2>8. UpdateResources(p) => Moves(p)
      BY <1>2, <2>1, EachUpfMoves DEF UpdateResources
    <2> QED
      BY <1>4, <2>2, <2>3, <2>4, <2>5, <2>6, <2>7, <2>8
  <1>5. ASSUME ListActive(p)
        PROVE  Moves(p)
    <2> DEFINE active == {t \in Slices : Phase(catalog, t) = "running" \/ t = req[p].slice}
               t == UNION {UpfsOf(s) : s \in active}
    <2>1. req[p].at = "list" /\ req[p].at \in SliceSteps
      BY <1>5 DEF ListActive, SliceSteps, RequestSteps
    <2>2. req[p].slice \in Slices
      BY <1>1, <2>1 DEF Sound
    <2>3. t \in (SUBSET Upfs) \ {{}}
      BY <2>2, SlicesHaveUpfs
    <2>4. req' = [req EXCEPT ![p].at = "restart", ![p].todo = t] /\ UNCHANGED locks
      BY <1>5 DEF ListActive
    <2> HIDE DEF t
    <2>5. req' = [req EXCEPT ![p] = [req[p] EXCEPT !.at = "restart", !.todo = t]]
      BY <1>1, <2>4 DEF Request
    <2>6. "restart" \in RequestSteps \ {"resources"} /\ "restart" # "ues"
      BY DEF RequestSteps
    <2> QED
      BY <2>1, <2>3, <2>4, <2>5, <2>6, GotoTodoMoves
  <1>6. ASSUME RestartSmf(p)
        PROVE  Moves(p)
    <2>1. req[p].at \in SliceSteps /\ UNCHANGED locks
      BY <1>6 DEF RestartSmf, SliceSteps, RequestSteps
    <2>2. req' = [req EXCEPT ![p] = [req[p] EXCEPT !.at = "ues", !.todo = UEs]]
      BY <1>1, <1>6 DEF RestartSmf, Request
    <2> QED
      BY <2>1, <2>2, GotoTodoMoves, SessionsAreBound DEF RequestSteps, UpfSteps
  <1>7. ASSUME RestartUe(p)
        PROVE  Moves(p) \/ Leave(p)
    <2>1. PICK e \in req[p].todo :
            \/ /\ req' = [req EXCEPT ![p].todo = req[p].todo \ {e},
                   ![p].at = IF req[p].todo = {e} THEN "traffic" ELSE "ues"]
               /\ UNCHANGED locks
            \/ Leave(p)
      BY <1>7 DEF RestartUe
    <2> DEFINE left == req[p].todo \ {e}
               to == IF req[p].todo = {e} THEN "traffic" ELSE "ues"
    <2>2. req[p].at = "ues" /\ req[p].at \in SliceSteps
      BY <1>7 DEF RestartUe, SliceSteps, RequestSteps
    <2>3. left \in SUBSET UEs /\ (to = "ues" => left # {})
            /\ to \in RequestSteps \ (UpfSteps \union {"resources"})
      BY <1>1, <2>2 DEF Sound, RequestSteps, UpfSteps
    <2>4. CASE req' = [req EXCEPT ![p].todo = left, ![p].at = to] /\ UNCHANGED locks
      <3> HIDE DEF left, to
      <3>1. req' = [req EXCEPT ![p] = [req[p] EXCEPT !.at = to, !.todo = left]]
        BY <1>1, <2>4 DEF Request
      <3> QED
        BY <2>2, <2>3, <2>4, <3>1, GotoTodoMoves
    <2> QED
      BY <2>1, <2>4
  <1>8. ASSUME TrafficOfSlice(p)
        PROVE  Moves(p) \/ Leave(p)
    <2>1. req[p].at \in SliceSteps /\ "advance" \in RequestSteps \ UpfSteps
      BY <1>8 DEF TrafficOfSlice, SliceSteps, RequestSteps, UpfSteps
    <2> QED
      BY <1>8, <2>1, GotoMoves DEF TrafficOfSlice
  <1>9. ASSUME AppendLog(p) \/ Truncate(p) \/ Overwrite(p)
        PROVE  Moves(p)
    <2>1. PICK s \in {"truncate", "overwrite", "receipt"} : Goto(p, s)
      BY <1>9 DEF AppendLog, Truncate, Overwrite
    <2>2. req[p].at \in SliceSteps /\ UNCHANGED locks
      BY <1>9 DEF AppendLog, Truncate, Overwrite, SliceSteps, RequestSteps
    <2>3. s \in RequestSteps \ UpfSteps /\ s # "ues" /\ s # "resources"
      BY DEF RequestSteps, UpfSteps
    <2> QED
      BY <2>1, <2>2, <2>3, GotoMoves
  <1>10. ASSUME Pings(p)
         PROVE  Moves(p) \/ Leave(p)
    <2>1. "receipt" \in RequestSteps \ UpfSteps /\ "receipt" \notin SliceSteps
      BY DEF SliceSteps, RequestSteps, UpfSteps
    <2> QED
      BY <1>10, <2>1, GotoMoves DEF Pings
  <1>11. Receipt(p) \/ Raise(p) => Leave(p)
    BY DEF Receipt, Raise
  <1>12. ASSUME CheckNotDeleted(p)
         PROVE  Moves(p) \/ Leave(p)
    <2> DEFINE t == UpfsOf(req[p].slice)
    <2>1. req[p].at = "resources" /\ req[p].slice \in Slices
      BY <1>1, <1>12 DEF CheckNotDeleted, Sound
    <2>2. t \in (SUBSET Upfs) \ {{}}
      BY <2>1, SlicesHaveUpfs
    <2>3. CASE req' = [req EXCEPT ![p].at = "update_resources", ![p].todo = t]
                 /\ UNCHANGED locks
      <3> HIDE DEF t
      <3>1. req' = [req EXCEPT ![p] = [req[p] EXCEPT !.at = "update_resources",
                                                     !.todo = t]]
        BY <1>1, <2>3 DEF Request
      <3>2. "update_resources" \in RequestSteps \ {"resources"}
              /\ "update_resources" \notin SliceSteps
        BY DEF RequestSteps, SliceSteps
      <3> QED
        BY <2>2, <2>3, <3>1, <3>2, GotoTodoMoves
    <2> QED
      BY <1>12, <2>3 DEF CheckNotDeleted
  <1> QED
    BY <1>3, <1>4, <1>5, <1>6, <1>7, <1>8, <1>9, <1>10, <1>11, <1>12, AdvanceMoves
       DEF Serve

(* The part of TypeInv that is not about requests.                          *)
RestTyped ==
  /\ catalog \in CatalogRecord /\ logged \in CatalogRecord /\ empty \in BOOLEAN
  /\ locks \subseteq LockNames
  /\ upf \in [Upfs -> ContainerState] /\ attached \subseteq Sessions
  /\ gateway \in BOOLEAN /\ launch \in Launching
  /\ requests \in Nat /\ launches \in Nat /\ crashes \in Nat
  /\ faulty \in BOOLEAN

LEMMA TypeInvByParts ==
  TypeInv <=> /\ RestTyped /\ req \in [Requests -> Request]
              /\ \A p \in Requests : Sound(req[p])
  BY DEF TypeInv, TypeOK, RestTyped, Sound

LEMMA RequestsTyped ==
  ASSUME TypeInv,
         \/ req' = req
         \/ req' = NoRequests
         \/ \E p \in Requests : \E r : Sound(r) /\ req' = [req EXCEPT ![p] = r]
  PROVE  req' \in [Requests -> Request] /\ \A p \in Requests : Sound(req'[p])
  <1>1. req \in [Requests -> Request] /\ \A p \in Requests : Sound(req[p])
    BY DEF TypeInv, TypeOK
  <1>2. CASE req' = NoRequests
    BY <1>2, IdleIsSound DEF NoRequests, Sound
  <1>3. CASE \E p \in Requests : \E r : Sound(r) /\ req' = [req EXCEPT ![p] = r]
    <2>0. PICK p \in Requests : \E r : Sound(r) /\ req' = [req EXCEPT ![p] = r]
      BY <1>3
    <2>1. PICK r : Sound(r) /\ req' = [req EXCEPT ![p] = r]
      BY <2>0
    <2>2. r \in Request
      BY <2>1 DEF Sound
    <2>3. \A q \in Requests : req'[q] = IF q = p THEN r ELSE req[q]
      BY <1>1, <2>1
    <2> QED
      BY <1>1, <2>1, <2>2, <2>3
  <1> QED
    BY <1>1, <1>2, <1>3

Submit(p) ==
  SliceLifecycle(p) \/ RestartRequest(p) \/ ResourceRequest(p) \/ SliceResourceRequest(p)

LEMMA AcceptedIsSound ==
  ASSUME NEW p \in Requests, Submit(p)
  PROVE  \E name \in LockNames : \E r : Sound(r) /\ r.lock = name /\ r.at # "idle"
           /\ r.at \in {"check", "resources", "restart_container", "update_resources"}
           /\ r.at \notin WriteSteps /\ Accept(p, name, r)
  <1>1. ASSUME NEW kind \in SliceActions, NEW s \in Slices,
               NEW r, r = [Idle EXCEPT !.at = "check", !.kind = kind,
                                       !.lock = CatalogLock, !.slice = s]
        PROVE  Sound(r) /\ r.lock = CatalogLock /\ r.at = "check"
    <2>1. r = [at |-> "check", kind |-> kind, lock |-> CatalogLock, slice |-> s,
               todo |-> {}, rec |-> initialCatalog]
      BY <1>1 DEF Idle
    <2>2. r \in Request
      BY <2>1, InitialCatalogIsARecord DEF Request, RequestSteps, Kinds, LockNames
    <2> QED
      BY <2>1, <2>2 DEF Sound, UpfSteps
  <1> DEFINE OnContainer(r, step, kind, u) ==
               r = [Idle EXCEPT !.at = step, !.lock = u, !.kind = kind, !.todo = {u}]
  <1>2. ASSUME NEW u \in Upfs, NEW step \in {"restart_container", "update_resources"},
               NEW kind \in {"restart_container", "update_container_resources"},
               NEW r, OnContainer(r, step, kind, u)
        PROVE  Sound(r) /\ r.lock = u /\ r.at = step
    <2>1. r = [at |-> step, kind |-> kind, lock |-> u,
               slice |-> "none", todo |-> {u}, rec |-> initialCatalog]
      BY <1>2 DEF Idle
    <2>2. r \in Request
      BY <2>1, InitialCatalogIsARecord DEF Request, RequestSteps, Kinds, LockNames
    <2> QED
      BY <2>1, <2>2 DEF Sound, UpfSteps, SliceSteps
  <1>3. ASSUME NEW s \in Slices,
               NEW r, r = [Idle EXCEPT !.at = "resources", !.lock = CatalogLock,
                             !.kind = "update_slice_resources", !.slice = s]
        PROVE  Sound(r) /\ r.lock = CatalogLock /\ r.at = "resources"
    <2>1. r = [at |-> "resources", kind |-> "update_slice_resources",
               lock |-> CatalogLock, slice |-> s, todo |-> {}, rec |-> initialCatalog]
      BY <1>3 DEF Idle
    <2>2. r \in Request
      BY <2>1, InitialCatalogIsARecord DEF Request, RequestSteps, Kinds, LockNames
    <2> QED
      BY <2>1, <2>2 DEF Sound, UpfSteps, SliceSteps
  <1> DEFINE First == {"check", "resources", "restart_container", "update_resources"}
             Taken(name) == \E r : /\ Sound(r) /\ r.lock = name /\ r.at \in First
                                   /\ Accept(p, name, r)
  <1>4. SliceLifecycle(p) => Taken(CatalogLock)
    BY <1>1 DEF SliceLifecycle
  <1>5. SliceResourceRequest(p) => Taken(CatalogLock)
    BY <1>3 DEF SliceResourceRequest
  <1>6. ASSUME RestartRequest(p) PROVE \E u \in Upfs : Taken(u)
    <2>1. PICK u \in Upfs : Accept(p, u, [Idle EXCEPT !.at = "restart_container",
            !.lock = u, !.kind = "restart_container", !.todo = {u}])
      BY <1>6 DEF RestartRequest
    <2> DEFINE r == [Idle EXCEPT !.at = "restart_container", !.lock = u,
                       !.kind = "restart_container", !.todo = {u}]
    <2>2. OnContainer(r, "restart_container", "restart_container", u)
      OBVIOUS
    <2> HIDE DEF r, OnContainer
    <2>4. Sound(r) /\ r.lock = u /\ r.at = "restart_container"
      BY <1>2, <2>2
    <2>3. Accept(p, u, r)
      BY <2>1 DEF r
    <2> QED
      BY <2>3, <2>4
  <1>7. ASSUME ResourceRequest(p) PROVE \E u \in Upfs : Taken(u)
    <2>1. PICK u \in Upfs : Accept(p, u, [Idle EXCEPT !.at = "update_resources",
            !.lock = u, !.kind = "update_container_resources", !.todo = {u}])
      BY <1>7 DEF ResourceRequest
    <2> DEFINE r == [Idle EXCEPT !.at = "update_resources", !.lock = u,
                       !.kind = "update_container_resources", !.todo = {u}]
    <2>2. OnContainer(r, "update_resources", "update_container_resources", u)
      OBVIOUS
    <2> HIDE DEF r, OnContainer
    <2>4. Sound(r) /\ r.lock = u /\ r.at = "update_resources"
      BY <1>2, <2>2
    <2>3. Accept(p, u, r)
      BY <2>1 DEF r
    <2> QED
      BY <2>3, <2>4
  <1>8. \A at \in First : at # "idle" /\ at \notin WriteSteps
    BY DEF WriteSteps
  <1>9. CatalogLock \in LockNames /\ Upfs \subseteq LockNames
    BY DEF LockNames
  <1>10. \E name \in LockNames : Taken(name)
    BY <1>4, <1>5, <1>6, <1>7, <1>9 DEF Submit
  <1> QED
    BY <1>8, <1>10

LEMMA AcceptKeepsTypes ==
  ASSUME NEW p \in Requests, TypeInv, Submit(p)
  PROVE  TypeInv'
  <1>1. PICK name \in LockNames : \E r : Sound(r) /\ Accept(p, name, r)
    BY AcceptedIsSound
  <1>2. req' \in [Requests -> Request] /\ \A q \in Requests : Sound(req'[q])
    BY <1>1, RequestsTyped DEF Accept
  <1>3. RestTyped'
    BY <1>1, TypeInvByParts DEF RestTyped, Accept, files
  <1> QED
    BY <1>2, <1>3 DEF TypeInv, TypeOK, RestTyped, Sound

LEMMA ServeKeepsTypes ==
  ASSUME NEW p \in Requests, TypeInv, Serve(p)
  PROVE  TypeInv'
  <1>1. Moves(p) \/ Leave(p)
    BY ServeMovesOrLeaves
  <1>2. req' \in [Requests -> Request] /\ \A q \in Requests : Sound(req'[q])
    BY <1>1, IdleIsSound, RequestsTyped DEF Moves, Leave
  <1>3. locks' \subseteq LockNames
    BY <1>1, TypeInvByParts DEF Moves, Leave, RestTyped
  <1>4. upf' \in [Upfs -> ContainerState] /\ attached' \subseteq Sessions
    <2>1. ASSUME NEW here \in UpfSteps, NEW s \in {"advance", "list", "smf", "pings", "receipt"},
                 NEW e \in Effects, EachUpf(p, here, s, e),
                 s \in {"pings", "receipt"}
                   \/ here \notin {"restart_container", "update_resources"}
          PROVE  upf' \in [Upfs -> ContainerState] /\ attached' \subseteq Sessions
      <3>1. s \in RequestSteps \ UpfSteps /\ s # "ues" /\ s # "resources"
              /\ (s \in SliceSteps => here \in SliceSteps)
        BY <2>1 DEF RequestSteps, UpfSteps, SliceSteps
      <3> QED
        BY <2>1, <3>1, EachUpfMoves
    <2>2. CASE CreateContainer(p) \/ StartUpf(p) \/ RestartUpf(p) \/ StopUpf(p)
                 \/ RemoveContainer(p) \/ RestartContainer(p) \/ UpdateResources(p)
      BY <2>1, <2>2 DEF CreateContainer, StartUpf, RestartUpf, StopUpf,
           RemoveContainer, RestartContainer, UpdateResources, UpfSteps, Effects
    <2>3. CASE RestartSmf(p) \/ RestartUe(p) \/ Pings(p)
      BY <2>3, TypeInvByParts DEF RestTyped, RestartSmf, RestartUe, Pings, files, OfUE
    <2> QED
      BY <2>2, <2>3, TypeInvByParts DEF RestTyped, Serve, CheckPhase,
           CheckNotDeleted, ListActive, TrafficOfSlice, Advance, AppendLog, Truncate, Overwrite, Receipt, Raise
  <1>5. UNCHANGED <<gateway, launch, counters>>
    BY DEF Serve, CheckPhase, CheckNotDeleted, UpdateResources, ListActive,
         TrafficOfSlice, Advance, AppendLog,
         Truncate, Overwrite, Receipt, Raise, RestartSmf, RestartUe, Pings,
         CreateContainer, StartUpf, RestartUpf, StopUpf, RemoveContainer,
         RestartContainer, EachUpf
  <1>6. catalog' \in CatalogRecord /\ logged' \in CatalogRecord /\ empty' \in BOOLEAN
    <2>1. req[p].rec \in CatalogRecord
      BY DEF TypeInv, TypeOK, Request
    <2>2. CASE AppendLog(p) \/ Truncate(p) \/ Overwrite(p)
      BY <2>1, <2>2, TypeInvByParts DEF RestTyped, AppendLog, Truncate, Overwrite
    <2>3. CASE UNCHANGED files
      BY <2>3, TypeInvByParts DEF RestTyped, files
    <2> QED
      BY <2>2, <2>3 DEF Serve, CheckPhase, CheckNotDeleted, UpdateResources, ListActive,
         TrafficOfSlice, Advance,
         Receipt, Raise, RestartSmf, RestartUe, Pings, CreateContainer, StartUpf,
         RestartUpf, StopUpf, RemoveContainer, RestartContainer, EachUpf
  <1>7. RestTyped'
    BY <1>3, <1>4, <1>5, <1>6, TypeInvByParts DEF RestTyped, counters
  <1> QED
    BY <1>2, <1>7 DEF TypeInv, TypeOK, RestTyped, Sound

(* The launcher and the crashes leave the files alone, and the requests as  *)
(* they are or ended.                                                       *)
LauncherOrCrash ==
  \/ \E op \in LaunchOps : Launch(op)
  \/ LaunchStep \/ GatewayDies \/ LauncherKilled \/ HostRestart

LEMMA LauncherLeavesFilesAlone ==
  ASSUME LauncherOrCrash
  PROVE  /\ UNCHANGED files /\ UNCHANGED locks
         /\ req' = req \/ req' = NoRequests
  <1>1. ASSUME NEW op \in LaunchOps, Launch(op)
        PROVE  UNCHANGED <<files, locks, req>>
    BY <1>1 DEF Launch
  <1>2. CASE LaunchStep
    BY <1>2 DEF LaunchStep, ComposeDown, ComposeStop, ComposeUpCore, TrafficReady,
         ListSlices, ReconcileUpf, Reconciled, TelemetryUp, LaunchRaises, ComposeRaises
  <1> QED
    BY <1>1, <1>2 DEF LauncherOrCrash, GatewayDies, LauncherKilled, HostRestart

LEMMA LauncherTyped ==
  ASSUME TypeInv, LauncherOrCrash
  PROVE  launch' \in Launching
  <1>1. launch \in Launching /\ AtRest \in Launching
    BY TypeInvByParts, InitialPhases DEF RestTyped, AtRest, Launching, LaunchSteps
  <1>2. ASSUME NEW s \in LaunchSteps, NEW t \in SUBSET ({"stop", "rm"} \X Upfs)
        PROVE  [launch EXCEPT !.at = s] \in Launching
                 /\ [launch EXCEPT !.todo = t] \in Launching
    BY <1>1 DEF Launching
  <1>3. {"pings", "list", "telemetry", "down", "halt", "core"} \subseteq LaunchSteps
    BY DEF LaunchSteps
  <1>4. ASSUME NEW op \in LaunchOps, Launch(op)
        PROVE  launch' \in Launching
    <2> DEFINE s == CASE op = "reset" -> "down" [] op = "stop" -> "halt"
                      [] OTHER -> "core"
    <2>1. s \in {"down", "halt", "core"}
      OBVIOUS
    <2>2. launch' = [AtRest EXCEPT !.op = op, !.at = s]
      BY <1>4 DEF Launch
    <2> HIDE DEF s
    <2> QED
      BY <1>1, <1>3, <2>1, <2>2 DEF Launching
  <1>5. CASE ComposeDown \/ ComposeUpCore \/ TrafficReady \/ Reconciled
    BY <1>2, <1>3, <1>5 DEF ComposeDown, ComposeUpCore, TrafficReady, Reconciled
  <1>6. CASE ListSlices
    <2> DEFINE seen == [s \in Slices |-> Phase(catalog, s)]
    <2>1. seen \in [Slices -> SlicePhase]
      BY TypeInvByParts, PhaseTyped DEF RestTyped
    <2>2. launch' = [launch EXCEPT !.seen = seen, !.todo = CallsFor(seen),
                                   !.at = "reconcile"]
      BY <1>6 DEF ListSlices
    <2> HIDE DEF seen
    <2>3. CallsFor(seen) \subseteq {"stop", "rm"} \X Upfs
      BY SlicesHaveUpfs DEF CallsFor, Inactive, Deleted
    <2> QED
      BY <1>1, <2>1, <2>2, <2>3 DEF Launching, LaunchSteps
  <1>7. CASE ReconcileUpf
    <2>1. PICK x : launch' = [launch EXCEPT !.todo = launch.todo \ {x}]
      BY <1>7 DEF ReconcileUpf
    <2>2. launch.todo \ {x} \in SUBSET ({"stop", "rm"} \X Upfs)
      BY <1>1 DEF Launching
    <2> QED
      BY <1>2, <1>3, <2>1, <2>2
  <1>8. launch' \in {launch, AtRest} => launch' \in Launching
    BY <1>1
  <1> QED
    BY <1>4, <1>5, <1>6, <1>7, <1>8 DEF LauncherOrCrash, LaunchStep, ComposeStop,
      TelemetryUp, LaunchRaises, ComposeRaises, GatewayDies, LauncherKilled, HostRestart

LEMMA LauncherKeepsContainersTyped ==
  ASSUME TypeInv, LauncherOrCrash
  PROVE  upf' \in [Upfs -> ContainerState] /\ attached' \subseteq Sessions
  <1>1. upf \in [Upfs -> ContainerState] /\ attached \subseteq Sessions
    BY TypeInvByParts DEF RestTyped
  <1>2. \A c \in ContainerState : Halted(c) \in ContainerState /\ Removing[c] \in ContainerState
    BY DEF ContainerState, Halted, Removing
  <1>3. CASE ReconcileUpf
    <2>1. PICK u \in Upfs :
            \/ upf' = [upf EXCEPT ![u] = "stopped"]
            \/ upf' = [upf EXCEPT ![u] = Removing[upf[u]]]
      BY <1>3 DEF ReconcileUpf
    <2>2. upf' \in [Upfs -> ContainerState]
      BY <1>1, <1>2, <2>1 DEF ContainerState
    <2> QED
      BY <1>1, <1>3, <2>2 DEF ReconcileUpf
  <1>4. CASE ComposeRaises
    <2>1. PICK some \in SUBSET Upfs :
            upf' = [u \in Upfs |-> IF u \notin some THEN upf[u]
                     ELSE CASE launch.at \in {"core", "pings"} -> "running"
                            [] launch.at = "halt" -> Halted(upf[u])
                            [] launch.at = "down" -> "absent"]
      BY <1>4 DEF ComposeRaises
    <2>2. launch.at \in {"core", "pings"} \/ launch.at = "halt" \/ launch.at = "down"
      BY <1>4 DEF ComposeRaises
    <2>3. attached' \subseteq attached
      BY <1>4 DEF ComposeRaises
    <2> QED
      BY <1>1, <1>2, <2>1, <2>2, <2>3 DEF ContainerState
  <1>5. CASE ComposeDown \/ ComposeUpCore \/ TrafficReady
    BY <1>1, <1>5 DEF ComposeDown, ComposeUpCore, TrafficReady, ContainerState
  <1>6. CASE ComposeStop \/ HostRestart
    BY <1>1, <1>2, <1>6 DEF ComposeStop, HostRestart
  <1>7. CASE UNCHANGED <<upf, attached>>
    BY <1>1, <1>7
  <1> QED
    BY <1>3, <1>4, <1>5, <1>6, <1>7 DEF LauncherOrCrash, LaunchStep, Launch,
      ListSlices, Reconciled, TelemetryUp, LaunchRaises, GatewayDies, LauncherKilled

LEMMA LauncherKeepsTypes ==
  ASSUME TypeInv, LauncherOrCrash
  PROVE  TypeInv'
  <1>1. req' \in [Requests -> Request] /\ \A q \in Requests : Sound(req'[q])
    BY LauncherLeavesFilesAlone, RequestsTyped
  <1>2. gateway' \in BOOLEAN
    BY TypeInvByParts DEF RestTyped, LauncherOrCrash, Launch, LaunchStep, ComposeDown,
      ComposeStop, ComposeUpCore, TrafficReady, ListSlices, ReconcileUpf, Reconciled,
      TelemetryUp, LaunchRaises, ComposeRaises, GatewayDies, LauncherKilled, HostRestart
  <1>3. requests' \in Nat /\ launches' \in Nat /\ crashes' \in Nat
    <2>1. requests \in Nat /\ launches \in Nat /\ crashes \in Nat
      BY TypeInvByParts DEF RestTyped
    <2>2. CASE LaunchStep
      <3>1. UNCHANGED counters
        BY <2>2 DEF LaunchStep, ComposeDown, ComposeStop, ComposeUpCore, TrafficReady,
          ListSlices, ReconcileUpf, Reconciled, TelemetryUp, LaunchRaises, ComposeRaises
      <3> QED
        BY <2>1, <3>1 DEF counters
    <2>3. CASE GatewayDies \/ LauncherKilled \/ HostRestart
      BY <2>1, <2>3 DEF GatewayDies, LauncherKilled, HostRestart, Crash
    <2>4. CASE \E op \in LaunchOps : Launch(op)
      BY <2>1, <2>4 DEF Launch
    <2> QED
      BY <2>2, <2>3, <2>4 DEF LauncherOrCrash
  <1>4. faulty' = faulty
    BY DEF LauncherOrCrash, Launch, LaunchStep, ComposeDown, ComposeStop, ComposeUpCore,
      TrafficReady, ListSlices, ReconcileUpf, Reconciled, TelemetryUp, LaunchRaises,
      ComposeRaises, GatewayDies, LauncherKilled, HostRestart, counters
  <1>5. RestTyped'
    BY <1>2, <1>3, <1>4, TypeInvByParts, LauncherLeavesFilesAlone, LauncherTyped,
       LauncherKeepsContainersTyped DEF RestTyped, files
  <1> QED
    BY <1>1, <1>5 DEF TypeInv, TypeOK, RestTyped, Sound

LEMMA InitTyped == Init => TypeInv
  <1> SUFFICES ASSUME Init PROVE TypeInv
    OBVIOUS
  <1>1. AtRest \in Launching
    BY InitialPhases DEF AtRest, Launching, LaunchSteps
  <1>2. RestTyped
    BY <1>1, InitialCatalogIsARecord DEF Init, RestTyped, ContainerState
  <1>3. req \in [Requests -> Request] /\ \A p \in Requests : Sound(req[p])
    BY IdleIsSound DEF Init, Sound
  <1> QED
    BY <1>2, <1>3, TypeInvByParts

LEMMA StepKeepsTypes == TypeInv /\ [Next]_vars => TypeInv'
  <1> SUFFICES ASSUME TypeInv, [Next]_vars PROVE TypeInv'
    OBVIOUS
  <1>1. CASE UNCHANGED vars
    BY <1>1 DEF vars, files, counters, TypeInv, TypeOK, Sound
  <1>2. CASE Next
    BY <1>2, AcceptKeepsTypes, ServeKeepsTypes, LauncherKeepsTypes
       DEF Next, LauncherOrCrash, Submit
  <1> QED
    BY <1>1, <1>2

(* Every variable keeps a value of its kind, and a request at a step that   *)
(* goes through containers or UEs has some of them left.                    *)
THEOREM CatalogTypeCorrect == Spec => []TypeOK
  <1>1. TypeInv => TypeOK
    BY DEF TypeInv
  <1> QED
    BY <1>1, InitTyped, StepKeepsTypes, PTL DEF Spec

-----------------------------------------------------------------------------
(***************************************************************************)
(* The catalog.  CatalogInv says why one lock file is enough: a slice       *)
(* action holds it as long as it runs and nobody else takes it meanwhile;   *)
(* between its writes it leaves the lock only by dying with the gateway,    *)
(* and then the file stays, so that an unlocked catalog is current, and the *)
(* record an action is about to append is a move from the last line.        *)
(***************************************************************************)
HoldersHaveTheLock ==
  \A p \in Requests : InCatalog(p) => CatalogLock \in locks

QuietCatalogIsCurrent ==
  CatalogLock \notin locks
    \/ (\E p \in Requests : InCatalog(p) /\ req[p].at \notin {"truncate", "overwrite"})
  => ~empty /\ catalog = logged

AppendsAMove ==
  \A p \in Requests : req[p].at = "append" =>
    \E s \in Slices, phase \in SlicePhase :
      CanMove(logged, s, phase) /\ req[p].rec = moved(logged, s, phase)

WritesTheLog ==
  \A p \in Requests :
    req[p].at \in {"truncate", "overwrite"} => req[p].rec = logged

CatalogInv ==
  /\ TypeInv
  /\ OneCatalogWriter
  /\ HoldersHaveTheLock
  /\ QuietCatalogIsCurrent
  /\ AppendsAMove
  /\ WritesTheLog

LEMMA WritersHoldTheCatalog ==
  ASSUME NEW p \in Requests, TypeInv, req[p].at \in SliceSteps
  PROVE  InCatalog(p)
  BY DEF TypeInv, Sound, InCatalog

LEMMA WriteStepsAreSliceSteps == WriteSteps \subseteq SliceSteps
  BY DEF WriteSteps, SliceSteps, RequestSteps

LEMMA InitCatalog == Init => CatalogInv
  <1> SUFFICES ASSUME Init PROVE CatalogInv
    OBVIOUS
  <1>1. \A p \in Requests : ~InCatalog(p) /\ req[p].at \notin WriteSteps
    BY DEF Init, InCatalog, Idle, CatalogLock, WriteSteps
  <1>2. empty = FALSE /\ catalog = logged
    BY DEF Init
  <1> QED
    BY <1>1, <1>2, InitTyped DEF CatalogInv, OneCatalogWriter, HoldersHaveTheLock,
       QuietCatalogIsCurrent, AppendsAMove, WritesTheLog, WriteSteps

(* A request is admitted to the catalog only if nobody is there.            *)
LEMMA AcceptKeepsCatalog ==
  ASSUME NEW p \in Requests, CatalogInv, Submit(p)
  PROVE  CatalogInv'
  <1>1. PICK name \in LockNames : \E r :
          Sound(r) /\ r.lock = name /\ r.at # "idle"
            /\ r.at \notin WriteSteps /\ Accept(p, name, r)
    BY AcceptedIsSound
  <1>2. PICK r : r.lock = name /\ r.at \notin WriteSteps /\ Accept(p, name, r)
    BY <1>1
  <1>3. /\ req \in [Requests -> Request] /\ req' = [req EXCEPT ![p] = r]
        /\ name \notin locks /\ locks' = locks \union {name} /\ UNCHANGED files
    BY <1>2 DEF Accept, CatalogInv, TypeInv, TypeOK
  <1>4. \A q \in Requests : req'[q] = IF q = p THEN r ELSE req[q]
    BY <1>3
  <1>5. TypeInv'
    BY AcceptKeepsTypes DEF CatalogInv
  <1>6. OneCatalogWriter' /\ HoldersHaveTheLock'
    BY <1>2, <1>3, <1>4 DEF CatalogInv, OneCatalogWriter, HoldersHaveTheLock, InCatalog
  <1>7. QuietCatalogIsCurrent'
    BY <1>2, <1>3, <1>4 DEF CatalogInv, QuietCatalogIsCurrent, HoldersHaveTheLock,
       InCatalog, files
  <1>8. AppendsAMove' /\ WritesTheLog'
    BY <1>2, <1>3, <1>4 DEF CatalogInv, AppendsAMove, WritesTheLog, files, WriteSteps
  <1> QED
    BY <1>5, <1>6, <1>7, <1>8 DEF CatalogInv

(* A request that is over leaves a current catalog behind.                  *)
LEMMA LeaveKeepsCatalog ==
  ASSUME NEW p \in Requests, CatalogInv, TypeInv', Leave(p), UNCHANGED files,
         req[p].at \notin WriteSteps
  PROVE  CatalogInv'
  <1>1. /\ req \in [Requests -> Request] /\ req' = [req EXCEPT ![p] = Idle]
        /\ locks' = locks \ {req[p].lock}
    BY DEF Leave, CatalogInv, TypeInv, TypeOK
  <1>2. \A q \in Requests : req'[q] = IF q = p THEN Idle ELSE req[q]
    BY <1>1
  <1>3. Idle.lock # CatalogLock /\ Idle.at \notin WriteSteps
    BY DEF Idle, CatalogLock, WriteSteps
  <1>4. OneCatalogWriter' /\ HoldersHaveTheLock'
    BY <1>1, <1>2, <1>3 DEF CatalogInv, OneCatalogWriter, HoldersHaveTheLock, InCatalog
  <1>5. QuietCatalogIsCurrent'
    BY <1>1, <1>2, <1>3 DEF CatalogInv, QuietCatalogIsCurrent, InCatalog, files, WriteSteps
  <1>6. AppendsAMove' /\ WritesTheLog'
    BY <1>2, <1>3 DEF CatalogInv, AppendsAMove, WritesTheLog, files, WriteSteps
  <1> QED
    BY <1>4, <1>5, <1>6 DEF CatalogInv

(* A step that neither writes nor is about to write.                        *)
LEMMA QuietKeepsCatalog ==
  ASSUME NEW p \in Requests, CatalogInv, TypeInv', Moves(p), UNCHANGED files,
         req[p].at \notin WriteSteps, req'[p].at \notin WriteSteps
  PROVE  CatalogInv'
  <1>1. PICK r : /\ r.lock = req[p].lock /\ req' = [req EXCEPT ![p] = r]
                 /\ locks' = locks
    BY DEF Moves
  <1>2. req \in [Requests -> Request]
    BY DEF CatalogInv, TypeInv, TypeOK
  <1>3. \A q \in Requests : req'[q] = IF q = p THEN r ELSE req[q]
    BY <1>1, <1>2
  <1>4. OneCatalogWriter' /\ HoldersHaveTheLock'
    BY <1>1, <1>3 DEF CatalogInv, OneCatalogWriter, HoldersHaveTheLock, InCatalog
  <1>5. QuietCatalogIsCurrent'
    BY <1>1, <1>3 DEF CatalogInv, QuietCatalogIsCurrent, InCatalog, files, WriteSteps
  <1>6. AppendsAMove' /\ WritesTheLog'
    BY <1>3 DEF CatalogInv, AppendsAMove, WritesTheLog, files, WriteSteps
  <1> QED
    BY <1>4, <1>5, <1>6 DEF CatalogInv

(* The launcher, and a death of the gateway, which ends every request and   *)
(* removes no lock.                                                         *)
LEMMA LauncherKeepsCatalog ==
  ASSUME CatalogInv, LauncherOrCrash
  PROVE  CatalogInv'
  <1>1. UNCHANGED files /\ UNCHANGED locks /\ (req' = req \/ req' = NoRequests)
    BY LauncherLeavesFilesAlone
  <1>2. TypeInv'
    BY LauncherKeepsTypes DEF CatalogInv
  <1>3. CASE req' = req
    BY <1>1, <1>2, <1>3 DEF CatalogInv, OneCatalogWriter, HoldersHaveTheLock,
       QuietCatalogIsCurrent, AppendsAMove, WritesTheLog, InCatalog, files
  <1>4. CASE req' = NoRequests
    <2>1. \A p \in Requests : req'[p].lock # CatalogLock /\ req'[p].at \notin WriteSteps
      BY <1>4 DEF NoRequests, Idle, CatalogLock, WriteSteps
    <2> QED
      BY <1>1, <1>2, <2>1 DEF CatalogInv, OneCatalogWriter, HoldersHaveTheLock,
         QuietCatalogIsCurrent, AppendsAMove, WritesTheLog, InCatalog, files, WriteSteps
  <1> QED
    BY <1>1, <1>3, <1>4

LEMMA AdvanceKeepsCatalog ==
  ASSUME NEW p \in Requests, CatalogInv, TypeInv', Advance(p)
  PROVE  CatalogInv'
  <1> DEFINE s == req[p].slice
             target == next_phase[req[p].kind]
             c == moved(catalog, s, target)
  <1>1. req \in [Requests -> Request] /\ req[p] \in Request /\ Sound(req[p])
          /\ catalog \in CatalogRecord /\ UNCHANGED files
    BY DEF CatalogInv, TypeInv, TypeOK, Advance
  <1>2. req[p].at = "advance" /\ req[p].at \in SliceSteps /\ req[p].at \notin WriteSteps
    BY DEF Advance, SliceSteps, RequestSteps, WriteSteps
  <1>3. InCatalog(p) /\ s \in Slices
    BY <1>1, <1>2, WritersHoldTheCatalog DEF CatalogInv, Sound
  <1>4. catalog = logged
    BY <1>2, <1>3 DEF CatalogInv, QuietCatalogIsCurrent
  <1>5. CASE CanMove(catalog, s, target) /\ UNCHANGED locks
               /\ req' = [req EXCEPT ![p].at = "append", ![p].rec = c]
    <2>1. target \in SlicePhase
      BY <1>1, <1>3, <1>5, CanMoveToAPhase
    <2>2. /\ req'[p].at = "append" /\ req'[p].rec = c /\ req'[p].lock = req[p].lock
          /\ \A q \in Requests \ {p} : req'[q] = req[q]
      <3> HIDE DEF c
      <3> QED
        BY <1>1, <1>5 DEF Request
    <2>3. CanMove(logged, s, target) /\ c = moved(logged, s, target)
      BY <1>4, <1>5
    <2> HIDE DEF c, target, s
    <2>4. OneCatalogWriter' /\ HoldersHaveTheLock'
      BY <1>5, <2>2 DEF CatalogInv, OneCatalogWriter, HoldersHaveTheLock, InCatalog
    <2>5. QuietCatalogIsCurrent'
      BY <1>1, <1>2, <1>3, <1>5, <2>2
         DEF CatalogInv, QuietCatalogIsCurrent, InCatalog, files
    <2>6. AppendsAMove'
      BY <1>1, <1>3, <2>1, <2>2, <2>3 DEF CatalogInv, AppendsAMove, files
    <2>7. WritesTheLog'
      BY <1>1, <2>2 DEF CatalogInv, WritesTheLog, files
    <2> QED
      BY <2>4, <2>5, <2>6, <2>7 DEF CatalogInv
  <1>6. CASE Leave(p)
    BY <1>1, <1>2, <1>6, LeaveKeepsCatalog
  <1> QED
    BY <1>5, <1>6 DEF Advance

(* The three writes of an action that holds the catalog alone.              *)
LEMMA WritesKeepCatalog ==
  ASSUME NEW p \in Requests, CatalogInv, TypeInv',
         AppendLog(p) \/ Truncate(p) \/ Overwrite(p)
  PROVE  CatalogInv'
  <1>1. req \in [Requests -> Request] /\ req[p] \in Request
    BY DEF CatalogInv, TypeInv, TypeOK
  <1>2. req[p].at \in WriteSteps /\ UNCHANGED locks
    BY DEF AppendLog, Truncate, Overwrite, WriteSteps
  <1>3. InCatalog(p)
    BY <1>2, WritersHoldTheCatalog, WriteStepsAreSliceSteps DEF CatalogInv
  <1>4. \A q \in Requests \ {p} : ~InCatalog(q) /\ req[q].at \notin WriteSteps
    BY <1>3, WritersHoldTheCatalog, WriteStepsAreSliceSteps
       DEF CatalogInv, OneCatalogWriter
  <1>5. /\ req'[p].lock = req[p].lock /\ req'[p].rec = req[p].rec
        /\ \A q \in Requests \ {p} : req'[q] = req[q]
    BY <1>1 DEF AppendLog, Truncate, Overwrite, Goto, Request
  <1>6. OneCatalogWriter' /\ HoldersHaveTheLock'
    BY <1>2, <1>5 DEF CatalogInv, OneCatalogWriter, HoldersHaveTheLock, InCatalog
  <1>7. CatalogLock \in locks'
    BY <1>2, <1>3 DEF CatalogInv, HoldersHaveTheLock
  <1>8. CASE AppendLog(p)
    <2>1. req'[p].at = "truncate" /\ logged' = req[p].rec
      BY <1>1, <1>8 DEF AppendLog, Goto, Request
    <2>2. QuietCatalogIsCurrent' /\ AppendsAMove' /\ WritesTheLog'
      BY <1>4, <1>5, <1>7, <2>1
         DEF QuietCatalogIsCurrent, AppendsAMove, WritesTheLog, InCatalog, WriteSteps
    <2> QED
      BY <1>6, <2>2 DEF CatalogInv
  <1>9. CASE Truncate(p)
    <2>1. req'[p].at = "overwrite" /\ logged' = logged /\ req[p].at = "truncate"
      BY <1>1, <1>9 DEF Truncate, Goto, Request
    <2>2. req[p].rec = logged
      BY <2>1 DEF CatalogInv, WritesTheLog
    <2>3. QuietCatalogIsCurrent' /\ AppendsAMove' /\ WritesTheLog'
      BY <1>4, <1>5, <1>7, <2>1, <2>2
         DEF QuietCatalogIsCurrent, AppendsAMove, WritesTheLog, InCatalog, WriteSteps
    <2> QED
      BY <1>6, <2>3 DEF CatalogInv
  <1>10. CASE Overwrite(p)
    <2>1. /\ req'[p].at = "receipt" /\ logged' = logged /\ req[p].at = "overwrite"
          /\ catalog' = req[p].rec /\ empty' = FALSE
      BY <1>1, <1>10 DEF Overwrite, Goto, Request
    <2>2. req[p].rec = logged
      BY <2>1 DEF CatalogInv, WritesTheLog
    <2>3. QuietCatalogIsCurrent' /\ AppendsAMove' /\ WritesTheLog'
      BY <1>4, <1>5, <2>1, <2>2
         DEF QuietCatalogIsCurrent, AppendsAMove, WritesTheLog, WriteSteps
    <2> QED
      BY <1>6, <2>3 DEF CatalogInv
  <1> QED
    BY <1>8, <1>9, <1>10

LEMMA ServeKeepsCatalog ==
  ASSUME NEW p \in Requests, CatalogInv, Serve(p)
  PROVE  CatalogInv'
  <1>1. TypeInv /\ TypeInv'
    BY ServeKeepsTypes DEF CatalogInv
  <1>2. req \in [Requests -> Request] /\ req[p] \in Request /\ Sound(req[p])
    BY <1>1 DEF TypeInv, TypeOK
  <1>3. CASE AppendLog(p) \/ Truncate(p) \/ Overwrite(p)
    BY <1>1, <1>3, WritesKeepCatalog
  <1>4. CASE Advance(p)
    BY <1>1, <1>4, AdvanceKeepsCatalog
  <1>5. ASSUME ~(AppendLog(p) \/ Truncate(p) \/ Overwrite(p)), ~Advance(p)
        PROVE  UNCHANGED files /\ req[p].at \notin WriteSteps
    BY <1>5 DEF Serve, CheckPhase, CheckNotDeleted, UpdateResources, ListActive,
       TrafficOfSlice, Receipt, Raise,
       RaisingSteps, RestartSmf, RestartUe, Pings, CreateContainer, StartUpf,
       RestartUpf, StopUpf, RemoveContainer, RestartContainer, EachUpf, WriteSteps
  <1>6. ASSUME Moves(p), ~(AppendLog(p) \/ Truncate(p) \/ Overwrite(p)), ~Advance(p)
        PROVE  Leave(p) \/ req'[p].at \notin WriteSteps
    <2>1. ASSUME NEW here, NEW s, NEW e, EachUpf(p, here, s, e),
                 here \notin WriteSteps, s \notin WriteSteps
          PROVE  req'[p].at \notin WriteSteps
      <3>1. PICK u : req' = [req EXCEPT ![p].todo = req[p].todo \ {u},
                               ![p].at = IF req[p].todo = {u} THEN s ELSE here]
        BY <2>1 DEF EachUpf
      <3> QED
        BY <1>2, <2>1, <3>1 DEF Request
    <2>2. CASE CreateContainer(p) \/ StartUpf(p) \/ RestartUpf(p) \/ StopUpf(p)
                 \/ RemoveContainer(p) \/ RestartContainer(p) \/ UpdateResources(p)
      BY <2>1, <2>2 DEF CreateContainer, StartUpf, RestartUpf, StopUpf,
         RemoveContainer, RestartContainer, UpdateResources, WriteSteps
    <2>3. CASE CheckPhase(p)
      <3>1. req[p].kind \notin WriteSteps
        BY <1>2 DEF Request, Kinds, SliceActions, WriteSteps
      <3> QED
        BY <1>2, <2>3, <3>1 DEF CheckPhase, Request
    <2>4. CASE ListActive(p) \/ RestartSmf(p) \/ RestartUe(p)
      <3>1. ASSUME NEW s, NEW t, s \notin WriteSteps,
                   req' = [req EXCEPT ![p].at = s, ![p].todo = t]
            PROVE  req'[p].at \notin WriteSteps
        BY <1>2, <3>1 DEF Request
      <3>2. ASSUME NEW s, NEW t, s \notin WriteSteps,
                   req' = [req EXCEPT ![p].todo = t, ![p].at = s]
            PROVE  req'[p].at \notin WriteSteps
        BY <1>2, <3>2 DEF Request
      <3>3. /\ "restart" \notin WriteSteps /\ "ues" \notin WriteSteps
            /\ "traffic" \notin WriteSteps
        BY DEF WriteSteps
      <3>4. CASE ListActive(p) \/ RestartSmf(p)
        BY <3>1, <3>3, <3>4 DEF ListActive, RestartSmf
      <3>5. CASE RestartUe(p)
        BY <3>2, <3>3, <3>5 DEF RestartUe
      <3> QED
        BY <2>4, <3>4, <3>5
    <2>5. CASE TrafficOfSlice(p) \/ Pings(p)
      BY <1>2, <2>5 DEF TrafficOfSlice, Pings, Goto, Request, WriteSteps
    <2>6. CASE Receipt(p) \/ Raise(p)
      BY <2>6 DEF Receipt, Raise
    <2>7. CASE CheckNotDeleted(p)
      BY <1>2, <2>7 DEF CheckNotDeleted, Request, WriteSteps
    <2> QED
      BY <1>6, <2>2, <2>3, <2>4, <2>5, <2>6, <2>7 DEF Serve
  <1>7. CASE ~(AppendLog(p) \/ Truncate(p) \/ Overwrite(p)) /\ ~Advance(p)
    BY <1>1, <1>5, <1>6, <1>7, ServeMovesOrLeaves, QuietKeepsCatalog, LeaveKeepsCatalog
  <1> QED
    BY <1>3, <1>4, <1>7

LEMMA StepKeepsCatalog == CatalogInv /\ [Next]_vars => CatalogInv'
  <1> SUFFICES ASSUME CatalogInv, [Next]_vars PROVE CatalogInv'
    OBVIOUS
  <1>1. CASE UNCHANGED vars
    <2>1. TypeInv'
      BY <1>1, StepKeepsTypes DEF CatalogInv
    <2> QED
      BY <1>1, <2>1 DEF vars, files, CatalogInv, OneCatalogWriter, HoldersHaveTheLock,
         QuietCatalogIsCurrent, AppendsAMove, WritesTheLog, InCatalog
  <1>2. CASE Next
    BY <1>2, AcceptKeepsCatalog, ServeKeepsCatalog, LauncherKeepsCatalog
       DEF Next, LauncherOrCrash, Submit
  <1> QED
    BY <1>1, <1>2

LEMMA CatalogInvariant == Spec => []CatalogInv
  BY InitCatalog, StepKeepsCatalog, PTL DEF Spec

(* Two slice actions are never under way at once, whatever step the gateway *)
(* dies at and however often a launcher brings it back: TargetLock admits   *)
(* one holder and no death releases it.                                     *)
THEOREM OneSliceActionAtATime == Spec => []OneCatalogWriter
  <1>1. CatalogInv => OneCatalogWriter
    BY DEF CatalogInv
  <1> QED
    BY <1>1, CatalogInvariant, PTL

(* When slice-catalog is not locked, slice-state.json is whole and equal to *)
(* the last line of slice-state.jsonl: a restarted gateway never reads half *)
(* of what the one before it did.                                           *)
THEOREM UnlockedCatalogAlwaysCurrent == Spec => []UnlockedCatalogIsCurrent
  <1>1. CatalogInv => UnlockedCatalogIsCurrent
    BY DEF CatalogInv, QuietCatalogIsCurrent, UnlockedCatalogIsCurrent
  <1> QED
    BY <1>1, CatalogInvariant, PTL

-----------------------------------------------------------------------------
(* SliceCatalog implements SlicePhases.                                     *)

LEMMA OnlyAppendsChangeTheLog ==
  ASSUME CatalogInv, [Next]_vars, logged' # logged
  PROVE  \E p \in Requests : AppendLog(p)
  <1>1. CASE UNCHANGED vars
    BY <1>1 DEF vars, files
  <1>2. CASE LauncherOrCrash
    BY <1>2, LauncherLeavesFilesAlone DEF files
  <1>3. ASSUME NEW p \in Requests, Submit(p)
        PROVE  logged' = logged
    BY <1>3 DEF Submit, SliceLifecycle, RestartRequest, ResourceRequest,
       SliceResourceRequest, Accept, files
  <1>4. ASSUME NEW p \in Requests, Serve(p)
        PROVE  AppendLog(p)
    BY <1>4 DEF Serve, CheckPhase, CheckNotDeleted, UpdateResources, ListActive,
       TrafficOfSlice, Receipt, Raise,
       Advance, Truncate, Overwrite, RestartSmf, RestartUe, Pings, CreateContainer,
       StartUpf, RestartUpf, StopUpf, RemoveContainer, RestartContainer, EachUpf, files
  <1> QED
    BY <1>1, <1>2, <1>3, <1>4 DEF Next, LauncherOrCrash, Submit

LEMMA StepRefines == CatalogInv /\ [Next]_vars => [Promise!Next]_logged
  <1> SUFFICES ASSUME CatalogInv, [Next]_vars, logged' # logged
               PROVE  Promise!Next
    OBVIOUS
  <1>1. PICK p \in Requests : AppendLog(p)
    BY OnlyAppendsChangeTheLog
  <1>2. PICK s \in Slices, phase \in SlicePhase :
          CanMove(logged, s, phase) /\ req[p].rec = moved(logged, s, phase)
    BY <1>1 DEF CatalogInv, AppendsAMove, AppendLog
  <1>3. Promise!Move(s, phase)
    BY <1>1, <1>2 DEF AppendLog, Promise!Move, Promise!CanMove, CanMove, Promise!moved,
       moved, Promise!allowed, allowed, Promise!Phase, Phase
  <1> QED
    BY <1>3 DEF Promise!Next, Promise!SlicePhase, SlicePhase

(* The lines of slice-state.jsonl are one history of single moves of the    *)
(* slice life cycle, each from the line before it, for any number of        *)
(* slices and requests, through failures, launchers and crashes.            *)
THEOREM CatalogRefinesSlicePhases == Spec => ImplementsSlicePhases
  <1>1. Init => Promise!Init
    BY DEF Init, Promise!Init, Promise!initialCatalog, initialCatalog
  <1> QED
    BY <1>1, StepRefines, CatalogInvariant, PTL DEF Spec, ImplementsSlicePhases,
       Promise!Spec
===============================================================================
