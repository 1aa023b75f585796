--------------------------- MODULE SliceRepair_proofs --------------------------
(***************************************************************************)
(* Theorems about the containers of SliceCatalog: what a bring-up makes of  *)
(* them, which of them are removed, and which of them run.  All but         *)
(* ActionsKeepTheirCourse are about launchers that do not run beside a      *)
(* request (~Overlapping); all are for any number of slices, UPFs, UEs and  *)
(* requests.                                                                *)
(***************************************************************************)
EXTENDS SliceCatalog_proofs

-----------------------------------------------------------------------------
(* What a step of a request does to its record, the files and the UPFs.     *)

(* The first docker calls of a lifecycle action, and how start_slice        *)
(* rebuilds the sessions.                                                   *)
Calls == {"create_slice", "start_slice", "stop_slice", "delete_slice"}
Rebuilding == {"list", "restart", "smf", "ues", "traffic"}
Elsewhere == {"restart_container", "pings", "resources", "update_resources", "receipt"}

Same(p) == /\ req'[p].kind = req[p].kind /\ req'[p].slice = req[p].slice
           /\ req'[p].rec = req[p].rec

Still == UNCHANGED <<files, upf>>

(* A running UPF runs on.                                                   *)
Lively == \A u \in Upfs : upf[u] = "running" => upf'[u] = "running"

Over(p) ==
  /\ Leave(p) /\ req'[p] = Idle /\ Still
  /\ req[p].at \notin WriteSteps
  /\ req[p].at = "stop_slice" => faulty \/ \E u \in req[p].todo : upf[u] = "absent"
  /\ req[p].at = "advance" =>
       \/ faulty \/ empty
       \/ ~CanMove(catalog, req[p].slice, next_phase[req[p].kind])

Admitted(p) ==
  /\ req[p].at = "check" /\ req'[p].at = req[p].kind
  /\ req'[p].todo = UpfsOf(req[p].slice)
  /\ Phase(catalog, req[p].slice) = expected_phase[req[p].kind]
  /\ Same(p) /\ Still

OutcomeOf(step) == CASE step = "create_slice" -> Creating
                     [] step = "stop_slice" -> Stopping
                     [] step = "delete_slice" -> Removing
                     [] OTHER -> Starting

Calling(p) ==
  /\ req[p].at \in Calls /\ Same(p) /\ UNCHANGED files
  /\ \E u \in req[p].todo :
       /\ upf[u] \in DOMAIN OutcomeOf(req[p].at)
       /\ upf' = [upf EXCEPT ![u] = OutcomeOf(req[p].at)[upf[u]]]
       /\ req'[p].todo = req[p].todo \ {u}
       /\ req'[p].at =
            IF req[p].todo = {u}
            THEN IF req[p].at = "start_slice" THEN "list" ELSE "advance"
            ELSE req[p].at

Rebuilds(p) ==
  /\ req[p].at \in Rebuilding /\ req'[p].at \in Rebuilding \union {"advance"}
  /\ Same(p) /\ UNCHANGED files
  /\ Lively /\ \A u \in Upfs : upf[u] # "absent" => upf'[u] # "absent"

Advances(p) ==
  /\ req[p].at = "advance" /\ req'[p].at = "append"
  /\ req'[p].kind = req[p].kind /\ req'[p].slice = req[p].slice
  /\ req'[p].rec = moved(catalog, req[p].slice, next_phase[req[p].kind])
  /\ Still

Prepares(p) ==
  /\ \/ req[p].at = "append" /\ req'[p].at = "truncate" /\ empty' = empty
     \/ req[p].at = "truncate" /\ req'[p].at = "overwrite"
  /\ Same(p) /\ UNCHANGED <<catalog, upf>>

Replaces(p) ==
  /\ req[p].at = "overwrite" /\ req'[p].at = "receipt"
  /\ catalog' = req[p].rec /\ empty' = FALSE
  /\ Same(p) /\ UNCHANGED upf

Aside(p) ==
  /\ req[p].at \in Elsewhere /\ req'[p].at \in Elsewhere
  /\ Same(p) /\ UNCHANGED files
  /\ Lively /\ \A u \in Upfs : upf[u] # "absent" => upf'[u] # "absent"

LEMMA StepsAreApart ==
  /\ SliceSteps = {"check"} \union Calls \union Rebuilding \union {"advance"}
                    \union WriteSteps
  /\ "idle" \notin SliceSteps
  /\ Elsewhere \intersect SliceSteps = {}
  BY DEF SliceSteps, RequestSteps, Calls, Rebuilding, WriteSteps, Elsewhere

LEMMA GotoFields ==
  ASSUME NEW p \in Requests, TypeInv, NEW s, Goto(p, s)
  PROVE  req'[p].at = s /\ req'[p].todo = req[p].todo /\ Same(p)
  <1>1. req \in [Requests -> Request]
    BY DEF TypeInv, TypeOK
  <1> QED
    BY <1>1 DEF Goto, Same, Request

LEMMA GotoTodoFields ==
  ASSUME NEW p \in Requests, TypeInv, NEW s, NEW t,
         req' = [req EXCEPT ![p].at = s, ![p].todo = t]
           \/ req' = [req EXCEPT ![p].todo = t, ![p].at = s]
  PROVE  req'[p].at = s /\ req'[p].todo = t /\ Same(p)
  <1>1. req \in [Requests -> Request]
    BY DEF TypeInv, TypeOK
  <1>2. CASE req' = [req EXCEPT ![p].at = s, ![p].todo = t]
    BY <1>1, <1>2 DEF Same, Request
  <1>3. CASE req' = [req EXCEPT ![p].todo = t, ![p].at = s]
    BY <1>1, <1>3 DEF Same, Request
  <1> QED
    BY <1>2, <1>3

LEMMA LeaveFields ==
  ASSUME NEW p \in Requests, TypeInv, Leave(p)
  PROVE  req'[p] = Idle
  BY DEF TypeInv, TypeOK, Leave

LEMMA EachUpfFields ==
  ASSUME NEW p \in Requests, TypeInv, NEW here \in UpfSteps, NEW s, NEW e,
         EachUpf(p, here, s, e)
  PROVE  /\ req[p].at = here /\ Same(p) /\ UNCHANGED files
         /\ \E u \in req[p].todo :
              /\ u \in Upfs /\ upf[u] \in DOMAIN e
              /\ upf' = [upf EXCEPT ![u] = e[upf[u]]]
              /\ req'[p].todo = req[p].todo \ {u}
              /\ req'[p].at = IF req[p].todo = {u} THEN s ELSE here
  <1>1. PICK u \in req[p].todo :
          /\ upf[u] \in DOMAIN e
          /\ upf' = [upf EXCEPT ![u] = e[upf[u]]]
          /\ req' = [req EXCEPT ![p].todo = req[p].todo \ {u},
                                ![p].at = IF req[p].todo = {u} THEN s ELSE here]
    BY DEF EachUpf
  <1>2. req[p].at = here /\ UNCHANGED files
    BY DEF EachUpf
  <1>3. u \in Upfs
    BY <1>2 DEF TypeInv, Sound
  <1> DEFINE to == IF req[p].todo = {u} THEN s ELSE here
             left == req[p].todo \ {u}
  <1>4. req' = [req EXCEPT ![p].todo = left, ![p].at = to]
    BY <1>1
  <1> HIDE DEF to, left
  <1>5. req'[p].at = to /\ req'[p].todo = left /\ Same(p)
    BY <1>4, GotoTodoFields
  <1> QED
    BY <1>1, <1>2, <1>3, <1>5 DEF to, left

(* A docker call that neither stops nor removes.                            *)
LEMMA StartingIsLively ==
  ASSUME TypeInv, NEW u \in Upfs, NEW e \in {Starting, Limiting, Creating},
         upf' = [upf EXCEPT ![u] = e[upf[u]]], upf[u] \in DOMAIN e
  PROVE  Lively /\ \A v \in Upfs : upf[v] # "absent" => upf'[v] # "absent"
  <1>1. upf \in [Upfs -> ContainerState]
    BY DEF TypeInv, TypeOK
  <1>2. /\ e[upf[u]] # "absent" /\ (upf[u] = "running" => e[upf[u]] = "running")
    <2>1. CASE e = Starting
      BY <2>1 DEF Starting
    <2>2. CASE e = Limiting
      BY <2>2 DEF Limiting
    <2>3. CASE e = Creating
      BY <2>3 DEF Creating
    <2> QED
      BY <2>1, <2>2, <2>3
  <1> QED
    BY <1>1, <1>2 DEF Lively

LEMMA StillIsLively ==
  ASSUME UNCHANGED upf
  PROVE  Lively /\ \A u \in Upfs : upf[u] # "absent" => upf'[u] # "absent"
  BY DEF Lively

LEMMA ServeShapes ==
  ASSUME NEW p \in Requests, TypeInv, Serve(p)
  PROVE  \/ Over(p) \/ Admitted(p) \/ Calling(p) \/ Rebuilds(p)
         \/ Advances(p) \/ Prepares(p) \/ Replaces(p) \/ Aside(p)
  <1>1. req \in [Requests -> Request] /\ req[p] \in Request
    BY DEF TypeInv, TypeOK
  <1>2. /\ Calls \subseteq UpfSteps
        /\ {"restart", "restart_container", "update_resources"} \subseteq UpfSteps
    BY DEF Calls, UpfSteps
  <1>3. Leave(p) => req'[p] = Idle
    BY LeaveFields
  <1>4. CASE CheckPhase(p)
    <2>1. req[p].at = "check" /\ Still
      BY <1>4 DEF CheckPhase, Still
    <2>2. CASE Leave(p)
      BY <1>3, <2>1, <2>2 DEF Over, WriteSteps
    <2>3. CASE /\ Phase(catalog, req[p].slice) = expected_phase[req[p].kind]
               /\ req' = [req EXCEPT ![p].at = req[p].kind,
                                     ![p].todo = UpfsOf(req[p].slice)]
      <3> DEFINE k == req[p].kind
                 t == UpfsOf(req[p].slice)
      <3>1. req' = [req EXCEPT ![p].at = k, ![p].todo = t]
        BY <2>3
      <3> HIDE DEF k, t
      <3>2. req'[p].at = k /\ req'[p].todo = t /\ Same(p)
        BY <3>1, GotoTodoFields
      <3> QED
        BY <2>1, <2>3, <3>2 DEF Admitted, k, t
    <2> QED
      BY <1>4, <2>2, <2>3 DEF CheckPhase
  <1>5. ASSUME NEW here \in Calls,
               EachUpf(p, here, IF here = "start_slice" THEN "list" ELSE "advance",
                       OutcomeOf(here))
        PROVE  Calling(p)
    BY <1>2, <1>5, EachUpfFields DEF Calling
  <1>6. CASE CreateContainer(p) \/ StartUpf(p) \/ StopUpf(p) \/ RemoveContainer(p)
    BY <1>5, <1>6 DEF CreateContainer, StartUpf, StopUpf, RemoveContainer, OutcomeOf,
       Calls
  <1>7. CASE RestartUpf(p)
    <2>1. EachUpf(p, "restart", "smf", Starting)
      BY <1>7 DEF RestartUpf
    <2>2. /\ req[p].at = "restart" /\ req'[p].at \in {"smf", "restart"} /\ Same(p)
          /\ UNCHANGED files
      BY <1>2, <2>1, EachUpfFields
    <2>3. PICK u \in Upfs : upf' = [upf EXCEPT ![u] = Starting[upf[u]]]
                              /\ upf[u] \in DOMAIN Starting
      BY <1>2, <2>1, EachUpfFields
    <2> QED
      BY <2>2, <2>3, StartingIsLively DEF Rebuilds, Rebuilding
  <1>8. CASE ListActive(p) \/ RestartSmf(p)
    <2>1. PICK t : \/ /\ req[p].at = "list"
                      /\ req' = [req EXCEPT ![p].at = "restart", ![p].todo = t]
                   \/ /\ req[p].at = "smf"
                      /\ req' = [req EXCEPT ![p].at = "ues", ![p].todo = t]
      BY <1>8 DEF ListActive, RestartSmf
    <2>2. UNCHANGED files /\ UNCHANGED upf
      BY <1>8 DEF ListActive, RestartSmf
    <2>3. req'[p].at \in {"restart", "ues"} /\ Same(p)
      BY <2>1, GotoTodoFields
    <2> QED
      BY <2>1, <2>2, <2>3, StillIsLively DEF Rebuilds, Rebuilding
  <1>9. CASE RestartUe(p)
    <2>1. req[p].at = "ues" /\ UNCHANGED files /\ UNCHANGED upf
      BY <1>9 DEF RestartUe
    <2>2. CASE Leave(p)
      BY <1>3, <2>1, <2>2 DEF Over, Still, WriteSteps
    <2>3. ASSUME ~Leave(p)
          PROVE  req'[p].at \in {"traffic", "ues"} /\ Same(p)
      <3>1. PICK e \in req[p].todo :
              req' = [req EXCEPT
                ![p].todo = req[p].todo \ {e},
                ![p].at = IF req[p].todo = {e} THEN "traffic" ELSE "ues"]
        BY <1>9, <2>3 DEF RestartUe
      <3> DEFINE t == req[p].todo \ {e}
                 s == IF req[p].todo = {e} THEN "traffic" ELSE "ues"
      <3>2. req' = [req EXCEPT ![p].todo = t, ![p].at = s] /\ s \in {"traffic", "ues"}
        BY <3>1
      <3> HIDE DEF t, s
      <3> QED
        BY <3>2, GotoTodoFields
    <2> QED
      BY <2>1, <2>2, <2>3, StillIsLively DEF Rebuilds, Rebuilding
  <1>10. CASE TrafficOfSlice(p)
    <2>1. req[p].at = "traffic" /\ UNCHANGED files /\ UNCHANGED upf
      BY <1>10 DEF TrafficOfSlice
    <2>2. CASE Leave(p)
      BY <1>3, <2>1, <2>2 DEF Over, Still, WriteSteps
    <2>3. CASE Goto(p, "advance")
      BY <2>1, <2>3, GotoFields, StillIsLively DEF Rebuilds, Rebuilding
    <2> QED
      BY <1>10, <2>2, <2>3 DEF TrafficOfSlice
  <1>11. CASE Advance(p)
    <2> DEFINE s == req[p].slice
               target == next_phase[req[p].kind]
               c == moved(catalog, s, target)
    <2>1. req[p].at = "advance" /\ Still
      BY <1>11 DEF Advance, Still
    <2>2. CASE ~(~empty /\ CanMove(catalog, s, target))
      <3>1. Leave(p)
        BY <1>11, <2>2 DEF Advance
      <3> QED
        BY <1>3, <2>1, <2>2, <3>1 DEF Over, WriteSteps
    <2>3. CASE ~empty /\ CanMove(catalog, s, target)
      <3>1. req' = [req EXCEPT ![p].at = "append", ![p].rec = c]
        BY <1>11, <2>3 DEF Advance
      <3> HIDE DEF c
      <3>2. /\ req'[p].at = "append" /\ req'[p].rec = c
            /\ req'[p].kind = req[p].kind /\ req'[p].slice = req[p].slice
        BY <1>1, <3>1 DEF Request
      <3> QED
        BY <2>1, <3>2 DEF Advances, c
    <2> QED
      BY <2>2, <2>3
  <1>12. CASE AppendLog(p) \/ Truncate(p)
    <2>1. \/ req[p].at = "append" /\ Goto(p, "truncate") /\ empty' = empty
          \/ req[p].at = "truncate" /\ Goto(p, "overwrite")
      BY <1>12 DEF AppendLog, Truncate
    <2>2. UNCHANGED <<catalog, upf>>
      BY <1>12 DEF AppendLog, Truncate
    <2> QED
      BY <2>1, <2>2, GotoFields DEF Prepares
  <1>13. CASE Overwrite(p)
    BY <1>13, GotoFields DEF Overwrite, Replaces
  <1>14. CASE RestartContainer(p) \/ UpdateResources(p)
    <2>1. PICK here \in {"restart_container", "update_resources"},
               s \in {"pings", "receipt"}, e \in {Starting, Limiting} :
            EachUpf(p, here, s, e)
      BY <1>14 DEF RestartContainer, UpdateResources
    <2>2. here \in UpfSteps
      BY <1>2
    <2>3. req[p].at = here /\ req'[p].at \in {here, s} /\ Same(p) /\ UNCHANGED files
      BY <2>1, <2>2, EachUpfFields
    <2>4. PICK u \in Upfs : upf' = [upf EXCEPT ![u] = e[upf[u]]] /\ upf[u] \in DOMAIN e
      BY <2>1, <2>2, EachUpfFields
    <2>5. Lively /\ \A v \in Upfs : upf[v] # "absent" => upf'[v] # "absent"
      BY <2>4, StartingIsLively
    <2> QED
      BY <2>3, <2>5 DEF Aside, Elsewhere
  <1>15. CASE Pings(p)
    <2>1. req[p].at = "pings" /\ UNCHANGED files /\ UNCHANGED upf
      BY <1>15 DEF Pings
    <2>2. CASE Leave(p)
      BY <1>3, <2>1, <2>2 DEF Over, Still, WriteSteps
    <2>3. CASE Goto(p, "receipt")
      BY <2>1, <2>3, GotoFields, StillIsLively DEF Aside, Elsewhere
    <2> QED
      BY <1>15, <2>2, <2>3 DEF Pings
  <1>16. CASE CheckNotDeleted(p)
    <2>1. req[p].at = "resources" /\ UNCHANGED files /\ UNCHANGED upf
      BY <1>16 DEF CheckNotDeleted
    <2>2. CASE Leave(p)
      BY <1>3, <2>1, <2>2 DEF Over, Still, WriteSteps
    <2>3. CASE req' = [req EXCEPT ![p].at = "update_resources",
                                  ![p].todo = UpfsOf(req[p].slice)]
      BY <2>1, <2>3, GotoTodoFields, StillIsLively DEF Aside, Elsewhere
    <2> QED
      BY <1>16, <2>2, <2>3 DEF CheckNotDeleted
  <1>17. CASE Receipt(p)
    BY <1>3, <1>17 DEF Receipt, Over, Still, WriteSteps
  <1>18. CASE Raise(p)
    <2>1. Leave(p) /\ req'[p] = Idle /\ Still /\ req[p].at \in RaisingSteps
      BY <1>3, <1>18 DEF Raise, Still
    <2>2. req[p].at \notin WriteSteps
      BY <2>1 DEF RaisingSteps, WriteSteps
    <2>3. faulty \/ Impossible(p)
      BY <1>18 DEF Raise
    <2> QED
      BY <2>1, <2>2, <2>3 DEF Over, Impossible
  <1> QED
    BY <1>4, <1>6, <1>7, <1>8, <1>9, <1>10, <1>11, <1>12, <1>13, <1>14, <1>15, <1>16,
       <1>17, <1>18 DEF Serve

LEMMA ServeLeavesOthers ==
  ASSUME NEW p \in Requests, TypeInv, Serve(p)
  PROVE  /\ \A q \in Requests \ {p} : req'[q] = req[q]
         /\ UNCHANGED <<gateway, launch, faulty, crashes>>
  <1>1. req \in [Requests -> Request]
    BY DEF TypeInv, TypeOK
  <1>2. \A q \in Requests \ {p} : req'[q] = req[q]
    BY <1>1, ServeMovesOrLeaves DEF Moves, Leave
  <1>3. UNCHANGED <<gateway, launch, counters>>
    BY DEF Serve, CheckPhase, CheckNotDeleted, UpdateResources, ListActive,
         TrafficOfSlice, Advance, AppendLog,
         Truncate, Overwrite, Receipt, Raise, RestartSmf, RestartUe, Pings,
         CreateContainer, StartUpf, RestartUpf, StopUpf, RemoveContainer,
         RestartContainer, EachUpf
  <1> QED
    BY <1>2, <1>3 DEF counters

LEMMA SubmitFields ==
  ASSUME NEW p \in Requests, TypeInv, Submit(p)
  PROVE  /\ req'[p].at \in {"check"} \union Elsewhere /\ req[p].at = "idle"
         /\ \A q \in Requests \ {p} : req'[q] = req[q]
         /\ gateway /\ (Overlapping \/ launch.at = "idle")
         /\ UNCHANGED <<files, upf, gateway, launch, faulty, crashes>>
  <1>1. req \in [Requests -> Request]
    BY DEF TypeInv, TypeOK
  <1>2. PICK name, r : Accept(p, name, r) /\ r.at \in {"check"} \union Elsewhere
    BY AcceptedIsSound DEF Elsewhere
  <1>3. req' = [req EXCEPT ![p] = r] /\ req[p].at = "idle"
    BY <1>2 DEF Accept
  <1> QED
    BY <1>1, <1>2, <1>3 DEF Accept

-----------------------------------------------------------------------------
(***************************************************************************)
(* The course of a lifecycle action.  Between its check of the phase and    *)
(* its last write the phase of its slice is the one it required, because    *)
(* whoever could change it would need slice-catalog; the UPFs it still has  *)
(* to call are its slice's; and what it writes is its own move from the     *)
(* catalog as it is.  This holds for overlapping launchers too.             *)
(***************************************************************************)
Course(p) ==
  /\ req[p].at \in Calls =>
       req[p].at = req[p].kind /\ req[p].todo \subseteq UpfsOf(req[p].slice)
  /\ req[p].at \in Rebuilding => req[p].kind = "start_slice"
  /\ req[p].at \in SliceSteps \ {"check"} =>
       Phase(catalog, req[p].slice) = expected_phase[req[p].kind]
  /\ req[p].at \in WriteSteps =>
       req[p].rec = moved(catalog, req[p].slice, next_phase[req[p].kind])

CourseInv == CatalogInv /\ \A p \in Requests : Course(p)

LEMMA NothingToDo ==
  ASSUME NEW p \in Requests, req[p].at \in {"check", "idle"} \union Elsewhere
  PROVE  Course(p)
  BY StepsAreApart DEF Course, Calls, Rebuilding, WriteSteps, Elsewhere

LEMMA CourseUndisturbed ==
  ASSUME NEW p \in Requests, Course(p), req'[p] = req[p],
         catalog' = catalog \/ req[p].at \notin SliceSteps
  PROVE  Course(p)'
  <1>1. CASE req[p].at \in SliceSteps
    BY <1>1 DEF Course
  <1>2. CASE req[p].at \notin SliceSteps
    BY <1>2, StepsAreApart DEF Course
  <1> QED
    BY <1>1, <1>2

(* The one request that replaces the catalog is alone in it.                *)
LEMMA ReplacesAlone ==
  ASSUME CatalogInv, NEW p \in Requests, req[p].at \in SliceSteps,
         NEW q \in Requests \ {p}
  PROVE  req[q].at \notin SliceSteps
  BY WritersHoldTheCatalog DEF CatalogInv, OneCatalogWriter

LEMMA ServeKeepsOwnCourse ==
  ASSUME NEW p \in Requests, CourseInv, TypeInv', Serve(p)
  PROVE  Course(p)'
  <1>1. TypeInv /\ Course(p) /\ Sound(req[p])
    BY DEF CourseInv, CatalogInv, TypeInv
  <1>2. CASE Over(p) \/ Replaces(p) \/ Aside(p)
    <2>1. req'[p].at \in {"check", "idle"} \union Elsewhere
      BY <1>2 DEF Over, Replaces, Aside, Idle, Elsewhere
    <2> QED
      BY <2>1, StepsAreApart DEF Course, Calls, Rebuilding, WriteSteps, Elsewhere
  <1>3. CASE Admitted(p)
    <2>1. req[p].kind \in Calls
      BY <1>1, <1>3 DEF Admitted, Sound, SliceSteps, RequestSteps, Calls, SliceActions
    <2>2. req'[p].at \notin WriteSteps \union Rebuilding
      BY <1>3, <2>1 DEF Admitted, Calls, Rebuilding, WriteSteps
    <2> QED
      BY <1>3, <2>1, <2>2 DEF Admitted, Same, Still, files, Course
  <1>4. CASE Calling(p)
    <2>1. req'[p].at \in {req[p].at, "list", "advance"}
            /\ (req'[p].at = "list" => req[p].at = "start_slice")
      BY <1>4 DEF Calling, Calls
    <2>2. req'[p].todo \subseteq req[p].todo
      BY <1>4 DEF Calling
    <2>3. /\ req[p].at \in SliceSteps \ {"check"}
          /\ req[p].at = req[p].kind /\ req[p].todo \subseteq UpfsOf(req[p].slice)
      BY <1>1, <1>4, StepsAreApart DEF Calling, Course, Calls
    <2>4. Phase(catalog, req[p].slice) = expected_phase[req[p].kind]
      BY <1>1, <2>3 DEF Course
    <2>5. /\ req'[p].at \notin WriteSteps
          /\ req'[p].at \in Rebuilding => req'[p].at = "list"
          /\ req'[p].at \in Calls => req'[p].at = req[p].at
      BY <1>4, <2>1 DEF Calling, Calls, Rebuilding, WriteSteps
    <2>6. UNCHANGED catalog /\ Same(p)
      BY <1>4 DEF Calling, files
    <2> QED
      BY <2>1, <2>2, <2>3, <2>4, <2>5, <2>6 DEF Course, Same
  <1>5. CASE Rebuilds(p)
    <2>1. req[p].at \in SliceSteps \ {"check"} /\ req[p].at \in Rebuilding
      BY <1>5, StepsAreApart DEF Rebuilds, Rebuilding
    <2>2. req[p].kind = "start_slice"
            /\ Phase(catalog, req[p].slice) = expected_phase[req[p].kind]
      BY <1>1, <2>1 DEF Course
    <2>3. req'[p].at \notin WriteSteps \union Calls
      BY <1>5 DEF Rebuilds, Rebuilding, Calls, WriteSteps
    <2> QED
      BY <1>5, <2>2, <2>3 DEF Rebuilds, Same, files, Course
  <1>6. CASE Advances(p)
    <2>1. Phase(catalog, req[p].slice) = expected_phase[req[p].kind]
      BY <1>1, <1>6, StepsAreApart DEF Advances, Course
    <2> QED
      BY <1>6, <2>1 DEF Advances, Still, files, Course, Calls, Rebuilding
  <1>7. CASE Prepares(p)
    <2>1. req[p].at \in WriteSteps /\ req[p].at \in SliceSteps \ {"check"}
      BY <1>7, StepsAreApart DEF Prepares, WriteSteps
    <2>2. req'[p].at \notin Calls \union Rebuilding
      BY <1>7 DEF Prepares, Calls, Rebuilding
    <2> QED
      BY <1>1, <1>7, <2>1, <2>2 DEF Prepares, Same, Course
  <1> QED
    BY <1>1, <1>2, <1>3, <1>4, <1>5, <1>6, <1>7, ServeShapes

LEMMA StepKeepsCourse == CourseInv /\ [Next]_vars => CourseInv'
  <1> SUFFICES ASSUME CourseInv, [Next]_vars PROVE CourseInv'
    OBVIOUS
  <1>1. CatalogInv' /\ TypeInv /\ TypeInv'
    BY StepKeepsCatalog DEF CourseInv, CatalogInv
  <1>2. CASE UNCHANGED vars
    BY <1>1, <1>2, CourseUndisturbed DEF vars, files, CourseInv
  <1>3. ASSUME NEW p \in Requests, Submit(p)
        PROVE  \A q \in Requests : Course(q)'
    <2>1. Course(p)'
      <3>1. req'[p].at \in {"check", "idle"} \union Elsewhere
        BY <1>1, <1>3, SubmitFields
      <3> QED
        BY <3>1, StepsAreApart DEF Course, Calls, Rebuilding, WriteSteps, Elsewhere
    <2>2. ASSUME NEW q \in Requests \ {p} PROVE Course(q)'
      BY <1>1, <1>3, SubmitFields, CourseUndisturbed DEF CourseInv, files
    <2> QED
      BY <2>1, <2>2
  <1>4. ASSUME NEW p \in Requests, Serve(p)
        PROVE  \A q \in Requests : Course(q)'
    <2>1. Course(p)'
      BY <1>1, <1>4, ServeKeepsOwnCourse
    <2>2. ASSUME NEW q \in Requests \ {p} PROVE Course(q)'
      <3>1. req'[q] = req[q] /\ Course(q)
        BY <1>1, <1>4, ServeLeavesOthers DEF CourseInv
      <3>2. CASE catalog' = catalog
        BY <3>1, <3>2, CourseUndisturbed
      <3>3. CASE catalog' # catalog
        <4>1. Replaces(p)
          BY <1>1, <1>4, <3>3, ServeShapes DEF Over, Admitted, Calling, Rebuilds,
             Advances, Prepares, Aside, Still, files
        <4>2. req[p].at \in SliceSteps
          BY <4>1, StepsAreApart DEF Replaces, WriteSteps
        <4>3. req[q].at \notin SliceSteps
          BY <4>2, ReplacesAlone DEF CourseInv
        <4> QED
          BY <3>1, <4>3, CourseUndisturbed
      <3> QED
        BY <3>2, <3>3
    <2> QED
      BY <2>1, <2>2
  <1>5. CASE LauncherOrCrash
    <2>1. UNCHANGED catalog /\ (req' = req \/ req' = NoRequests)
      BY <1>5, LauncherLeavesFilesAlone DEF files
    <2>2. CASE req' = req
      BY <2>1, <2>2, CourseUndisturbed, <1>1 DEF CourseInv
    <2>3. CASE req' = NoRequests
      <3>1. ASSUME NEW p \in Requests PROVE Course(p)'
        <4>1. req'[p].at = "idle"
          BY <2>3 DEF NoRequests, Idle
        <4> QED
          BY <4>1, StepsAreApart DEF Course, Calls, Rebuilding, WriteSteps
      <3> QED
        BY <1>1, <3>1 DEF CourseInv
    <2> QED
      BY <2>1, <2>2, <2>3
  <1> QED
    BY <1>1, <1>2, <1>3, <1>4, <1>5 DEF CourseInv, Next, LauncherOrCrash, Submit

LEMMA InitCourse == Init => CourseInv
  <1> SUFFICES ASSUME Init PROVE \A p \in Requests : Course(p)
    BY InitCatalog DEF CourseInv
  <1>1. \A p \in Requests : req[p].at = "idle"
    BY DEF Init, Idle
  <1> QED
    BY <1>1, NothingToDo

(* A lifecycle action never acts on a phase that is no longer true, nor     *)
(* calls a container of another slice, nor writes a catalog made from       *)
(* another than the present one: from its check of the phase to its last    *)
(* write nobody can change the catalog under it, whatever dies or overlaps. *)
THEOREM ActionsKeepTheirCourse == Spec => []CourseInv
  BY InitCourse, StepKeepsCourse, PTL DEF Spec

-----------------------------------------------------------------------------
(***************************************************************************)
(* A bring-up.  No request runs beside it, so that the catalog it listed    *)
(* stays as it was and only its own calls change the containers: all run    *)
(* when the core is up, and the calls still to make say how far each UPF    *)
(* is on its way to what its slice's phase calls for.  That no two slices   *)
(* share a UPF (validate_scenario) makes the calls for one slice miss the   *)
(* others.                                                                  *)
(***************************************************************************)
Alone == req # NoRequests => gateway /\ launch.at = "idle"

Left(call, u) == <<call, u>> \in launch.todo

Due(s, u) ==
  /\ launch.seen[s] = "running" =>
       ~Left("stop", u) /\ ~Left("rm", u) /\ upf[u] = "running"
  /\ launch.seen[s] = "stopped" =>
       ~Left("rm", u) /\ upf[u] = IF Left("stop", u) THEN "running" ELSE "stopped"
  /\ launch.seen[s] = "deleted" =>
       /\ Left("stop", u) => Left("rm", u)
       /\ upf[u] = IF Left("stop", u) THEN "running"
                   ELSE IF Left("rm", u) THEN "stopped" ELSE "absent"

Restored == \A s \in Slices : \A u \in UpfsOf(s) : upf[u] = ContainerFor[Phase(catalog, s)]

Bringing ==
  /\ launch.at \in {"pings", "list"} => \A u \in Upfs : upf[u] = "running"
  /\ launch.at = "reconcile" =>
       /\ \A s \in Slices : launch.seen[s] = Phase(catalog, s)
       /\ \A s \in Slices : \A u \in UpfsOf(s) : Due(s, u)
  /\ launch.at = "telemetry" => Restored

RepairInv == CourseInv /\ Alone /\ Bringing

LEMMA OneSlicePerUpf ==
  ASSUME NEW s \in Slices, NEW t \in Slices, NEW u \in UpfsOf(s), u \in UpfsOf(t)
  PROVE  s = t
  BY UpfsAreExclusive DEF UpfsOf

LEMMA UpfsOfAreUpfs ==
  ASSUME NEW s \in Slices, NEW u \in UpfsOf(s)
  PROVE  u \in Upfs
  BY SlicesHaveUpfs

LEMMA PhasesAreThree ==
  ASSUME TypeInv, NEW s \in Slices
  PROVE  Phase(catalog, s) \in {"running", "stopped", "deleted"}
  BY DEF TypeInv, TypeOK, CatalogRecord, Phase, SlicePhase

(* The launcher stays idle while a request is served.                       *)
LEMMA ServedWhileIdle ==
  ASSUME Alone, TypeInv, NEW p \in Requests, req[p].at # "idle"
  PROVE  gateway /\ launch.at = "idle"
  BY DEF Alone, NoRequests, Idle

LEMMA ServingIsNotIdle ==
  ASSUME NEW p \in Requests, TypeInv, Serve(p)
  PROVE  req[p].at # "idle"
  <1>1. "idle" \notin Calls \union Rebuilding \union Elsewhere \union WriteSteps
    BY DEF Calls, Rebuilding, Elsewhere, WriteSteps
  <1> QED
    BY DEF Serve, CheckPhase, CheckNotDeleted, UpdateResources, ListActive,
         TrafficOfSlice, Advance, AppendLog, RaisingSteps,
         Truncate, Overwrite, Receipt, Raise, RestartSmf, RestartUe, Pings,
         CreateContainer, StartUpf, RestartUpf, StopUpf, RemoveContainer,
         RestartContainer, EachUpf

LEMMA StepKeepsAlone ==
  ASSUME ~Overlapping, TypeInv, Alone, [Next]_vars
  PROVE  Alone'
  <1>1. CASE UNCHANGED vars
    BY <1>1 DEF vars, Alone, counters
  <1>2. ASSUME NEW p \in Requests, Submit(p)
        PROVE  Alone'
    BY <1>2, SubmitFields DEF Alone
  <1>3. ASSUME NEW p \in Requests, Serve(p)
        PROVE  Alone'
    BY <1>3, ServingIsNotIdle, ServedWhileIdle, ServeLeavesOthers DEF Alone
  <1>4. CASE req' = NoRequests
    BY <1>4 DEF Alone
  <1>5. ASSUME NEW op \in LaunchOps, Launch(op)
        PROVE  Alone'
    BY <1>5 DEF Launch, Alone, NoRequests
  <1>6. CASE LaunchStep
    <2>1. launch.at # "idle"
      BY <1>6 DEF LaunchStep, ComposeDown, ComposeStop, ComposeUpCore, TrafficReady,
         ListSlices, ReconcileUpf, Reconciled, TelemetryUp, LaunchRaises, ComposeRaises
    <2>2. req = NoRequests
      BY <2>1 DEF Alone
    <2>3. req' = req \/ req' = NoRequests
      BY <1>6, LauncherLeavesFilesAlone DEF LauncherOrCrash
    <2> QED
      BY <1>4, <2>2, <2>3
  <1>7. CASE GatewayDies \/ HostRestart
    BY <1>4, <1>7 DEF GatewayDies, HostRestart
  <1>8. CASE LauncherKilled
    BY <1>8 DEF LauncherKilled, Alone, AtRest
  <1> QED
    BY <1>1, <1>2, <1>3, <1>5, <1>6, <1>7, <1>8 DEF Next, Submit

(* The calls of reconcile_initial, before the first and after the last.     *)
LEMMA ListedIsDue ==
  ASSUME TypeInv, Bringing, ListSlices,
         NEW s \in Slices, NEW u \in UpfsOf(s)
  PROVE  launch'.seen[s] = Phase(catalog, s) /\ Due(s, u)'
  <1> DEFINE seen == [t \in Slices |-> Phase(catalog, t)]
             calls == CallsFor(seen)
  <1>1. upf[u] = "running" /\ upf' = upf
    BY UpfsOfAreUpfs DEF Bringing, ListSlices
  <1>2. seen[s] = Phase(catalog, s)
    OBVIOUS
  <1>3. launch' = [launch EXCEPT !.seen = seen, !.todo = calls, !.at = "reconcile"]
    BY DEF ListSlices
  <1>4. /\ <<"stop", u>> \in calls <=> seen[s] # "running"
        /\ <<"rm", u>> \in calls <=> seen[s] = "deleted"
    <2>1. <<"stop", u>> \in calls <=>
            \E t \in Slices : seen[t] # "running" /\ u \in UpfsOf(t)
      BY DEF CallsFor, Inactive, Deleted
    <2>2. <<"rm", u>> \in calls <=>
            \E t \in Slices : seen[t] = "deleted" /\ u \in UpfsOf(t)
      BY DEF CallsFor, Inactive, Deleted
    <2> HIDE DEF calls, seen
    <2> QED
      BY <2>1, <2>2, OneSlicePerUpf
  <1> HIDE DEF calls, seen
  <1>5. launch'.seen = seen /\ launch'.todo = calls
    <2>1. launch \in Launching
      BY TypeInvByParts DEF RestTyped
    <2> QED
      BY <1>3, <2>1 DEF Launching
  <1> QED
    BY <1>1, <1>2, <1>4, <1>5 DEF Due, Left

LEMMA ReconcilingIsDue ==
  ASSUME TypeInv, ReconcileUpf, NEW s \in Slices, NEW u \in UpfsOf(s), Due(s, u),
         launch.seen[s] \in {"running", "stopped", "deleted"}
  PROVE  Due(s, u)'
  <1>1. launch \in Launching /\ upf \in [Upfs -> ContainerState] /\ u \in Upfs
    BY TypeInvByParts, UpfsOfAreUpfs DEF RestTyped
  <1>2. PICK v \in Upfs :
          \/ /\ <<"stop", v>> \in launch.todo
             /\ upf' = [upf EXCEPT ![v] = "stopped"]
             /\ launch' = [launch EXCEPT !.todo = launch.todo \ {<<"stop", v>>}]
          \/ /\ <<"rm", v>> \in launch.todo /\ <<"stop", v>> \notin launch.todo
             /\ upf' = [upf EXCEPT ![v] = Removing[upf[v]]]
             /\ launch' = [launch EXCEPT !.todo = launch.todo \ {<<"rm", v>>}]
    BY DEF ReconcileUpf
  <1>3. CASE v # u
    <2>1. upf'[u] = upf[u] /\ launch'.seen = launch.seen
      BY <1>1, <1>2, <1>3 DEF Launching
    <2>2. \A call \in {"stop", "rm"} : <<call, u>> \in launch'.todo <=> <<call, u>> \in launch.todo
      BY <1>1, <1>2, <1>3 DEF Launching
    <2> QED
      BY <2>1, <2>2 DEF Due, Left
  <1>4. CASE /\ v = u /\ <<"stop", u>> \in launch.todo
             /\ upf' = [upf EXCEPT ![u] = "stopped"]
             /\ launch' = [launch EXCEPT !.todo = launch.todo \ {<<"stop", u>>}]
    <2>1. upf'[u] = "stopped" /\ launch'.seen = launch.seen
            /\ launch'.todo = launch.todo \ {<<"stop", u>>}
      BY <1>1, <1>4 DEF Launching
    <2> QED
      BY <1>4, <2>1 DEF Due, Left
  <1>5. CASE /\ v = u /\ <<"rm", u>> \in launch.todo /\ <<"stop", u>> \notin launch.todo
             /\ upf' = [upf EXCEPT ![u] = Removing[upf[u]]]
             /\ launch' = [launch EXCEPT !.todo = launch.todo \ {<<"rm", u>>}]
    <2>1. launch.seen[s] = "deleted" /\ upf[u] = "stopped"
      BY <1>5 DEF Due, Left
    <2>2. upf'[u] = "absent" /\ launch'.seen = launch.seen
            /\ launch'.todo = launch.todo \ {<<"rm", u>>}
      BY <1>1, <1>5, <2>1 DEF Launching, Removing
    <2> QED
      BY <1>5, <2>1, <2>2 DEF Due, Left
  <1> QED
    BY <1>2, <1>3, <1>4, <1>5

LEMMA LauncherKeepsBringing ==
  ASSUME TypeInv, Bringing, LauncherOrCrash
  PROVE  Bringing'
  <1>1. launch \in Launching /\ upf \in [Upfs -> ContainerState]
    BY TypeInvByParts DEF RestTyped
  <1>2. catalog' = catalog
    BY LauncherLeavesFilesAlone DEF files
  <1>3. CASE launch'.at \in {"idle", "down", "halt", "core"}
    BY <1>3 DEF Bringing
  <1>4. ASSUME NEW op \in LaunchOps, Launch(op)
        PROVE  launch'.at \in {"down", "halt", "core"}
    BY <1>4 DEF Launch, AtRest
  <1>5. CASE ComposeUpCore
    <2>1. launch'.at = "pings" /\ \A u \in Upfs : upf'[u] = "running"
      BY <1>1, <1>5 DEF ComposeUpCore, Launching
    <2> QED
      BY <2>1 DEF Bringing
  <1>6. CASE TrafficReady
    <2>1. launch'.at = "list" /\ launch.at = "pings" /\ upf' = upf
      BY <1>1, <1>6 DEF TrafficReady, Launching
    <2> QED
      BY <2>1 DEF Bringing
  <1>7. CASE ListSlices
    <2>1. launch'.at = "reconcile"
      BY <1>1, <1>7 DEF ListSlices, Launching
    <2>2. \A s \in Slices : \A u \in UpfsOf(s) :
            launch'.seen[s] = Phase(catalog, s) /\ Due(s, u)'
      BY <1>7, ListedIsDue
    <2>3. \A s \in Slices : launch'.seen[s] = Phase(catalog, s)'
      BY <1>2, <2>2, SlicesHaveUpfs DEF Phase
    <2> QED
      BY <2>1, <2>2, <2>3 DEF Bringing
  <1>8. CASE ReconcileUpf
    <2>1. launch'.at = "reconcile" /\ launch.at = "reconcile" /\ launch'.seen = launch.seen
      BY <1>1, <1>8 DEF ReconcileUpf, Launching
    <2>2. \A s \in Slices : launch.seen[s] \in {"running", "stopped", "deleted"}
      BY <1>1 DEF Launching, SlicePhase
    <2>3. \A s \in Slices : \A u \in UpfsOf(s) : Due(s, u)'
      BY <1>8, <2>1, <2>2, ReconcilingIsDue DEF Bringing
    <2>4. \A s \in Slices : launch'.seen[s] = Phase(catalog, s)'
      BY <1>2, <2>1 DEF Bringing, Phase
    <2> QED
      BY <2>1, <2>3, <2>4 DEF Bringing
  <1>9. CASE Reconciled
    <2>1. launch'.at = "telemetry" /\ launch.at = "reconcile" /\ launch.todo = {}
            /\ upf' = upf
      BY <1>1, <1>9 DEF Reconciled, Launching
    <2>2. ASSUME NEW s \in Slices, NEW u \in UpfsOf(s)
          PROVE  upf[u] = ContainerFor[Phase(catalog, s)]
      <3>1. Due(s, u) /\ launch.seen[s] = Phase(catalog, s)
        BY <2>1 DEF Bringing
      <3>2. ~Left("stop", u) /\ ~Left("rm", u)
        BY <2>1 DEF Left
      <3> QED
        BY <3>1, <3>2, PhasesAreThree DEF Due, ContainerFor
    <2>3. Restored'
      BY <1>2, <2>1, <2>2 DEF Restored, Phase
    <2> QED
      BY <2>1, <2>3 DEF Bringing
  <1>10. CASE GatewayDies
    BY <1>2, <1>10 DEF GatewayDies, Bringing, Restored, Due, Left, Phase
  <1>11. \/ ComposeDown \/ ComposeStop \/ TelemetryUp \/ LaunchRaises \/ ComposeRaises
         \/ LauncherKilled \/ HostRestart
         => launch'.at \in {"idle", "core"}
    BY <1>1 DEF ComposeDown, ComposeStop, TelemetryUp, LaunchRaises, ComposeRaises,
       LauncherKilled, HostRestart, AtRest, Launching
  <1> QED
    BY <1>3, <1>4, <1>5, <1>6, <1>7, <1>8, <1>9, <1>10, <1>11
       DEF LauncherOrCrash, LaunchStep

LEMMA StepKeepsRepair ==
  ASSUME ~Overlapping
  PROVE  RepairInv /\ [Next]_vars => RepairInv'
  <1> SUFFICES ASSUME RepairInv, [Next]_vars PROVE RepairInv'
    OBVIOUS
  <1>1. CourseInv' /\ Alone' /\ TypeInv
    BY StepKeepsCourse, StepKeepsAlone DEF RepairInv, CourseInv, CatalogInv
  <1>2. CASE UNCHANGED vars
    BY <1>1, <1>2 DEF vars, files, RepairInv, Bringing, Restored, Due, Left
  <1>3. CASE LauncherOrCrash
    BY <1>1, <1>3, LauncherKeepsBringing DEF RepairInv
  <1>4. ASSUME NEW p \in Requests, Submit(p) \/ Serve(p)
        PROVE  Bringing'
    <2>1. launch' = launch /\ launch.at = "idle"
      BY <1>1, <1>4, SubmitFields, ServeLeavesOthers, ServingIsNotIdle, ServedWhileIdle
         DEF RepairInv
    <2> QED
      BY <2>1 DEF Bringing
  <1> QED
    BY <1>1, <1>2, <1>3, <1>4 DEF RepairInv, Next, LauncherOrCrash, Submit

LEMMA InitRepair == Init => RepairInv
  <1> SUFFICES ASSUME Init PROVE Alone /\ Bringing
    BY InitCourse DEF RepairInv
  <1> QED
    BY DEF Init, Alone, NoRequests, Bringing, AtRest

LEMMA RepairInvariant ==
  ASSUME ~Overlapping
  PROVE  Spec => []RepairInv
  BY InitRepair, StepKeepsRepair, PTL DEF Spec

(* A bring-up that comes as far as telemetry has put every UPF into the     *)
(* state that its slice's phase in the catalog calls for, whatever half-way *)
(* actions, crashes and restarts of containers had left behind.             *)
THEOREM BringUpAlwaysRestoresSlices ==
  ASSUME ~Overlapping
  PROVE  Spec => []ReconcileRestoresSlices
  <1>1. RepairInv => ReconcileRestoresSlices
    BY DEF RepairInv, Bringing, Restored, ReconcileRestoresSlices
  <1> QED
    BY <1>1, RepairInvariant, PTL

-----------------------------------------------------------------------------
(* What a step may remove: the container of a slice not recorded as running.*)

LEMMA RemovedByAnAction ==
  ASSUME CourseInv, NEW p \in Requests, Serve(p),
         NEW s \in Slices, NEW u \in UpfsOf(s), upf[u] # "absent", upf'[u] = "absent"
  PROVE  Phase(catalog, s) # "running"
  <1>1. TypeInv /\ Course(p) /\ Sound(req[p]) /\ u \in Upfs
          /\ upf \in [Upfs -> ContainerState]
    BY UpfsOfAreUpfs DEF CourseInv, CatalogInv, TypeInv, TypeOK
  <1>2. Calling(p)
    BY <1>1, ServeShapes DEF Over, Admitted, Rebuilds, Advances, Prepares, Replaces,
       Aside, Still
  <1>3. PICK v \in req[p].todo :
          /\ upf[v] \in DOMAIN OutcomeOf(req[p].at)
          /\ upf' = [upf EXCEPT ![v] = OutcomeOf(req[p].at)[upf[v]]]
    BY <1>2 DEF Calling
  <1>4. v = u /\ upf[u] \in DOMAIN OutcomeOf(req[p].at)
          /\ OutcomeOf(req[p].at)[upf[u]] = "absent"
    BY <1>1, <1>3
  <1>5. req[p].at = "delete_slice"
    <2>1. req[p].at \in {"create_slice", "start_slice", "stop_slice", "delete_slice"}
      BY <1>2 DEF Calling, Calls
    <2>2. CASE req[p].at = "create_slice"
      BY <1>1, <1>4, <2>2 DEF OutcomeOf, Creating
    <2>3. CASE req[p].at = "start_slice"
      BY <1>1, <1>4, <2>3 DEF OutcomeOf, Starting
    <2>4. CASE req[p].at = "stop_slice"
      BY <1>1, <1>4, <2>4 DEF OutcomeOf, Stopping
    <2> QED
      BY <2>1, <2>2, <2>3, <2>4
  <1>6. req[p].at \in Calls /\ req[p].at \in SliceSteps \ {"check"}
    BY <1>5, StepsAreApart DEF Calls
  <1>7. req[p].kind = "delete_slice" /\ req[p].todo \subseteq UpfsOf(req[p].slice)
          /\ Phase(catalog, req[p].slice) = expected_phase[req[p].kind]
    BY <1>1, <1>5, <1>6 DEF Course
  <1>8. Phase(catalog, req[p].slice) = "stopped"
    BY <1>7 DEF expected_phase
  <1>9. req[p].slice = s
    BY <1>1, <1>3, <1>4, <1>6, <1>7, OneSlicePerUpf DEF Sound
  <1> QED
    BY <1>8, <1>9

LEMMA RemovedByALauncher ==
  ASSUME TypeInv, Bringing, LauncherOrCrash,
         NEW s \in Slices, NEW u \in UpfsOf(s), upf[u] # "absent", upf'[u] = "absent"
  PROVE  Phase(catalog, s) # "running" \/ launch.at = "down"
  <1>1. u \in Upfs /\ upf \in [Upfs -> ContainerState]
    BY UpfsOfAreUpfs DEF TypeInv, TypeOK
  <1>2. CASE ReconcileUpf
    <2>1. launch.at = "reconcile"
      BY <1>2 DEF ReconcileUpf
    <2>2. Left("rm", u) /\ ~Left("stop", u)
      BY <1>1, <1>2 DEF ReconcileUpf, Left
    <2>3. launch.seen[s] = Phase(catalog, s) /\ Due(s, u)
      BY <2>1 DEF Bringing
    <2> QED
      BY <2>2, <2>3 DEF Due
  <1>3. CASE ComposeRaises
    <2>1. launch.at \in {"down", "halt", "core", "pings"}
      BY <1>3 DEF ComposeRaises
    <2>2. PICK some \in SUBSET Upfs :
            upf' = [v \in Upfs |-> IF v \notin some THEN upf[v]
                     ELSE CASE launch.at \in {"core", "pings"} -> "running"
                            [] launch.at = "halt" -> Halted(upf[v])
                            [] launch.at = "down" -> "absent"]
      BY <1>3 DEF ComposeRaises
    <2>3. CASE launch.at \in {"core", "pings"}
      BY <1>1, <2>2, <2>3
    <2>4. CASE launch.at = "halt"
      BY <1>1, <2>2, <2>4 DEF Halted
    <2> QED
      BY <2>1, <2>3, <2>4
  <1>4. CASE ComposeStop \/ HostRestart
    BY <1>1, <1>4 DEF ComposeStop, HostRestart, Halted
  <1>5. CASE ComposeDown \/ ComposeUpCore
    BY <1>1, <1>5 DEF ComposeDown, ComposeUpCore
  <1> QED
    BY <1>2, <1>3, <1>4, <1>5 DEF LauncherOrCrash, LaunchStep, Launch, TrafficReady,
       ListSlices, Reconciled, TelemetryUp, LaunchRaises, GatewayDies, LauncherKilled

(* No container of a slice recorded as running is removed, but by the       *)
(* compose down of a reset: delete_slice removes the containers of its own  *)
(* slice, which its lock keeps stopped, and reconcile_initial those of the  *)
(* slices it found deleted.                                                 *)
THEOREM OnlyInactiveUpfsEverVanish ==
  ASSUME ~Overlapping
  PROVE  Spec => OnlyInactiveUpfsVanish
  <1> DEFINE Vanishing == \A s \in Slices : \A u \in UpfsOf(s) :
               upf[u] # "absent" /\ upf'[u] = "absent" =>
                 Phase(catalog, s) # "running" \/ launch.at = "down"
  <1>1. RepairInv /\ [Next]_vars => [Vanishing]_vars
    <2> SUFFICES ASSUME RepairInv, Next,
                        NEW s \in Slices, NEW u \in UpfsOf(s),
                        upf[u] # "absent", upf'[u] = "absent"
                 PROVE  Phase(catalog, s) # "running" \/ launch.at = "down"
      OBVIOUS
    <2>1. CourseInv /\ TypeInv /\ Bringing
      BY DEF RepairInv, CourseInv, CatalogInv
    <2>2. ASSUME NEW p \in Requests, Submit(p)
          PROVE  FALSE
      BY <2>1, <2>2, SubmitFields
    <2> QED
      BY <2>1, <2>2, RemovedByAnAction, RemovedByALauncher DEF Next, LauncherOrCrash, Submit
  <1> QED
    BY <1>1, RepairInvariant, PTL DEF Spec, OnlyInactiveUpfsVanish

-----------------------------------------------------------------------------
(***************************************************************************)
(* Where nothing fails and nothing dies.  A slice's UPFs run while it is    *)
(* recorded as running, except between the first docker stop of stop_slice  *)
(* and its last write: an action that has begun to stop them cannot give up *)
(* on the way, since the containers it has still to stop are there, the     *)
(* catalog is whole when it reads it and the phase it found is still there. *)
(* A start_slice has all of them running before it writes, and no other     *)
(* request stops one.                                                       *)
(***************************************************************************)
Healthy == ~faulty /\ crashes = 0

Up(s) == \A u \in UpfsOf(s) : upf[u] = "running"

Stops(p, s) ==
  /\ req[p].slice = s /\ req[p].kind = "stop_slice"
  /\ req[p].at \in {"stop_slice", "advance"} \union WriteSteps

(* Only a request about to write it leaves the catalog empty.               *)
EmptyWhileWritten == empty => \E p \in Requests : req[p].at = "overwrite"

UpOrStopping ==
  gateway /\ launch.at = "idle" =>
    \A s \in Slices : Phase(catalog, s) = "running" =>
      Up(s) \/ \E p \in Requests : Stops(p, s)

Progress(p) ==
  /\ req[p].at = "start_slice" =>
       \A u \in UpfsOf(req[p].slice) : u \in req[p].todo \/ upf[u] = "running"
  /\ req[p].kind = "start_slice"
       /\ req[p].at \in Rebuilding \union {"advance"} \union WriteSteps =>
       Up(req[p].slice)
  /\ req[p].at = "stop_slice" => \A u \in req[p].todo : upf[u] = "running"

UpInv == /\ RepairInv
         /\ Healthy => /\ EmptyWhileWritten /\ UpOrStopping
                       /\ \A p \in Requests : Progress(p)

LEMMA StopsInTheCatalog ==
  ASSUME NEW p \in Requests, NEW s, Stops(p, s)
  PROVE  req[p].at \in SliceSteps /\ req[p].at # "check"
  BY StepsAreApart DEF Stops, Calls, WriteSteps

LEMMA ClaimsNothing ==
  ASSUME NEW p \in Requests, req[p].at \notin SliceSteps
  PROVE  Progress(p)
  BY StepsAreApart DEF Progress, Calls

(* A request that steps finds the catalog whole unless it truncated it.     *)
LEMMA WholeForItsWriter ==
  ASSUME UpInv, Healthy, NEW p \in Requests, req[p].at \in SliceSteps,
         req[p].at # "overwrite"
  PROVE  ~empty
  <1>1. ASSUME empty PROVE FALSE
    <2>1. PICK q \in Requests : req[q].at = "overwrite"
      BY <1>1 DEF UpInv, EmptyWhileWritten
    <2>2. req[q].at \in SliceSteps
      BY <2>1, StepsAreApart DEF WriteSteps
    <2> QED
      BY <2>1, <2>2, ReplacesAlone DEF UpInv, RepairInv, CourseInv
  <1> QED
    BY <1>1

LEMMA StoppingGoesOn ==
  ASSUME UpInv, Healthy, NEW p \in Requests, Serve(p), NEW s \in Slices, Stops(p, s)
  PROVE  Replaces(p) \/ Stops(p, s)'
  <1>1. TypeInv /\ Course(p) /\ Progress(p)
    BY DEF UpInv, RepairInv, CourseInv, CatalogInv
  <1>2. req[p].slice = s /\ req[p].kind = "stop_slice"
          /\ req[p].at \in {"stop_slice", "advance", "append", "truncate", "overwrite"}
    BY DEF Stops, WriteSteps
  <1>3. req[p].at \in SliceSteps \ {"check"}
    BY StopsInTheCatalog
  <1>4. Phase(catalog, s) = "running"
    BY <1>1, <1>2, <1>3 DEF Course, expected_phase
  <1>5. ~Over(p)
    <2>1. CASE req[p].at = "stop_slice"
      BY <1>1, <2>1 DEF Over, Progress, Healthy
    <2>2. CASE req[p].at = "advance"
      <3>1. ~empty
        BY <1>3, <2>2, WholeForItsWriter
      <3>2. CanMove(catalog, req[p].slice, next_phase[req[p].kind])
        BY <1>2, <1>4 DEF CanMove, allowed, next_phase
      <3> QED
        BY <2>2, <3>1, <3>2 DEF Over, Healthy
    <2>3. CASE req[p].at \in WriteSteps
      BY <2>3 DEF Over
    <2> QED
      BY <1>2, <2>1, <2>2, <2>3 DEF WriteSteps
  <1>6. CASE Calling(p)
    <2>1. req'[p].at \in {"stop_slice", "advance"} /\ Same(p)
      BY <1>2, <1>6 DEF Calling, Calls
    <2> QED
      BY <1>2, <2>1 DEF Same, Stops
  <1>7. CASE Advances(p)
    BY <1>2, <1>7 DEF Advances, Stops, WriteSteps
  <1>8. CASE Prepares(p)
    BY <1>2, <1>8 DEF Prepares, Same, Stops, WriteSteps
  <1>9. ~Admitted(p) /\ ~Rebuilds(p) /\ ~Aside(p)
    BY <1>2 DEF Admitted, Rebuilds, Rebuilding, Aside, Elsewhere
  <1> QED
    BY <1>1, <1>5, <1>6, <1>7, <1>8, <1>9, ServeShapes

(* Only stop_slice makes a running UPF stop, one of its own slice.          *)
StopsOne(p) ==
  /\ Calling(p) /\ req[p].at = "stop_slice" /\ req[p].kind = "stop_slice"
  /\ \A t \in Slices : t # req[p].slice =>
       \A u \in UpfsOf(t) : upf'[u] = upf[u]

LEMMA LivelyOrStopping ==
  ASSUME CourseInv, NEW p \in Requests, Serve(p)
  PROVE  Lively \/ StopsOne(p)
  <1>1. TypeInv /\ Course(p) /\ Sound(req[p]) /\ upf \in [Upfs -> ContainerState]
    BY DEF CourseInv, CatalogInv, TypeInv, TypeOK
  <1>2. CASE Calling(p)
    <2>1. PICK v \in req[p].todo :
            /\ upf[v] \in DOMAIN OutcomeOf(req[p].at)
            /\ upf' = [upf EXCEPT ![v] = OutcomeOf(req[p].at)[upf[v]]]
      BY <1>2 DEF Calling
    <2>2. req[p].at \in SliceSteps \ {"check"} /\ req[p].at \in Calls
      BY <1>2, StepsAreApart DEF Calling, Calls
    <2>3. /\ req[p].slice \in Slices /\ v \in UpfsOf(req[p].slice) /\ v \in Upfs
          /\ req[p].at = req[p].kind
      BY <1>1, <2>1, <2>2, UpfsOfAreUpfs DEF Course, Sound
    <2>4. CASE req[p].at \in {"create_slice", "start_slice"}
      BY <1>1, <2>1, <2>3, <2>4, StartingIsLively DEF OutcomeOf
    <2>5. CASE req[p].at = "delete_slice"
      BY <1>1, <2>1, <2>3, <2>5 DEF OutcomeOf, Removing, Lively, ContainerState
    <2>6. CASE req[p].at = "stop_slice"
      <3>1. ASSUME NEW t \in Slices, t # req[p].slice, NEW u \in UpfsOf(t)
            PROVE  upf'[u] = upf[u]
        <4>1. u # v
          BY <2>3, <3>1, OneSlicePerUpf
        <4>2. u \in Upfs
          BY UpfsOfAreUpfs
        <4> QED
          BY <1>1, <2>1, <4>1, <4>2
      <3> QED
        BY <1>2, <2>3, <2>6, <3>1 DEF StopsOne
    <2> QED
      BY <2>2, <2>4, <2>5, <2>6 DEF Calls
  <1> QED
    BY <1>1, <1>2, ServeShapes, StillIsLively DEF Over, Admitted, Rebuilds, Advances,
       Prepares, Replaces, Aside, Still

LEMMA ServeKeepsProgress ==
  ASSUME UpInv, Healthy, NEW p \in Requests, Serve(p)
  PROVE  Progress(p)'
  <1>1. TypeInv /\ Course(p) /\ Progress(p) /\ Sound(req[p]) /\ CourseInv /\ CatalogInv
          /\ upf \in [Upfs -> ContainerState]
    BY DEF UpInv, RepairInv, CourseInv, CatalogInv, TypeInv, TypeOK
  <1>2. CASE Over(p) \/ Replaces(p) \/ Aside(p)
    <2>1. req'[p].at \in {"idle"} \union Elsewhere
      BY <1>2 DEF Over, Replaces, Aside, Idle, Elsewhere
    <2> QED
      BY <2>1, StepsAreApart DEF Progress, Calls, Rebuilding, WriteSteps
  <1>3. CASE Admitted(p)
    <2>1. req[p].at = "check" /\ req[p].at \in SliceSteps
      BY <1>3, StepsAreApart DEF Admitted
    <2>2. req[p].kind \in Calls /\ req[p].slice \in Slices
      BY <1>1, <2>1 DEF Sound, Calls, SliceActions
    <2>3. /\ req'[p].at = req[p].kind /\ req'[p].todo = UpfsOf(req[p].slice)
          /\ req'[p].slice = req[p].slice /\ upf' = upf
      BY <1>3 DEF Admitted, Same, Still
    <2>4. ASSUME req[p].kind = "stop_slice" PROVE Up(req[p].slice)
      <3>1. Phase(catalog, req[p].slice) = "running"
        BY <1>3, <2>4 DEF Admitted, expected_phase
      <3>2. gateway /\ launch.at = "idle"
        BY <1>1, <2>1, ServedWhileIdle DEF UpInv, RepairInv
      <3>3. Up(req[p].slice) \/ \E q \in Requests : Stops(q, req[p].slice)
        BY <2>2, <3>1, <3>2 DEF UpInv, UpOrStopping
      <3>4. ASSUME NEW q \in Requests PROVE ~Stops(q, req[p].slice)
        BY <1>1, <2>1, StopsInTheCatalog, ReplacesAlone
      <3> QED
        BY <3>3, <3>4
    <2>5. req'[p].at \notin Rebuilding \union {"advance"} \union WriteSteps
      BY <2>2, <2>3 DEF Calls, Rebuilding, WriteSteps
    <2> QED
      BY <2>3, <2>4, <2>5 DEF Progress, Up
  <1>4. CASE Calling(p)
    <2>1. PICK v \in req[p].todo :
            /\ upf[v] \in DOMAIN OutcomeOf(req[p].at)
            /\ upf' = [upf EXCEPT ![v] = OutcomeOf(req[p].at)[upf[v]]]
            /\ req'[p].todo = req[p].todo \ {v}
            /\ req'[p].at =
                 IF req[p].todo = {v}
                 THEN IF req[p].at = "start_slice" THEN "list" ELSE "advance"
                 ELSE req[p].at
      BY <1>4 DEF Calling
    <2>2. req[p].at \in SliceSteps \ {"check"} /\ req[p].at \in Calls /\ req[p].at \in UpfSteps
      BY <1>4, StepsAreApart DEF Calling, Calls, UpfSteps
    <2>3. /\ req[p].slice \in Slices /\ v \in Upfs /\ req[p].at = req[p].kind
          /\ req[p].todo \subseteq UpfsOf(req[p].slice) /\ Same(p)
      BY <1>1, <1>4, <2>1, <2>2, UpfsOfAreUpfs DEF Course, Sound, Calling
    <2>4. CASE req[p].at = "start_slice"
      <3>1. upf'[v] = "running" /\ \A u \in Upfs : u # v => upf'[u] = upf[u]
        BY <1>1, <2>1, <2>3, <2>4 DEF OutcomeOf, Starting
      <3>2. \A u \in UpfsOf(req[p].slice) : u \in req[p].todo \ {v} \/ upf'[u] = "running"
        BY <1>1, <2>3, <2>4, <3>1, UpfsOfAreUpfs DEF Progress
      <3>3. CASE req[p].todo = {v}
        <4>1. req'[p].at = "list"
          BY <2>1, <2>4, <3>3
        <4> QED
          BY <2>3, <3>2, <3>3, <4>1 DEF Progress, Up, Same
      <3>4. CASE req[p].todo # {v}
        <4>1. req'[p].at = "start_slice"
          BY <2>1, <2>4, <3>4
        <4> QED
          BY <2>1, <2>3, <3>2, <4>1 DEF Progress, Same, Rebuilding, WriteSteps
      <3> QED
        BY <3>3, <3>4
    <2>5. CASE req[p].at = "stop_slice"
      <3>1. \A u \in req[p].todo \ {v} : upf'[u] = "running"
        BY <1>1, <2>1, <2>2, <2>5 DEF Progress, Sound
      <3>2. req'[p].at # "start_slice" /\ req'[p].kind # "start_slice"
        BY <2>1, <2>3, <2>5 DEF Same
      <3> QED
        BY <2>1, <3>1, <3>2 DEF Progress
    <2>6. CASE req[p].at \in {"create_slice", "delete_slice"}
      BY <2>1, <2>3, <2>6 DEF Progress, Same
    <2> QED
      BY <2>2, <2>4, <2>5, <2>6 DEF Calls
  <1>5. CASE Rebuilds(p)
    <2>1. req[p].at \in SliceSteps
      BY <1>5, StepsAreApart DEF Rebuilds
    <2>2. req[p].kind = "start_slice" /\ Up(req[p].slice) /\ req[p].slice \in Slices
      BY <1>1, <1>5, <2>1 DEF Rebuilds, Course, Progress, Sound
    <2>3. req'[p].at \notin {"start_slice", "stop_slice"} /\ req'[p].slice = req[p].slice
      BY <1>5 DEF Rebuilds, Rebuilding, Same
    <2>4. \A u \in UpfsOf(req[p].slice) : upf'[u] = "running"
      BY <1>5, <2>2, UpfsOfAreUpfs DEF Rebuilds, Lively, Up
    <2> QED
      BY <2>3, <2>4 DEF Progress, Up
  <1>6. CASE Advances(p) \/ Prepares(p)
    <2>1. /\ req[p].at \in {"advance"} \union WriteSteps
          /\ req'[p].at \notin {"start_slice", "stop_slice"}
          /\ req'[p].kind = req[p].kind /\ req'[p].slice = req[p].slice /\ upf' = upf
      BY <1>6 DEF Advances, Prepares, Same, Still, WriteSteps
    <2> QED
      BY <1>1, <2>1 DEF Progress, Up
  <1> QED
    BY <1>1, <1>2, <1>3, <1>4, <1>5, <1>6, ServeShapes

LEMMA ServeKeepsOthersProgress ==
  ASSUME UpInv, Healthy, NEW p \in Requests, Serve(p), NEW q \in Requests \ {p}
  PROVE  Progress(q)'
  <1>1. TypeInv /\ CourseInv /\ CatalogInv /\ Progress(q) /\ Sound(req[q])
    BY DEF UpInv, RepairInv, CourseInv, CatalogInv, TypeInv
  <1>2. req'[q] = req[q]
    BY <1>1, ServeLeavesOthers
  <1>3. CASE req[q].at \notin SliceSteps
    BY <1>2, <1>3, StepsAreApart DEF Progress, Calls
  <1>4. CASE req[q].at \in SliceSteps
    <2>1. req[p].at \notin SliceSteps
      BY <1>1, <1>4, ReplacesAlone
    <2>2. Lively
      BY <1>1, <2>1, LivelyOrStopping, StepsAreApart DEF StopsOne, Calls
    <2>3. req[q].slice \in Slices
      BY <1>1, <1>4 DEF Sound
    <2>4. \A u \in UpfsOf(req[q].slice) : upf[u] = "running" => upf'[u] = "running"
      BY <2>2, <2>3, UpfsOfAreUpfs DEF Lively
    <2>5. req[q].at = "stop_slice" => req[q].todo \subseteq Upfs
      BY <1>1 DEF Sound, UpfSteps
    <2> QED
      BY <1>1, <1>2, <2>2, <2>4, <2>5 DEF Progress, Up, Lively
  <1> QED
    BY <1>3, <1>4

LEMMA ServeKeepsUp ==
  ASSUME UpInv, Healthy, NEW p \in Requests, Serve(p)
  PROVE  UpOrStopping'
  <1>1. TypeInv /\ CourseInv /\ CatalogInv /\ Course(p) /\ Progress(p) /\ Sound(req[p])
          /\ catalog \in CatalogRecord
    BY DEF UpInv, RepairInv, CourseInv, CatalogInv, TypeInv, TypeOK
  <1>2. gateway /\ launch.at = "idle"
    BY <1>1, ServingIsNotIdle, ServedWhileIdle DEF UpInv, RepairInv
  <1>3. \A s \in Slices : Phase(catalog, s) = "running" =>
          Up(s) \/ \E q \in Requests : Stops(q, s)
    BY <1>2 DEF UpInv, UpOrStopping
  <1>4. ASSUME Replaces(p), NEW s \in Slices, Phase(catalog, s)' = "running"
        PROVE  Up(s)'
    <2> DEFINE t == req[p].slice
               target == next_phase[req[p].kind]
    <2>1. req[p].at \in WriteSteps /\ req[p].at \in SliceSteps \ {"check"}
            /\ req[p].at = "overwrite"
      BY <1>4, StepsAreApart DEF Replaces, WriteSteps
    <2>2. t \in Slices /\ req[p].kind \in SliceActions /\ catalog' = moved(catalog, t, target)
      BY <1>1, <1>4, <2>1 DEF Replaces, Course, Sound
    <2>3. Phase(catalog, s)' = IF s = t THEN target ELSE Phase(catalog, s)
      <3> HIDE DEF t, target
      <3> QED
        BY <1>1, <2>2 DEF moved, Phase, CatalogRecord
    <2>4. upf' = upf
      BY <1>4 DEF Replaces
    <2>5. CASE s = t
      <3>1. req[p].kind = "start_slice"
        BY <1>4, <2>2, <2>3, <2>5 DEF next_phase, SliceActions
      <3>2. Up(s)
        BY <1>1, <2>1, <2>5, <3>1 DEF Progress
      <3> QED
        BY <2>4, <3>2 DEF Up
    <2>6. CASE s # t
      <3>1. ASSUME NEW q \in Requests PROVE ~Stops(q, s)
        <4>1. CASE q = p
          BY <2>6, <4>1 DEF Stops
        <4>2. CASE q # p
          BY <1>1, <2>1, <4>2, StopsInTheCatalog, ReplacesAlone
        <4> QED
          BY <4>1, <4>2
      <3>2. Up(s)
        BY <1>3, <1>4, <2>3, <2>6, <3>1
      <3> QED
        BY <2>4, <3>2 DEF Up
    <2> QED
      BY <2>5, <2>6
  <1>5. ASSUME ~Replaces(p), NEW s \in Slices, Phase(catalog, s)' = "running"
        PROVE  Up(s)' \/ \E q \in Requests : Stops(q, s)'
    <2>1. catalog' = catalog
      BY <1>1, <1>5, ServeShapes DEF Over, Admitted, Calling, Rebuilds,
         Advances, Prepares, Aside, Still, files
    <2>2. Phase(catalog, s) = "running"
      BY <1>5, <2>1 DEF Phase
    <2>3. ASSUME NEW q \in Requests, Stops(q, s)
          PROVE  Stops(q, s)'
      <3>1. CASE q = p
        BY <1>5, <2>3, <3>1, StoppingGoesOn
      <3>2. CASE q # p
        BY <1>1, <2>3, <3>2, ServeLeavesOthers DEF Stops
      <3> QED
        BY <3>1, <3>2
    <2>4. CASE Up(s) /\ Lively
      BY <2>4, UpfsOfAreUpfs DEF Up, Lively
    <2>5. CASE Up(s) /\ StopsOne(p)
      <3>1. CASE s = req[p].slice
        <4>1. Stops(p, s)
          BY <2>5, <3>1 DEF StopsOne, Stops
        <4> QED
          BY <2>3, <4>1
      <3>2. CASE s # req[p].slice
        BY <2>5, <3>2 DEF StopsOne, Up
      <3> QED
        BY <3>1, <3>2
    <2> QED
      BY <1>1, <1>3, <2>2, <2>3, <2>4, <2>5, LivelyOrStopping
  <1> QED
    BY <1>4, <1>5 DEF UpOrStopping

LEMMA ServeKeepsWriting ==
  ASSUME UpInv, Healthy, NEW p \in Requests, Serve(p)
  PROVE  EmptyWhileWritten'
  <1>1. TypeInv /\ CatalogInv
    BY DEF UpInv, RepairInv, CourseInv, CatalogInv
  <1>2. CASE Replaces(p)
    BY <1>2 DEF Replaces, EmptyWhileWritten
  <1>3. CASE Prepares(p)
    <2>1. CASE req[p].at = "append"
      <3>1. ~empty
        BY <2>1, WholeForItsWriter, StepsAreApart DEF WriteSteps
      <3> QED
        BY <1>3, <2>1, <3>1 DEF Prepares, EmptyWhileWritten
    <2>2. CASE req[p].at = "truncate"
      BY <1>3, <2>2 DEF Prepares, EmptyWhileWritten
    <2> QED
      BY <1>3, <2>1, <2>2 DEF Prepares
  <1>4. CASE ~Replaces(p) /\ ~Prepares(p)
    <2>1. empty' = empty /\ req[p].at # "overwrite"
      BY <1>1, <1>4, ServeShapes DEF Over, Admitted, Calling, Rebuilds,
         Advances, Aside, Still, files, WriteSteps, Calls, Rebuilding, Elsewhere
    <2> QED
      BY <1>1, <2>1, ServeLeavesOthers DEF UpInv, EmptyWhileWritten
  <1> QED
    BY <1>2, <1>3, <1>4

LEMMA SubmitKeepsUp ==
  ASSUME UpInv, Healthy, NEW p \in Requests, Submit(p)
  PROVE  EmptyWhileWritten' /\ UpOrStopping' /\ \A q \in Requests : Progress(q)'
  <1>1. TypeInv
    BY DEF UpInv, RepairInv, CourseInv, CatalogInv
  <1>2. /\ req'[p].at \in {"check"} \union Elsewhere /\ req[p].at = "idle"
        /\ \A q \in Requests \ {p} : req'[q] = req[q]
        /\ UNCHANGED <<files, upf, gateway, launch>>
    BY <1>1, SubmitFields
  <1>3. EmptyWhileWritten'
    BY <1>2 DEF UpInv, EmptyWhileWritten, files
  <1>4. ASSUME NEW q \in Requests, NEW s, Stops(q, s)
        PROVE  Stops(q, s)'
    <2>1. q # p
      BY <1>2, <1>4, StopsInTheCatalog, StepsAreApart
    <2> QED
      BY <1>2, <1>4, <2>1 DEF Stops
  <1>5. UpOrStopping'
    BY <1>2, <1>4 DEF UpInv, UpOrStopping, Up, Phase, files
  <1>6. ASSUME NEW q \in Requests PROVE Progress(q)'
    <2>1. CASE q = p
      BY <1>2, <2>1, StepsAreApart DEF Progress, Calls, Rebuilding, WriteSteps, Elsewhere
    <2>2. CASE q # p
      BY <1>2, <2>2 DEF UpInv, Progress, Up
    <2> QED
      BY <2>1, <2>2
  <1> QED
    BY <1>3, <1>5, <1>6

(* A bring-up that ends leaves the UPFs of the running slices running, also *)
(* one that is given up between two of its calls.                           *)
LEMMA LauncherKeepsUp ==
  ASSUME UpInv, Healthy, ~Overlapping, LaunchStep
  PROVE  EmptyWhileWritten' /\ UpOrStopping' /\ \A q \in Requests : Progress(q)'
  <1>1. TypeInv /\ Bringing /\ Alone /\ launch \in Launching /\ catalog \in CatalogRecord
    BY TypeInvByParts DEF UpInv, RepairInv, CourseInv, CatalogInv, RestTyped
  <1>2. launch.at # "idle"
    BY DEF LaunchStep, ComposeDown, ComposeStop, ComposeUpCore, TrafficReady,
       ListSlices, ReconcileUpf, Reconciled, TelemetryUp, LaunchRaises, ComposeRaises
  <1>3. req = NoRequests /\ req' = NoRequests
    BY <1>1, <1>2, LauncherLeavesFilesAlone DEF Alone, LauncherOrCrash
  <1>4. UNCHANGED files
    BY LauncherLeavesFilesAlone DEF LauncherOrCrash
  <1>5. EmptyWhileWritten'
    <2>1. \A p \in Requests : req[p].at # "overwrite"
      BY <1>3 DEF NoRequests, Idle
    <2> QED
      BY <1>4, <2>1 DEF UpInv, EmptyWhileWritten, files
  <1>6. \A q \in Requests : Progress(q)'
    <2>1. \A q \in Requests : req'[q].at = "idle"
      BY <1>3 DEF NoRequests, Idle
    <2> QED
      BY <2>1, StepsAreApart DEF Progress, Calls, Rebuilding, WriteSteps
  <1>7. ASSUME gateway', launch'.at = "idle",
               NEW s \in Slices, Phase(catalog, s)' = "running", NEW u \in UpfsOf(s)
        PROVE  upf'[u] = "running"
    <2>1. Phase(catalog, s) = "running" /\ u \in Upfs
      BY <1>4, <1>7, UpfsOfAreUpfs DEF Phase, files
    <2>2. CASE TelemetryUp
      BY <1>1, <2>1, <2>2 DEF TelemetryUp, Bringing, Restored, ContainerFor
    <2>3. CASE LaunchRaises
      <3>1. launch.at \in {"pings", "list", "reconcile", "telemetry"} /\ upf' = upf
        BY <1>1, <2>3 DEF LaunchRaises, Launching, LaunchSteps
      <3>2. CASE launch.at \in {"pings", "list"}
        BY <1>1, <2>1, <3>1, <3>2 DEF Bringing
      <3>3. CASE launch.at = "reconcile"
        <4>1. Due(s, u) /\ launch.seen[s] = "running"
          BY <1>1, <2>1, <3>3 DEF Bringing
        <4> QED
          BY <3>1, <4>1 DEF Due
      <3>4. CASE launch.at = "telemetry"
        BY <1>1, <2>1, <3>1, <3>4 DEF Bringing, Restored, ContainerFor
      <3> QED
        BY <3>1, <3>2, <3>3, <3>4
    <2>4. ~ComposeStop /\ ~ComposeRaises
      BY <1>7 DEF ComposeStop, ComposeRaises, Healthy
    <2>5. ComposeDown \/ ComposeUpCore \/ TrafficReady \/ ListSlices \/ ReconcileUpf
            \/ Reconciled => launch'.at # "idle"
      BY <1>1 DEF ComposeDown, ComposeUpCore, TrafficReady, ListSlices, ReconcileUpf,
         Reconciled, Launching
    <2> QED
      BY <1>7, <2>2, <2>3, <2>4, <2>5 DEF LaunchStep
  <1>8. UpOrStopping'
    BY <1>7 DEF UpOrStopping, Up
  <1> QED
    BY <1>5, <1>6, <1>8

LEMMA StaysHealthy ==
  ASSUME TypeInv, [Next]_vars, Healthy'
  PROVE  /\ Healthy
         /\ ~(GatewayDies \/ LauncherKilled \/ HostRestart)
  <1>1. crashes \in Nat
    BY TypeInvByParts DEF RestTyped
  <1>2. ~(GatewayDies \/ LauncherKilled \/ HostRestart)
    BY <1>1 DEF GatewayDies, LauncherKilled, HostRestart, Crash, Healthy
  <1>3. ASSUME LaunchStep \/ \E op \in LaunchOps : Launch(op)
        PROVE  UNCHANGED <<faulty, crashes>>
    BY <1>3 DEF LaunchStep, Launch, ComposeDown, ComposeStop, ComposeUpCore,
       TrafficReady, ListSlices, ReconcileUpf, Reconciled, TelemetryUp, LaunchRaises,
       ComposeRaises, counters
  <1>4. ASSUME NEW p \in Requests, Submit(p) \/ Serve(p)
        PROVE  UNCHANGED <<faulty, crashes>>
    BY <1>4, SubmitFields, ServeLeavesOthers
  <1>5. UNCHANGED vars => UNCHANGED <<faulty, crashes>>
    BY DEF vars, counters
  <1> QED
    BY <1>2, <1>3, <1>4, <1>5 DEF Next, Submit, Healthy

LEMMA StepKeepsUp ==
  ASSUME ~Overlapping
  PROVE  UpInv /\ [Next]_vars => UpInv'
  <1> SUFFICES ASSUME UpInv, [Next]_vars, Healthy'
               PROVE  EmptyWhileWritten' /\ UpOrStopping' /\ \A q \in Requests : Progress(q)'
    BY StepKeepsRepair DEF UpInv
  <1>1. TypeInv /\ Healthy /\ ~(GatewayDies \/ LauncherKilled \/ HostRestart)
    BY StaysHealthy DEF UpInv, RepairInv, CourseInv, CatalogInv
  <1>2. CASE UNCHANGED vars
    BY <1>1, <1>2 DEF UpInv, vars, files, EmptyWhileWritten, UpOrStopping, Up, Stops,
       Progress, Phase
  <1>3. ASSUME NEW p \in Requests, Serve(p)
        PROVE  EmptyWhileWritten' /\ UpOrStopping' /\ \A q \in Requests : Progress(q)'
    BY <1>1, <1>3, ServeKeepsUp, ServeKeepsWriting, ServeKeepsProgress,
       ServeKeepsOthersProgress
  <1>4. ASSUME NEW op \in LaunchOps, Launch(op)
        PROVE  EmptyWhileWritten' /\ UpOrStopping' /\ \A q \in Requests : Progress(q)'
    <2>1. launch'.at # "idle" /\ UNCHANGED <<files, upf, req>>
      BY <1>4 DEF Launch, AtRest
    <2>2. UpOrStopping'
      BY <2>1 DEF UpOrStopping
    <2> QED
      BY <1>1, <2>1, <2>2 DEF UpInv, EmptyWhileWritten, Progress, Up, files
  <1> QED
    BY <1>1, <1>2, <1>3, <1>4, SubmitKeepsUp, LauncherKeepsUp DEF Next, Submit

LEMMA InitUp == Init => UpInv
  <1> SUFFICES ASSUME Init
               PROVE  EmptyWhileWritten /\ UpOrStopping /\ \A p \in Requests : Progress(p)
    BY InitRepair DEF UpInv
  <1>1. ~empty /\ ~gateway /\ \A p \in Requests : req[p].at = "idle"
    BY DEF Init, Idle
  <1> QED
    BY <1>1, ClaimsNothing, StepsAreApart DEF EmptyWhileWritten, UpOrStopping

(* Where no call fails and nothing dies, the UPFs of every slice recorded   *)
(* as running run, unless a lifecycle action on that very slice is under    *)
(* way: stop_slice, once it has stopped one, comes to record it.            *)
THEOREM RunningSlicesAreAlwaysUp ==
  ASSUME ~Overlapping
  PROVE  Spec => []RunningSlicesAreUp
  <1>1. UpInv => RunningSlicesAreUp
    <2> SUFFICES ASSUME UpInv, Healthy, gateway, launch.at = "idle",
                        NEW s \in Slices, Phase(catalog, s) = "running",
                        \A p \in Requests :
                          req[p].kind \in SliceActions => req[p].slice # s
                 PROVE  \A u \in UpfsOf(s) : upf[u] = "running"
      BY DEF RunningSlicesAreUp, Healthy
    <2>1. \A p \in Requests : ~Stops(p, s)
      BY DEF Stops, SliceActions
    <2> QED
      BY <2>1 DEF UpInv, UpOrStopping, Up
  <1>2. Spec => []UpInv
    BY InitUp, StepKeepsUp, PTL DEF Spec
  <1> QED
    BY <1>1, <1>2, PTL

-----------------------------------------------------------------------------
(***************************************************************************)
(* Locks.  That a lock is given back is checked by TLC (LocksAreReleased);  *)
(* what keeps it from being orphaned is an invariant: while nothing has     *)
(* died, each lock file is that of a request being served, which removes it *)
(* in the step that ends it.                                                *)
(***************************************************************************)
Holds(p, name) == req[p].lock = name /\ req[p].at # "idle"

LocksHaveHolders ==
  crashes = 0 => \A name \in locks : \E p \in Requests : Holds(p, name)

HolderInv == RepairInv /\ LocksHaveHolders

LEMMA ServeKeepsHolders ==
  ASSUME CourseInv, NEW p \in Requests, Serve(p), NEW name \in locks',
         NEW q \in Requests, Holds(q, name)
  PROVE  Holds(q, name)'
  <1>1. TypeInv /\ Sound(req[p]) /\ req \in [Requests -> Request]
    BY DEF CourseInv, CatalogInv, TypeInv, TypeOK
  <1>2. CASE q # p
    BY <1>1, <1>2, ServeLeavesOthers DEF Holds
  <1>3. CASE q = p
    <2>1. ~Leave(p)
      BY <1>3 DEF Leave, Holds
    <2>2. Moves(p)
      BY <1>1, <2>1, ServeMovesOrLeaves
    <2>3. req'[p].lock = req[p].lock
      BY <1>1, <2>2 DEF Moves
    <2>4. req'[p].at # "idle"
      <3>1. Admitted(p) => req'[p].at # "idle"
        BY <1>1, StepsAreApart DEF Admitted, Sound, SliceActions
      <3>2. Calling(p) => req'[p].at # "idle"
        BY DEF Calling, Calls
      <3> QED
        BY <1>1, <2>1, <3>1, <3>2, ServeShapes DEF Over, Rebuilds, Rebuilding, Advances,
           Prepares, Replaces, Aside, Elsewhere
    <2> QED
      BY <1>3, <2>3, <2>4 DEF Holds
  <1> QED
    BY <1>2, <1>3

LEMMA SubmitKeepsHolders ==
  ASSUME TypeInv, NEW p \in Requests, Submit(p), NEW name \in locks',
         name \in locks => \E q \in Requests : Holds(q, name)
  PROVE  \E q \in Requests : Holds(q, name)'
  <1>1. PICK new, r : /\ r.lock = new /\ r.at # "idle" /\ Accept(p, new, r)
    BY AcceptedIsSound
  <1>2. /\ req' = [req EXCEPT ![p] = r] /\ req \in [Requests -> Request]
        /\ locks' = locks \union {new} /\ req[p].at = "idle"
    BY <1>1 DEF Accept, TypeInv, TypeOK
  <1>3. CASE name = new
    BY <1>1, <1>2, <1>3 DEF Holds
  <1>4. CASE name \in locks
    BY <1>2, <1>4 DEF Holds
  <1> QED
    BY <1>2, <1>3, <1>4

LEMMA StepKeepsHolders ==
  ASSUME ~Overlapping
  PROVE  HolderInv /\ [Next]_vars => HolderInv'
  <1> SUFFICES ASSUME HolderInv, [Next]_vars, crashes' = 0, NEW name \in locks'
               PROVE  \E p \in Requests : Holds(p, name)'
    BY StepKeepsRepair DEF HolderInv, LocksHaveHolders
  <1>1. TypeInv /\ CourseInv /\ Alone /\ crashes \in Nat
    BY TypeInvByParts DEF HolderInv, RepairInv, CourseInv, CatalogInv, RestTyped
  <1>2. ASSUME crashes = 0, name \in locks
        PROVE  \E p \in Requests : Holds(p, name)
    BY <1>2 DEF HolderInv, LocksHaveHolders
  <1>3. CASE UNCHANGED vars
    BY <1>2, <1>3 DEF vars, counters, Holds
  <1>4. ASSUME NEW p \in Requests, Submit(p)
        PROVE  \E q \in Requests : Holds(q, name)'
    BY <1>1, <1>2, <1>4, SubmitFields, SubmitKeepsHolders
  <1>5. ASSUME NEW p \in Requests, Serve(p)
        PROVE  \E q \in Requests : Holds(q, name)'
    <2>1. name \in locks /\ crashes = 0
      BY <1>1, <1>5, ServeMovesOrLeaves, ServeLeavesOthers DEF Moves, Leave
    <2> QED
      BY <1>1, <1>2, <1>5, <2>1, ServeKeepsHolders
  <1>6. ASSUME NEW op \in LaunchOps, Launch(op)
        PROVE  \E q \in Requests : Holds(q, name)'
    BY <1>2, <1>6 DEF Launch, Holds
  <1>7. CASE LaunchStep
    <2>1. launch.at # "idle" /\ UNCHANGED counters
      BY <1>7 DEF LaunchStep, ComposeDown, ComposeStop, ComposeUpCore, TrafficReady,
         ListSlices, ReconcileUpf, Reconciled, TelemetryUp, LaunchRaises, ComposeRaises
    <2>2. req = NoRequests /\ req' = NoRequests /\ locks' = locks
      BY <1>1, <1>7, <2>1, LauncherLeavesFilesAlone DEF Alone, LauncherOrCrash
    <2> QED
      BY <1>2, <2>1, <2>2 DEF Holds, counters
  <1>8. ~(GatewayDies \/ LauncherKilled \/ HostRestart)
    BY <1>1 DEF GatewayDies, LauncherKilled, HostRestart, Crash
  <1> QED
    BY <1>3, <1>4, <1>5, <1>6, <1>7, <1>8 DEF Next, Submit

(* While nothing has died, every lock file is that of a request being       *)
(* served: TargetLock gives it back on every way out of the action.         *)
THEOREM LocksAlwaysHaveHolders ==
  ASSUME ~Overlapping
  PROVE  Spec => []LocksHaveHolders
  <1>1. Init => HolderInv
    BY InitRepair DEF Init, HolderInv, LocksHaveHolders
  <1>2. HolderInv => LocksHaveHolders
    BY DEF HolderInv
  <1> QED
    BY <1>1, <1>2, StepKeepsHolders, PTL DEF Spec
===============================================================================
