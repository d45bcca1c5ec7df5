-------------------------- MODULE LifecycleProofs --------------------------
(* What is proved of Lifecycle, for any number of files, backends,         *)
(* deletions, visitors, forms and failures.                                *)
EXTENDS Lifecycle, TLAPS

-----------------------------------------------------------------------------
(* The inductive invariant: what each task knows of the file in its hands. *)

\* Only files in S3 have replicas.
Rows == \A f \in File : row[f] \notin Backend => replicas[f] = {}

Held(d, f, at) == <<f, at>> \in del[d].todo \cup {<<del[d].file, del[d].at>>}

\* What a deletion read of a row stays true until the row goes, unless the
\* file is migrated meanwhile.
Holding ==
    \A d \in Deleter, f \in File \ crossed, at \in Place :
        Held(d, f, at) => row[f] \in {at, None}

Deleting(d) ==
    LET f == del[d].file IN
    /\ del[d].pc # "idle" => f \in File /\ del[d].at \in Place
    /\ del[d].pc \in {"list", "copies", "record"} => f \in begun
    /\ del[d].pc = "record" => f \notin disk
    /\ f \notin broken \cup crossed =>
           /\ del[d].pc = "list" => objects[f] \subseteq replicas[f] \cup Carried(f)
           /\ del[d].pc = "copies" => objects[f] \subseteq del[d].copies \cup Carried(f)
           /\ del[d].pc = "record" => objects[f] \subseteq Carried(f)

Deletions == \A d \in Deleter : Deleting(d)

\* A file the migration has not moved yet is local, or gone.
Unmoved == mig.todo \cup (IF mig.pc \in {"idle", "next", "local"} THEN {} ELSE {mig.file})

Migration ==
    /\ IF mig.pc \in {"idle", "next"} THEN mig.file = None ELSE mig.file \in File \ mig.todo
    /\ mig.pc \notin {"targets", "copies", "undo"} => mig.made = {}
    /\ mig.pc \in {"sending", "targets", "copies", "local"} => mig.at \in Backend
    /\ mig.pc \in {"targets", "copies"} =>
           /\ mig.at \in mig.made
           /\ mig.file \notin begun => mig.made \subseteq objects[mig.file]
    /\ \A f \in Unmoved : row[f] \in {Local, None}
    /\ mig.pc = "local" => row[mig.file] # Local

\* A visitor who looks for an object has the right place on the list.
Viewed(v) ==
    LET f == view[v].file
        at == view[v].at IN
    /\ view[v].pc # "idle" => f \in File /\ at \in Place
    /\ view[v].pc \in {"found", "probe"} /\ at \in Backend /\ f \notin begun => row[f] = at
    /\ view[v].pc = "open" => at = Local
    /\ view[v].pc = "probe" =>
           at \in Backend /\ (view[v].missed \/ f \in begun \/ at \in view[v].left)

Views == \A v \in Visitor : Viewed(v)

Core == Served /\ Accounted /\ Rows /\ Holding /\ Deletions /\ Migration
Visits == Views /\ TurnedAwayForCause
IInv == TypeOK /\ Core /\ Visits

core == <<row, replicas, disk, objects, del, mig, begun, crossed, broken>>

-----------------------------------------------------------------------------
(* What does not matter to a part of it.                                   *)

LEMMA CoreFrame == ASSUME Core, UNCHANGED core PROVE Core'
BY DEF Core, core, Served, Accounted, Carried, Rows, Holding, Held, Deletions, Deleting,
       Migration, Unmoved

\* Nothing brings a row back to the disk, and a row in S3 changes only when
\* its file is deleted.
LEMMA VisitsKept ==
    ASSUME Visits, view' = view, begun \subseteq begun',
           \A f \in File : /\ row[f] # Local => row'[f] # Local
                           /\ row[f] \in Backend => row'[f] = row[f] \/ f \in begun'
    PROVE  Visits'
<1>1. ASSUME NEW v \in Visitor PROVE Viewed(v)'
  BY <1>1, LocalAssumption, NoneAssumption DEF Visits, Views, Viewed, Place
<1>2. ASSUME NEW v \in Visitor, view'[v].pc = "gone"
      PROVE  \/ view'[v].file \in begun'
             \/ view'[v].missed
             \/ view'[v].at = Local /\ row'[view'[v].file] # Local
  <2>1. view[v].pc = "gone" /\ Viewed(v)
    BY <1>2 DEF Visits, Views
  <2>2. view[v].file \in File
    BY <2>1 DEF Viewed
  <2> QED
    BY <2>1, <2>2 DEF Visits, TurnedAwayForCause, Viewing
<1> QED
  BY <1>1, <1>2 DEF Visits, Views, TurnedAwayForCause, Viewing

-----------------------------------------------------------------------------
(* Deletions.                                                              *)

\* A step of deletion d that only changes what d has in hand.
LEMMA DeletionBooks ==
    ASSUME IInv, NEW d \in Deleter,
           UNCHANGED <<tables, stores, mig, view, history>>,
           del' \in [Deleter -> DelState],
           \A x \in Deleter \ {d} : del'[x] = del[x],
           \A f \in File, at \in Place : Held(d, f, at)' => Held(d, f, at) \/ at = row[f],
           Deleting(d)'
    PROVE  Core' /\ Visits'
<1>1. Served' /\ Accounted' /\ Rows' /\ Migration'
  BY DEF IInv, Core, tables, stores, history, Served, Accounted, Carried, Rows, Migration, Unmoved
<1>2. Holding'
  <2> SUFFICES ASSUME NEW x \in Deleter, NEW f \in File \ crossed, NEW at \in Place,
                      Held(x, f, at)'
               PROVE  row[f] \in {at, None}
    BY DEF Holding, tables, history
  <2>1. CASE x = d
    BY <2>1 DEF IInv, Core, Holding
  <2>2. CASE x # d
    BY <2>2 DEF IInv, Core, Holding, Held
  <2> QED
    BY <2>1, <2>2
<1>3. Deletions'
  <2> SUFFICES ASSUME NEW x \in Deleter, x # d PROVE Deleting(x)'
    BY DEF Deletions
  <2>1. del'[x] = del[x] /\ Deleting(x)
    BY DEF IInv, Core, Deletions
  <2> QED
    BY <2>1 DEF Deleting, Carried, tables, stores, history
<1>4. Visits'
  BY VisitsKept DEF IInv, tables, history
<1> QED
  BY <1>1, <1>2, <1>3, <1>4 DEF Core

LEMMA Counted ==
    ASSUME TypeOK
    PROVE  /\ Fault => faults' \in 0 .. MaxFaults
           /\ UseForm => forms' \in 0 .. MaxForms
BY BoundsAssumption DEF TypeOK, Fault, UseForm

LEMMA NextItemTyped ==
    ASSUME TypeOK, NEW d \in Deleter, NextItem(d)
    PROVE  /\ del' \in [Deleter -> DelState]
           /\ \A x \in Deleter \ {d} : del'[x] = del[x]
           /\ del'[d] = [NoDeletion EXCEPT !.todo = del[d].todo]
           /\ del'[d].pc = "idle" /\ del'[d].file = None
           /\ del'[d].todo = del[d].todo
<1>1. [NoDeletion EXCEPT !.todo = del[d].todo] \in DelState
  BY DEF TypeOK, DelState, DelPC, NoDeletion
<1>2. del \in [Deleter -> DelState]
  BY DEF TypeOK
<1> QED
  BY <1>1, <1>2 DEF NextItem, NoDeletion

\* A step of the books that puts the item <<f, at>> in hand.
LEMMA TakeItem ==
    ASSUME IInv, NEW d \in Deleter, NEW f \in File, NEW at \in Place,
           NEW kind \in {"cleanup", "bot", "panel"}, NEW todo \in SUBSET del[d].todo,
           Doing(d, "idle"), <<f, at>> \in del[d].todo \/ row[f] = at,
           UNCHANGED <<tables, stores, off, mig, view, history, counters>>,
           del' = [del EXCEPT ![d] = [InHand(d, f, at) EXCEPT !.todo = todo, !.kind = kind]]
    PROVE  IInv'
<1>0. del[d] \in DelState /\ todo \in SUBSET (File \X Place)
  BY DEF IInv, TypeOK, DelState
<1>1. [InHand(d, f, at) EXCEPT !.todo = todo, !.kind = kind] \in DelState
  BY <1>0 DEF InHand, DelState, DelPC
<1>2. /\ del' \in [Deleter -> DelState]
      /\ \A x \in Deleter \ {d} : del'[x] = del[x]
  BY <1>1 DEF IInv, TypeOK
<1>3. /\ del'[d].pc = "primary" /\ del'[d].file = f /\ del'[d].at = at
      /\ del'[d].todo = todo
  BY <1>1, <1>2 DEF IInv, TypeOK, InHand, DelState
<1>4. \A g \in File, b \in Place : Held(d, g, b)' => Held(d, g, b) \/ b = row[g]
  BY <1>3 DEF Held
<1>5. Deleting(d)'
  BY <1>3 DEF Deleting
<1>6. Core' /\ Visits'
  BY <1>2, <1>4, <1>5, DeletionBooks
<1>7. TypeOK'
  BY <1>2 DEF IInv, TypeOK, tables, stores, history, counters
<1> QED
  BY <1>6, <1>7 DEF IInv

LEMMA NextExpiredKeeps ==
    ASSUME IInv, NEW d \in Deleter, NEW f \in File, NEW at \in Place, NextExpired(d, f, at)
    PROVE  IInv'
<1> DEFINE todo == del[d].todo \ {<<f, at>>}
<1>1. InHand(d, f, at).todo = del[d].todo /\ InHand(d, f, at).kind = del[d].kind
  BY DEF IInv, TypeOK, InHand, DelState
<1>2. del[d].kind \in {"cleanup", "bot", "panel"}
  BY DEF IInv, TypeOK, DelState
<1>3. [InHand(d, f, at) EXCEPT !.todo = @ \ {<<f, at>>}]
      = [InHand(d, f, at) EXCEPT !.todo = todo, !.kind = del[d].kind]
  BY <1>1 DEF IInv, TypeOK, InHand, DelState
<1>4. todo \in SUBSET del[d].todo
  OBVIOUS
<1> HIDE DEF todo
<1> QED
  BY <1>2, <1>3, <1>4, TakeItem DEF NextExpired

LEMMA BeginDeletionKeeps ==
    ASSUME IInv, NEW d \in Deleter, NEW kind \in {"bot", "panel"}, NEW f \in File,
           BeginDeletion(d, kind, f)
    PROVE  IInv'
<1>1. row[f] \in Place
  BY DEF BeginDeletion, Registered, IInv, TypeOK
<1>2. [InHand(d, f, row[f]) EXCEPT !.kind = kind]
      = [InHand(d, f, row[f]) EXCEPT !.todo = del[d].todo, !.kind = kind]
  BY DEF IInv, TypeOK, InHand, DelState
<1> QED
  BY <1>1, <1>2, TakeItem DEF BeginDeletion

LEMMA BeginCleanupKeeps ==
    ASSUME IInv, NEW d \in Deleter, BeginCleanup(d)
    PROVE  IInv'
<1> DEFINE expired == {f \in File : Registered(f) /\ f \notin valid}
           todo == {<<f, row[f]>> : f \in expired}
<1>1. del' = [del EXCEPT ![d].todo = todo] /\ del[d].pc = "idle"
  BY DEF BeginCleanup, Doing
<1>2. todo \in SUBSET (File \X Place)
  BY DEF Registered, IInv, TypeOK
<1>3. \A f \in File, at \in Place : <<f, at>> \in todo => at = row[f]
  OBVIOUS
<1> HIDE DEF todo
<1>4. /\ del' \in [Deleter -> DelState]
      /\ \A x \in Deleter \ {d} : del'[x] = del[x]
  BY <1>1, <1>2 DEF IInv, TypeOK, DelState
<1>5. /\ del'[d].pc = "idle" /\ del'[d].file = del[d].file /\ del'[d].at = del[d].at
      /\ del'[d].todo = todo
  BY <1>1, <1>2 DEF IInv, TypeOK, DelState
<1>6. \A f \in File, at \in Place : Held(d, f, at)' => Held(d, f, at) \/ at = row[f]
  BY <1>3, <1>5 DEF Held
<1>7. Deleting(d)'
  BY <1>5 DEF Deleting
<1>8. Core' /\ Visits'
  BY <1>4, <1>6, <1>7, DeletionBooks DEF BeginCleanup
<1>9. TypeOK'
  BY <1>4 DEF IInv, TypeOK, BeginCleanup, tables, stores, history, counters
<1> QED
  BY <1>8, <1>9 DEF IInv

LEMMA DeletionFailsKeeps ==
    ASSUME IInv, NEW d \in Deleter, DeletionFails(d)
    PROVE  IInv'
<1>1. /\ del' \in [Deleter -> DelState]
      /\ \A x \in Deleter \ {d} : del'[x] = del[x]
      /\ del'[d].pc = "idle" /\ del'[d].file = None /\ del'[d].todo = del[d].todo
  BY NextItemTyped DEF IInv, DeletionFails
<1>2. \A f \in File, at \in Place : Held(d, f, at)' => Held(d, f, at) \/ at = row[f]
  BY <1>1, NoneAssumption DEF Held
<1>3. Deleting(d)'
  BY <1>1 DEF Deleting
<1>4. Core' /\ Visits'
  BY <1>1, <1>2, <1>3, DeletionBooks DEF DeletionFails
<1>5. TypeOK'
  BY <1>1, Counted DEF IInv, TypeOK, DeletionFails, tables, stores, history
<1> QED
  BY <1>4, <1>5 DEF IInv

\* The replicas listed are all there are: nothing adds any to a file whose
\* deletion began, unless it crosses a migration.
LEMMA ListCopiesKeeps ==
    ASSUME IInv, NEW d \in Deleter, ListCopies(d)
    PROVE  IInv'
<1>0. Deleting(d) /\ del[d].pc = "list" /\ del[d].file \in File
  BY DEF IInv, Core, Deletions, Deleting, ListCopies, Doing
<1> DEFINE f == del[d].file
<1>a. [del[d] EXCEPT !.pc = "copies", !.copies = replicas[f]] \in DelState
  <2>1. del[d] \in DelState /\ replicas[f] \in SUBSET Backend
    BY <1>0 DEF IInv, TypeOK
  <2> QED
    BY <2>1 DEF DelState, DelPC
<1>1. /\ del' \in [Deleter -> DelState]
      /\ \A x \in Deleter \ {d} : del'[x] = del[x]
      /\ del'[d] = [del[d] EXCEPT !.pc = "copies", !.copies = replicas[f]]
  BY <1>a DEF IInv, TypeOK, ListCopies
<1>2. /\ del'[d].pc = "copies" /\ del'[d].file = del[d].file /\ del'[d].at = del[d].at
      /\ del'[d].todo = del[d].todo /\ del'[d].copies = replicas[del[d].file]
  BY <1>1 DEF IInv, TypeOK, DelState
<1>3. \A g \in File, at \in Place : Held(d, g, at)' => Held(d, g, at) \/ at = row[g]
  BY <1>2 DEF Held
<1>4. Deleting(d)'
  <2>1. /\ objects' = objects /\ replicas' = replicas /\ disk' = disk /\ mig' = mig
        /\ begun' = begun /\ broken' = broken /\ crossed' = crossed
    BY DEF ListCopies, tables, stores, history
  <2>2. del[d].at \in Place /\ f \in begun
    BY <1>0 DEF Deleting
  <2>3. f \notin broken \cup crossed => objects[f] \subseteq replicas[f] \cup Carried(f)
    BY <1>0 DEF Deleting
  <2> QED
    BY <1>0, <1>2, <2>1, <2>2, <2>3 DEF Deleting, Carried
<1>5. Core' /\ Visits'
  BY <1>1, <1>3, <1>4, DeletionBooks DEF ListCopies
<1>6. TypeOK'
  BY <1>1 DEF IInv, TypeOK, ListCopies, tables, stores, history, counters
<1> QED
  BY <1>5, <1>6 DEF IInv

\* A step of deletion d that takes something of its file from the stores.
LEMMA DeletionTakes ==
    ASSUME IInv, NEW d \in Deleter, NEW f \in File,
           f = del[d].file, f \in begun', begun' = begun \cup {f},
           UNCHANGED <<tables, off, mig, view, crossed, broken, counters>>,
           disk' \in SUBSET disk, \A g \in File \ {f} : g \in disk => g \in disk',
           objects' \in [File -> SUBSET Backend], objects'[f] \subseteq objects[f],
           \A g \in File \ {f} : objects'[g] = objects[g],
           del' \in [Deleter -> DelState],
           \A x \in Deleter \ {d} : del'[x] = del[x],
           del'[d].todo = del[d].todo, del'[d].file = f, del'[d].at = del[d].at,
           Deleting(d)'
    PROVE  IInv'
<1>0. /\ row' = row /\ replicas' = replicas /\ mig' = mig /\ view' = view
      /\ crossed' = crossed /\ broken' = broken
  BY DEF tables
<1>1. TypeOK'
  BY DEF IInv, TypeOK, tables, counters
<1>2. Served'
  BY <1>0 DEF IInv, Core, Served
<1>3. Accounted'
  <2> SUFFICES ASSUME NEW g \in File
               PROVE  /\ g \notin broken \cup crossed =>
                             objects'[g] \subseteq {row[g]} \cup replicas[g] \cup Carried(g)
                      /\ g \in disk' => row[g] = Local
                            \/ (row[g] \in Backend /\ (mig.file = g \/ g \in broken))
    BY <1>0 DEF Accounted, Carried
  <2>1. objects'[g] \subseteq objects[g]
    OBVIOUS
  <2> QED
    BY <2>1 DEF IInv, Core, Accounted
<1>4. Rows'
  BY <1>0 DEF IInv, Core, Rows
<1>5. Holding'
  <2> SUFFICES ASSUME NEW x \in Deleter, NEW g \in File \ crossed, NEW at \in Place,
                      Held(x, g, at)'
               PROVE  row[g] \in {at, None}
    BY <1>0 DEF Holding
  <2>1. Held(x, g, at)
    BY DEF Held
  <2> QED
    BY <2>1 DEF IInv, Core, Holding
<1>6. Deletions'
  <2> SUFFICES ASSUME NEW x \in Deleter, x # d PROVE Deleting(x)'
    BY DEF Deletions
  <2>1. del'[x] = del[x] /\ Deleting(x)
    BY DEF IInv, Core, Deletions
  <2>2. del[x].file \in File => objects'[del[x].file] \subseteq objects[del[x].file]
    OBVIOUS
  <2>3. /\ del[x].pc # "idle" => del[x].file \in File /\ del[x].at \in Place
        /\ del[x].pc \in {"list", "copies", "record"} => del[x].file \in begun'
        /\ del[x].pc = "record" => del[x].file \notin disk'
    BY <2>1 DEF Deleting
  <2>4. del[x].pc # "idle" /\ del[x].file \notin broken \cup crossed =>
           /\ del[x].pc = "list" =>
                  objects'[del[x].file] \subseteq replicas[del[x].file] \cup Carried(del[x].file)
           /\ del[x].pc = "copies" =>
                  objects'[del[x].file] \subseteq del[x].copies \cup Carried(del[x].file)
           /\ del[x].pc = "record" => objects'[del[x].file] \subseteq Carried(del[x].file)
    <3> HIDE DEF IInv
    <3> QED
      BY <2>1, <2>2, <2>3 DEF Deleting
  <2> QED
    BY <1>0, <2>1, <2>3, <2>4 DEF Deleting, Carried
<1>7. Migration'
  BY <1>0 DEF IInv, Core, Migration, Unmoved
<1>8. Visits'
  BY <1>0, VisitsKept DEF IInv
<1> QED
  BY <1>1, <1>2, <1>3, <1>4, <1>5, <1>6, <1>7, <1>8 DEF IInv, Core

LEMMA RemoveTyped ==
    ASSUME TypeOK, NEW f \in File, NEW b, Remove(f, b)
    PROVE  /\ objects' \in [File -> SUBSET Backend]
           /\ objects'[f] = objects[f] \ {b}
           /\ \A g \in File \ {f} : objects'[g] = objects[g]
BY DEF TypeOK, Remove

\* What the row does not say is not in S3; what it says the deletion took.
LEMMA DeletePrimaryKeeps ==
    ASSUME IInv, NEW d \in Deleter, DeletePrimary(d)
    PROVE  IInv'
<1> DEFINE f == del[d].file
           at == del[d].at
<1>1. f \in File /\ at \in Place
  BY DEF IInv, Core, Deletions, Deleting, DeletePrimary, Doing
<1>2. /\ row' = row /\ replicas' = replicas /\ mig' = mig
      /\ crossed' = crossed /\ broken' = broken /\ begun' = begun \cup {f}
  BY DEF DeletePrimary, tables
<1>3. /\ objects' \in [File -> SUBSET Backend]
      /\ objects'[f] = objects[f] \ {at}
      /\ \A g \in File \ {f} : objects'[g] = objects[g]
  <2>1. CASE at \in Backend
    BY <1>1, <2>1, RemoveTyped DEF DeletePrimary, IInv
  <2>2. CASE at \notin Backend
    BY <1>1, <2>2 DEF DeletePrimary, IInv, TypeOK
  <2> QED
    BY <2>1, <2>2
<1>4. disk' \in SUBSET disk /\ \A g \in File \ {f} : g \in disk => g \in disk'
  BY DEF DeletePrimary
<1>5. /\ del' \in [Deleter -> DelState]
      /\ \A x \in Deleter \ {d} : del'[x] = del[x]
      /\ del'[d].todo = del[d].todo /\ del'[d].file = f /\ del'[d].at = at
      /\ del'[d].pc = "list"
  BY DEF IInv, TypeOK, DeletePrimary, DelState, DelPC
<1>6. Deleting(d)'
  <2>1. ASSUME f \notin broken \cup crossed
        PROVE  objects'[f] \subseteq replicas[f] \cup Carried(f)
    <3>1. row[f] \in {at, None}
      <4>1. Held(d, f, at)
        BY DEF Held
      <4> QED
        BY <1>1, <2>1, <4>1 DEF IInv, Core, Holding
    <3>2. objects[f] \subseteq {row[f]} \cup replicas[f] \cup Carried(f)
      BY <1>1, <2>1 DEF IInv, Core, Accounted
    <3>3. objects[f] \subseteq Backend /\ None \notin Backend
      BY <1>1, NoneAssumption DEF IInv, TypeOK, Place
    <3> QED
      BY <1>3, <3>1, <3>2, <3>3
  <2> QED
    BY <1>1, <1>2, <1>5, <2>1 DEF Deleting, Carried
<1> QED
  BY <1>1, <1>2, <1>3, <1>4, <1>5, <1>6, DeletionTakes DEF DeletePrimary

LEMMA DeleteCopyKeeps ==
    ASSUME IInv, NEW d \in Deleter, NEW b \in Backend, DeleteCopy(d, b)
    PROVE  IInv'
<1> DEFINE f == del[d].file
<1>1. Deleting(d) /\ del[d].pc = "copies" /\ f \in File /\ f \in begun
  BY DEF IInv, Core, Deletions, Deleting, DeleteCopy, Doing
<1>2. /\ row' = row /\ replicas' = replicas /\ mig' = mig /\ disk' = disk
      /\ crossed' = crossed /\ broken' = broken /\ begun' = begun
  BY DEF DeleteCopy, tables, history
<1>3. /\ objects' \in [File -> SUBSET Backend]
      /\ objects'[f] = objects[f] \ {b}
      /\ \A g \in File \ {f} : objects'[g] = objects[g]
  BY <1>1, RemoveTyped DEF DeleteCopy, IInv
<1>5. /\ del' \in [Deleter -> DelState]
      /\ \A x \in Deleter \ {d} : del'[x] = del[x]
      /\ del'[d].todo = del[d].todo /\ del'[d].file = f /\ del'[d].at = del[d].at
      /\ del'[d].pc = "copies" /\ del'[d].copies = del[d].copies \ {b}
  BY <1>1 DEF IInv, TypeOK, DeleteCopy, DelState, DelPC
<1>6. Deleting(d)'
  <2>1. f \notin broken \cup crossed => objects[f] \subseteq del[d].copies \cup Carried(f)
    BY <1>1 DEF Deleting
  <2>2. del[d].at \in Place
    BY <1>1 DEF Deleting
  <2> QED
    BY <1>1, <1>2, <1>3, <1>5, <2>1, <2>2 DEF Deleting, Carried
<1>7. /\ begun' = begun \cup {f} /\ f \in begun'
      /\ disk' \in SUBSET disk /\ \A g \in File \ {f} : g \in disk => g \in disk'
      /\ objects'[f] \subseteq objects[f]
      /\ UNCHANGED <<tables, off, mig, view, crossed, broken, counters>>
  BY <1>1, <1>2, <1>3 DEF DeleteCopy, history
<1> HIDE DEF f
<1>8. f = del[d].file
  BY DEF f
<1> QED
  BY <1>1, <1>3, <1>5, <1>6, <1>7, <1>8, DeletionTakes

LEMMA DeleteSpoolKeeps ==
    ASSUME IInv, NEW d \in Deleter, DeleteSpool(d)
    PROVE  IInv'
<1> DEFINE f == del[d].file
<1>1. Deleting(d) /\ del[d].pc = "copies" /\ f \in File /\ f \in begun /\ del[d].copies = {}
  BY DEF IInv, Core, Deletions, Deleting, DeleteSpool, Doing
<1>2. /\ row' = row /\ replicas' = replicas /\ mig' = mig /\ objects' = objects
      /\ crossed' = crossed /\ broken' = broken /\ begun' = begun /\ disk' = disk \ {f}
  BY DEF DeleteSpool, tables, history
<1>3. objects' \in [File -> SUBSET Backend]
  BY <1>2 DEF IInv, TypeOK
<1>5. /\ del' \in [Deleter -> DelState]
      /\ \A x \in Deleter \ {d} : del'[x] = del[x]
      /\ del'[d].todo = del[d].todo /\ del'[d].file = f /\ del'[d].at = del[d].at
      /\ del'[d].pc = "record"
  BY <1>1 DEF IInv, TypeOK, DeleteSpool, DelState, DelPC
<1>6. Deleting(d)'
  <2>1. f \notin broken \cup crossed => objects[f] \subseteq Carried(f)
    BY <1>1 DEF Deleting
  <2>2. del[d].at \in Place
    BY <1>1 DEF Deleting
  <2> QED
    BY <1>1, <1>2, <1>5, <2>1, <2>2 DEF Deleting, Carried
<1> QED
  BY <1>1, <1>2, <1>3, <1>5, <1>6, DeletionTakes DEF DeleteSpool, tables, history

LEMMA UnmovedInFile == ASSUME TypeOK, Migration PROVE Unmoved \subseteq File
BY DEF TypeOK, Migration, MigState, Unmoved

\* At the end of a deletion nothing of the file is left but what a migration
\* still has in its hands.
LEMMA DeleteRecordKeeps ==
    ASSUME IInv, NEW d \in Deleter, DeleteRecord(d)
    PROVE  IInv'
<1> DEFINE f == del[d].file
<1>1. Deleting(d) /\ del[d].pc = "record" /\ f \in File /\ f \in begun /\ f \notin disk
  BY DEF IInv, Core, Deletions, Deleting, DeleteRecord, Doing
<1>2. /\ mig' = mig /\ objects' = objects /\ disk' = disk /\ view' = view /\ valid' = valid
      /\ crossed' = crossed /\ broken' = broken /\ begun' = begun
  BY DEF DeleteRecord, stores, history
<1>3. /\ row' \in [File -> Place \cup {None}] /\ row'[f] = None
      /\ \A g \in File \ {f} : row'[g] = row[g]
  BY <1>1 DEF DeleteRecord, IInv, TypeOK
<1>4. /\ replicas' \in [File -> SUBSET Backend] /\ replicas'[f] = {}
      /\ \A g \in File \ {f} : replicas'[g] = replicas[g]
  BY <1>1 DEF DeleteRecord, IInv, TypeOK
<1>5. /\ del' \in [Deleter -> DelState]
      /\ \A x \in Deleter \ {d} : del'[x] = del[x]
      /\ del'[d].pc = "idle" /\ del'[d].file = None /\ del'[d].todo = del[d].todo
  BY NextItemTyped DEF IInv, DeleteRecord
<1>6. None \notin Place /\ None \notin Backend /\ None \notin File /\ None # Local
  BY NoneAssumption DEF Place
<1>7. f \notin broken \cup crossed => objects[f] \subseteq Carried(f)
  BY <1>1 DEF Deleting
<1> HIDE DEF f
<1>10. TypeOK'
  BY <1>2, <1>3, <1>4, <1>5 DEF IInv, TypeOK, DeleteRecord, counters
<1>11. Served'
  BY <1>1, <1>2, <1>3, <1>4, <1>6 DEF IInv, Core, Served, Place
<1>12. Accounted'
  <2> SUFFICES ASSUME NEW g \in File
               PROVE  /\ g \notin broken \cup crossed =>
                             objects[g] \subseteq {row'[g]} \cup replicas'[g] \cup Carried(g)
                      /\ g \in disk => row'[g] = Local
                            \/ (row'[g] \in Backend /\ (mig.file = g \/ g \in broken))
    BY <1>2 DEF Accounted, Carried
  <2>1. CASE g = f
    BY <1>1, <1>7, <2>1
  <2>2. CASE g # f
    BY <1>3, <1>4, <2>2 DEF IInv, Core, Accounted
  <2> QED
    BY <2>1, <2>2
<1>13. Rows'
  BY <1>3, <1>4 DEF IInv, Core, Rows
<1>14. Holding'
  <2> SUFFICES ASSUME NEW x \in Deleter, NEW g \in File \ crossed, NEW at \in Place,
                      Held(x, g, at)'
               PROVE  row'[g] \in {at, None}
    BY <1>2 DEF Holding
  <2>1. Held(x, g, at)
    BY <1>5, <1>6 DEF Held
  <2> QED
    BY <1>3, <2>1 DEF IInv, Core, Holding
<1>15. Deletions'
  <2> SUFFICES ASSUME NEW x \in Deleter PROVE Deleting(x)'
    BY DEF Deletions
  <2>1. CASE x = d
    BY <1>5, <2>1 DEF Deleting
  <2>2. CASE x # d
    <3> DEFINE g == del[x].file
    <3>1. del'[x] = del[x] /\ Deleting(x)
      BY <1>5, <2>2 DEF IInv, Core, Deletions
    <3>2. del[x].pc = "list" /\ g \notin broken \cup crossed =>
              objects[g] \subseteq replicas'[g] \cup Carried(g)
      BY <1>4, <1>7, <3>1 DEF Deleting
    <3> QED
      BY <1>2, <3>1, <3>2 DEF Deleting, Carried
  <2> QED
    BY <2>1, <2>2
<1>16. Migration'
  <2>2. \A g \in Unmoved : g \in File
    BY UnmovedInFile DEF IInv, Core
  <2>3. \A g \in File : /\ row[g] \in {Local, None} => row'[g] \in {Local, None}
                        /\ row[g] # Local => row'[g] # Local
    BY <1>3, <1>6
  <2>4. Unmoved' = Unmoved
    BY <1>2 DEF Unmoved
  <2>5. \A g \in Unmoved' : row'[g] \in {Local, None}
    BY <2>2, <2>3, <2>4 DEF IInv, Core, Migration
  <2>6. mig.pc = "local" => mig.file \in File /\ row[mig.file] # Local
    BY DEF IInv, Core, Migration
  <2> QED
    BY <1>2, <2>3, <2>5, <2>6 DEF IInv, Core, Migration
<1>17. Visits'
  <2>1. \A g \in File : /\ row[g] # Local => row'[g] # Local
                        /\ row[g] \in Backend => row'[g] = row[g] \/ g \in begun'
    BY <1>1, <1>2, <1>3, <1>6 DEF Place
  <2> QED
    BY <1>2, <2>1, VisitsKept DEF IInv
<1> QED
  BY <1>10, <1>11, <1>12, <1>13, <1>14, <1>15, <1>16, <1>17 DEF IInv, Core

-----------------------------------------------------------------------------
(* The migration.                                                          *)

\* A step of the migration that only changes what it has in hand, and so
\* cannot let go of what it made.
LEMMA MigrationBooks ==
    ASSUME IInv, UNCHANGED <<tables, stores, off, del, view, history, forms>>,
           mig' \in MigState, Migration', faults' \in 0 .. MaxFaults,
           \A f \in File : Carried(f)' = Carried(f),
           \A f \in File : mig.file = f /\ mig'.file # f => row[f] \notin Backend
    PROVE  IInv'
<1>0. /\ row' = row /\ replicas' = replicas /\ objects' = objects /\ disk' = disk
      /\ view' = view /\ del' = del /\ crossed' = crossed /\ broken' = broken
      /\ begun' = begun
  BY DEF tables, stores, history
<1>1. TypeOK'
  BY DEF IInv, TypeOK, tables, stores, history
<1>2. Served' /\ Rows' /\ Holding'
  BY <1>0 DEF IInv, Core, Served, Rows, Holding, Held
<1>3. Accounted'
  <2> SUFFICES ASSUME NEW g \in File
               PROVE  /\ g \notin broken \cup crossed =>
                             objects[g] \subseteq {row[g]} \cup replicas[g] \cup Carried(g)'
                      /\ g \in disk => row[g] = Local
                            \/ (row[g] \in Backend /\ (mig'.file = g \/ g \in broken))
    BY <1>0 DEF Accounted
  <2> QED
    BY DEF IInv, Core, Accounted
<1>4. Deletions'
  <2> SUFFICES ASSUME NEW x \in Deleter PROVE Deleting(x)'
    BY DEF Deletions
  <2>1. Deleting(x) /\ del'[x] = del[x]
    BY <1>0 DEF IInv, Core, Deletions
  <2> QED
    BY <1>0, <2>1 DEF Deleting
<1>5. Visits'
  BY <1>0, VisitsKept DEF IInv
<1> QED
  BY <1>1, <1>2, <1>3, <1>4, <1>5 DEF IInv, Core

LEMMA NoMigrationTyped == NoMigration \in MigState
BY DEF NoMigration, MigState, MigPC

\* The migration goes on to the next file with nothing in its hands.
LEMMA NextFileTyped ==
    ASSUME TypeOK, NextFile
    PROVE  /\ mig' \in MigState
           /\ mig'.pc = "next" /\ mig'.todo = mig.todo /\ mig'.file = None /\ mig'.made = {}
<1>1. mig.todo \in SUBSET File
  BY DEF TypeOK, MigState
<1> QED
  BY <1>1, NoMigrationTyped DEF NextFile, NoMigration, MigState, MigPC

LEMMA NextFileKeeps ==
    ASSUME IInv, NextFile, UNCHANGED <<tables, stores, off, del, view, history, counters>>,
           mig.made = {}, mig.file \in Unmoved
    PROVE  IInv'
<1>1. /\ mig' \in MigState
      /\ mig'.pc = "next" /\ mig'.todo = mig.todo /\ mig'.file = None /\ mig'.made = {}
  BY NextFileTyped DEF IInv
<1>2. Migration'
  BY <1>1 DEF IInv, Core, Migration, Unmoved, tables
<1>3. \A f \in File : Carried(f)' = Carried(f)
  BY <1>1 DEF Carried
<1>4. row[mig.file] \notin Backend
  BY LocalAssumption, NoneAssumption DEF IInv, Core, Migration, Place
<1>5. faults' \in 0 .. MaxFaults
  BY DEF IInv, TypeOK, counters
<1> QED
  BY <1>1, <1>2, <1>3, <1>4, <1>5, MigrationBooks DEF counters

LEMMA BeginMigrationKeeps == ASSUME IInv, BeginMigration PROVE IInv'
<1> DEFINE todo == {f \in valid : row[f] = Local}
<1>1. mig.pc = "idle" /\ mig' = [NoMigration EXCEPT !.pc = "next", !.todo = todo]
  BY DEF BeginMigration, Moving
<1>2. todo \in SUBSET File /\ \A f \in todo : row[f] = Local
  BY DEF IInv, TypeOK
<1> HIDE DEF todo
<1>3. /\ mig' \in MigState
      /\ mig'.pc = "next" /\ mig'.todo = todo /\ mig'.file = None /\ mig'.made = {}
  BY <1>1, <1>2, NoMigrationTyped DEF NoMigration, MigState, MigPC
<1>4. mig.file = None /\ mig.made = {}
  BY <1>1 DEF IInv, Core, Migration
<1>5. Migration'
  BY <1>2, <1>3 DEF Migration, Unmoved, BeginMigration, tables
<1>6. \A f \in File : Carried(f)' = Carried(f)
  BY <1>3, <1>4 DEF Carried
<1>7. faults' \in 0 .. MaxFaults
  BY DEF IInv, TypeOK, counters, BeginMigration
<1> QED
  BY <1>3, <1>4, <1>5, <1>6, <1>7, NoneAssumption, MigrationBooks DEF BeginMigration, counters

LEMMA EndMigrationKeeps == ASSUME IInv, EndMigration PROVE IInv'
<1>1. mig.pc = "next" /\ mig' = NoMigration
  BY DEF EndMigration, Moving
<1>2. mig.file = None /\ mig.made = {}
  BY <1>1 DEF IInv, Core, Migration
<1>3. Migration'
  BY <1>1 DEF Migration, Unmoved, NoMigration
<1>4. \A f \in File : Carried(f)' = Carried(f)
  BY <1>1, <1>2 DEF Carried, NoMigration
<1>5. faults' \in 0 .. MaxFaults
  BY DEF IInv, TypeOK, counters, EndMigration
<1> QED
  BY <1>1, <1>2, <1>3, <1>4, <1>5, NoMigrationTyped, NoneAssumption, MigrationBooks
     DEF EndMigration, counters

LEMMA PickFileKeeps == ASSUME IInv, NEW f \in File, PickFile(f) PROVE IInv'
<1>1. mig.pc = "next" /\ f \in mig.todo /\ row[f] \in {Local, None}
  BY DEF PickFile, Moving, IInv, Core, Migration, Unmoved
<1>2. mig \in MigState /\ mig.file = None /\ mig.made = {}
  BY <1>1 DEF IInv, TypeOK, Core, Migration
<1>3. faults' \in 0 .. MaxFaults /\ row' = row
  BY DEF IInv, TypeOK, counters, PickFile, tables
<1>4. CASE f \in disk
  <2>2. /\ mig' \in MigState
        /\ mig'.pc = "choose" /\ mig'.todo = mig.todo \ {f} /\ mig'.file = f /\ mig'.made = {}
    BY <1>2, <1>4 DEF MigState, MigPC, PickFile
  <2>3. Migration'
    BY <1>1, <1>3, <2>2 DEF IInv, Core, Migration, Unmoved
  <2>4. \A g \in File : Carried(g)' = Carried(g)
    BY <1>2, <2>2 DEF Carried
  <2> QED
    BY <1>2, <1>3, <2>2, <2>3, <2>4, NoneAssumption, MigrationBooks DEF PickFile, counters
<1>5. CASE f \notin disk
  <2>2. /\ mig' \in MigState
        /\ mig'.pc = "next" /\ mig'.todo = mig.todo \ {f} /\ mig'.file = None /\ mig'.made = {}
    BY <1>1, <1>2, <1>5 DEF MigState, MigPC, PickFile
  <2>3. Migration'
    BY <1>1, <1>3, <2>2 DEF IInv, Core, Migration, Unmoved
  <2>4. \A g \in File : Carried(g)' = Carried(g)
    BY <1>2, <2>2 DEF Carried
  <2> QED
    BY <1>2, <1>3, <2>2, <2>3, <2>4, NoneAssumption, MigrationBooks DEF PickFile, counters
<1> QED
  BY <1>4, <1>5

LEMMA FindCandidatesKeeps == ASSUME IInv, FindCandidates PROVE IInv'
<1>1. mig.pc = "choose" /\ mig \in MigState /\ mig.made = {}
  BY DEF FindCandidates, Moving, IInv, TypeOK, Core, Migration
<1>2. PICK C \in SUBSET Backend : mig' = [mig EXCEPT !.pc = "upload", !.left = C]
  BY DEF FindCandidates
<1>3. /\ mig' \in MigState
      /\ mig'.pc = "upload" /\ mig'.todo = mig.todo /\ mig'.file = mig.file
      /\ mig'.made = mig.made
  BY <1>1, <1>2 DEF MigState, MigPC
<1>4. faults' \in 0 .. MaxFaults /\ row' = row
  BY DEF IInv, TypeOK, counters, FindCandidates, tables
<1>5. Migration'
  BY <1>1, <1>3, <1>4 DEF IInv, Core, Migration, Unmoved
<1>6. \A g \in File : Carried(g)' = Carried(g)
  BY <1>3 DEF Carried
<1> QED
  BY <1>3, <1>4, <1>5, <1>6, MigrationBooks DEF FindCandidates, counters

LEMMA SendToKeeps == ASSUME IInv, NEW b \in Backend, SendTo(b) PROVE IInv'
<1>1. mig.pc = "upload" /\ mig \in MigState /\ mig.made = {}
  BY DEF SendTo, Moving, IInv, TypeOK, Core, Migration
<1>2. /\ mig' \in MigState
      /\ mig'.pc = "sending" /\ mig'.todo = mig.todo /\ mig'.file = mig.file
      /\ mig'.made = mig.made /\ mig'.at = b
  BY <1>1 DEF SendTo, MigState, MigPC
<1>3. faults' \in 0 .. MaxFaults /\ row' = row
  BY DEF IInv, TypeOK, counters, SendTo, tables
<1>4. Migration'
  BY <1>1, <1>2, <1>3 DEF IInv, Core, Migration, Unmoved
<1>5. \A g \in File : Carried(g)' = Carried(g)
  BY <1>2 DEF Carried
<1> QED
  BY <1>2, <1>3, <1>4, <1>5, MigrationBooks DEF SendTo, counters

LEMMA GiveUpKeeps == ASSUME IInv, GiveUp PROVE IInv'
<1>1. mig.made = {} /\ mig.file \in Unmoved
  BY DEF GiveUp, Moving, IInv, Core, Migration, Unmoved
<1> QED
  BY <1>1, NextFileKeeps DEF GiveUp

LEMMA EndUndoKeeps == ASSUME IInv, EndUndo PROVE IInv'
<1>1. mig.made = {} /\ mig.file \in Unmoved
  BY DEF EndUndo, Moving, Unmoved
<1> QED
  BY <1>1, NextFileKeeps DEF EndUndo

\* From the replicas' targets on the migration keeps what it made until the
\* row is changed.
LEMMA GoOn ==
    ASSUME IInv, NEW pc \in {"copies", "undo"}, mig.pc \in {"targets", "copies"},
           UNCHANGED <<tables, stores, off, del, view, history, forms>>,
           faults' \in 0 .. MaxFaults,
           mig' \in MigState, mig'.pc = pc, mig'.todo = mig.todo, mig'.file = mig.file,
           mig'.at = mig.at, mig'.made = mig.made
    PROVE  IInv'
<1>1. row' = row /\ objects' = objects /\ begun' = begun
  BY DEF tables, stores, history
<1>2. Migration'
  BY <1>1 DEF IInv, Core, Migration, Unmoved
<1>3. \A g \in File : Carried(g)' = Carried(g)
  BY DEF Carried
<1> QED
  BY <1>2, <1>3, MigrationBooks

LEMMA ChooseTargetsKeeps == ASSUME IInv, ChooseTargets PROVE IInv'
<1>1. mig.pc = "targets" /\ mig \in MigState
  BY DEF ChooseTargets, Moving, IInv, TypeOK
<1>2. faults' \in 0 .. MaxFaults
  BY DEF IInv, TypeOK, counters, ChooseTargets
<1>3. CASE mig.file \in disk
  <2>1. PICK T \in SUBSET Backend : mig' = [mig EXCEPT !.pc = "copies", !.targets = T]
    BY <1>3 DEF ChooseTargets
  <2>2. /\ mig' \in MigState
        /\ mig'.pc = "copies" /\ mig'.todo = mig.todo /\ mig'.file = mig.file
        /\ mig'.at = mig.at /\ mig'.made = mig.made
    BY <1>1, <2>1 DEF MigState, MigPC
  <2> QED
    BY <1>1, <1>2, <2>2, GoOn DEF ChooseTargets, counters
<1>4. CASE mig.file \notin disk
  <2>2. /\ mig' \in MigState
        /\ mig'.pc = "undo" /\ mig'.todo = mig.todo /\ mig'.file = mig.file
        /\ mig'.at = mig.at /\ mig'.made = mig.made
    BY <1>1, <1>4 DEF MigState, MigPC, ChooseTargets
  <2> QED
    BY <1>1, <1>2, <2>2, GoOn DEF ChooseTargets, counters
<1> QED
  BY <1>3, <1>4

LEMMA MarkFailsKeeps == ASSUME IInv, MarkFails PROVE IInv'
<1>1. mig.pc = "copies" /\ mig \in MigState
  BY DEF MarkFails, Moving, IInv, TypeOK
<1>2. faults' \in 0 .. MaxFaults
  BY Counted DEF IInv, MarkFails
<1>3. /\ mig' \in MigState
      /\ mig'.pc = "undo" /\ mig'.todo = mig.todo /\ mig'.file = mig.file
      /\ mig'.at = mig.at /\ mig'.made = mig.made
  BY <1>1 DEF MigState, MigPC, MarkFails
<1> QED
  BY <1>1, <1>2, <1>3, GoOn DEF MarkFails

\* A step of the migration that changes the objects of its file and keeps
\* account of what it made.
LEMMA MigrationStores ==
    ASSUME IInv, NEW f \in File, f = mig.file, mig'.file = f, f \in Unmoved,
           UNCHANGED <<tables, disk, off, del, view, begun, crossed, forms>>,
           broken' \in SUBSET File, broken \subseteq broken',
           objects' \in [File -> SUBSET Backend],
           \A g \in File \ {f} : objects'[g] = objects[g],
           \/ f \in broken'
           \/ \A c \in objects'[f] : c \in mig'.made \/ (c \in objects[f] /\ c \notin mig.made),
           faults' \in 0 .. MaxFaults, mig' \in MigState, Migration'
    PROVE  IInv'
<1>0. /\ row' = row /\ replicas' = replicas /\ disk' = disk
      /\ view' = view /\ del' = del /\ crossed' = crossed /\ begun' = begun
  BY DEF tables
<1>1. TypeOK'
  BY <1>0 DEF IInv, TypeOK, tables
<1>2. row[f] \in {Local, None} /\ row[f] \notin Backend
  BY LocalAssumption, NoneAssumption DEF IInv, Core, Migration, Place
<1>3. Served'
  BY <1>0, <1>2 DEF IInv, Core, Served
<1>4. Rows' /\ Holding'
  BY <1>0 DEF IInv, Core, Rows, Holding, Held
<1>5. ASSUME NEW g \in File, NEW S, g \notin broken' \cup crossed,
             g \notin broken \cup crossed => objects[g] \subseteq S \cup Carried(g)
      PROVE  objects'[g] \subseteq S \cup Carried(g)'
  <2>1. CASE g = f
    BY <1>5, <2>1 DEF Carried
  <2>2. CASE g # f
    BY <1>5, <2>2 DEF Carried
  <2> QED
    BY <2>1, <2>2
<1>6. Accounted'
  <2> SUFFICES ASSUME NEW g \in File
               PROVE  /\ g \notin broken' \cup crossed =>
                             objects'[g] \subseteq ({row[g]} \cup replicas[g]) \cup Carried(g)'
                      /\ g \in disk => row[g] = Local
                            \/ (row[g] \in Backend /\ (mig'.file = g \/ g \in broken'))
    BY <1>0 DEF Accounted
  <2>1. g \notin broken \cup crossed =>
            objects[g] \subseteq ({row[g]} \cup replicas[g]) \cup Carried(g)
    BY DEF IInv, Core, Accounted
  <2>2. g \in disk => row[g] = Local \/ (row[g] \in Backend /\ (mig.file = g \/ g \in broken))
    BY DEF IInv, Core, Accounted
  <2> QED
    BY <1>5, <2>1, <2>2
<1>7. Deletions'
  <2> SUFFICES ASSUME NEW x \in Deleter PROVE Deleting(x)'
    BY DEF Deletions
  <2> DEFINE g == del[x].file
  <2>1. Deleting(x)
    BY DEF IInv, Core, Deletions
  <2>2. /\ del[x].pc # "idle" => g \in File /\ del[x].at \in Place
        /\ del[x].pc \in {"list", "copies", "record"} => g \in begun
        /\ del[x].pc = "record" => g \notin disk
    BY <2>1 DEF Deleting
  <2>3. ASSUME del[x].pc = "list", g \notin broken' \cup crossed
        PROVE  objects'[g] \subseteq replicas[g] \cup Carried(g)'
    BY <1>5, <2>1, <2>2, <2>3 DEF Deleting
  <2>4. ASSUME del[x].pc = "copies", g \notin broken' \cup crossed
        PROVE  objects'[g] \subseteq del[x].copies \cup Carried(g)'
    BY <1>5, <2>1, <2>2, <2>4 DEF Deleting
  <2>5. ASSUME del[x].pc = "record", g \notin broken' \cup crossed
        PROVE  objects'[g] \subseteq Carried(g)'
    <3>1. objects'[g] \subseteq {} \cup Carried(g)'
      BY <1>5, <2>1, <2>2, <2>5 DEF Deleting
    <3> QED
      BY <3>1
  <2> QED
    BY <1>0, <2>2, <2>3, <2>4, <2>5 DEF Deleting
<1>8. Visits'
  BY <1>0, VisitsKept DEF IInv
<1> QED
  BY <1>1, <1>3, <1>4, <1>6, <1>7, <1>8 DEF IInv, Core

LEMMA StoreTyped ==
    ASSUME TypeOK, NEW f \in File, NEW b \in Backend, Store(f, b)
    PROVE  /\ objects' \in [File -> SUBSET Backend]
           /\ objects'[f] = objects[f] \cup {b}
           /\ \A g \in File \ {f} : objects'[g] = objects[g]
BY DEF TypeOK, Store

\* The file a transfer is about.
LEMMA InTransfer ==
    ASSUME IInv, mig.pc \in {"sending", "copies", "undo"}
    PROVE  /\ mig \in MigState /\ mig.file \in File \ mig.todo /\ mig.file \in Unmoved
           /\ objects \in [File -> SUBSET Backend] /\ broken \in SUBSET File
BY DEF IInv, TypeOK, Core, Migration, Unmoved

LEMMA SentKeeps == ASSUME IInv, Sent PROVE IInv'
<1>1. mig.pc = "sending"
  BY DEF Sent, Moving
<1>2. mig.at \in Backend /\ mig.made = {}
  BY <1>1 DEF IInv, Core, Migration
<1>3. /\ mig' \in MigState
      /\ mig'.pc = "targets" /\ mig'.todo = mig.todo /\ mig'.file = mig.file
      /\ mig'.at = mig.at /\ mig'.made = {mig.at}
  BY <1>1, <1>2, InTransfer DEF Sent, MigState, MigPC
<1>4. /\ objects' \in [File -> SUBSET Backend]
      /\ objects'[mig.file] = objects[mig.file] \cup {mig.at}
      /\ \A g \in File \ {mig.file} : objects'[g] = objects[g]
  BY <1>1, <1>2, InTransfer, StoreTyped DEF Sent, IInv
<1>5. row' = row /\ begun' = begun /\ broken' = broken /\ faults' = faults
  BY DEF Sent, tables, history, counters
<1>6. Migration'
  BY <1>1, <1>2, <1>3, <1>4, <1>5, InTransfer DEF IInv, Core, Migration, Unmoved
<1>7. faults' \in 0 .. MaxFaults
  BY <1>5 DEF IInv, TypeOK
<1> QED
  BY <1>1, <1>2, <1>3, <1>4, <1>5, <1>6, <1>7, InTransfer, MigrationStores
     DEF Sent, history, counters

\* A transfer to b that fails leaves the object, if any, to a broken migration.
LEMMA TransferFailed ==
    ASSUME TypeOK, NEW b \in Backend, mig.file \in File,
           TransferFails(b) \/ (b \in off /\ UNCHANGED <<objects, broken, faults>>)
    PROVE  /\ objects' \in [File -> SUBSET Backend]
           /\ \A g \in File \ {mig.file} : objects'[g] = objects[g]
           /\ mig.file \in broken' \/ objects' = objects
           /\ objects[mig.file] \subseteq objects'[mig.file]
           /\ broken' \in SUBSET File /\ broken \subseteq broken'
           /\ faults' \in 0 .. MaxFaults
<1>0. objects \in [File -> SUBSET Backend] /\ broken \in SUBSET File /\ faults \in 0 .. MaxFaults
  BY DEF TypeOK
<1>1. CASE UNCHANGED <<objects, broken>> /\ (Fault \/ UNCHANGED faults)
  BY <1>0, <1>1, Counted
<1>2. CASE Fault /\ Store(mig.file, b) /\ Break
  BY <1>0, <1>2, Counted, StoreTyped DEF Break
<1> QED
  BY <1>1, <1>2 DEF TransferFails

LEMMA SendFailsKeeps == ASSUME IInv, SendFails PROVE IInv'
<1>1. mig.pc = "sending"
  BY DEF SendFails, Moving
<1>2. mig.at \in Backend /\ mig.made = {} /\ mig.file \in File
  BY <1>1 DEF IInv, Core, Migration
<1>3. /\ mig' \in MigState
      /\ mig'.pc = "upload" /\ mig'.todo = mig.todo /\ mig'.file = mig.file
      /\ mig'.made = {}
  BY <1>1, <1>2, InTransfer DEF SendFails, MigState, MigPC
<1>4. /\ objects' \in [File -> SUBSET Backend]
      /\ \A g \in File \ {mig.file} : objects'[g] = objects[g]
      /\ mig.file \in broken' \/ objects' = objects
      /\ broken' \in SUBSET File /\ broken \subseteq broken'
      /\ faults' \in 0 .. MaxFaults
  BY <1>2, TransferFailed DEF SendFails, IInv
<1>5. row' = row /\ begun' = begun
  BY DEF SendFails, tables
<1>6. Migration'
  BY <1>1, <1>3, <1>5, InTransfer DEF IInv, Core, Migration, Unmoved
<1> QED
  BY <1>1, <1>2, <1>3, <1>4, <1>6, InTransfer, MigrationStores DEF SendFails

LEMMA CopySentKeeps == ASSUME IInv, NEW b \in Backend, CopySent(b) PROVE IInv'
<1>1. mig.pc = "copies" /\ mig.file \in File
  BY DEF CopySent, Moving, IInv, Core, Migration
<1>2. /\ mig' \in MigState
      /\ mig'.pc = "copies" /\ mig'.todo = mig.todo /\ mig'.file = mig.file
      /\ mig'.at = mig.at /\ mig'.made = mig.made \cup {b}
  BY <1>1, InTransfer DEF CopySent, MigState, MigPC
<1>3. /\ objects' \in [File -> SUBSET Backend]
      /\ objects'[mig.file] = objects[mig.file] \cup {b}
      /\ \A g \in File \ {mig.file} : objects'[g] = objects[g]
  BY <1>1, StoreTyped DEF CopySent, IInv
<1>4. row' = row /\ begun' = begun /\ broken' = broken /\ faults' = faults
  BY DEF CopySent, tables, history, counters
<1>5. Migration'
  BY <1>1, <1>2, <1>3, <1>4, InTransfer DEF IInv, Core, Migration, Unmoved
<1>6. faults' \in 0 .. MaxFaults
  BY <1>4 DEF IInv, TypeOK
<1> QED
  BY <1>1, <1>2, <1>3, <1>4, <1>5, <1>6, InTransfer, MigrationStores
     DEF CopySent, history, counters

LEMMA CopyFailsKeeps == ASSUME IInv, NEW b \in Backend, CopyFails(b) PROVE IInv'
<1>1. mig.pc = "copies" /\ mig.file \in File
  BY DEF CopyFails, Moving, IInv, Core, Migration
<1>2. /\ mig' \in MigState
      /\ mig'.pc = "copies" /\ mig'.todo = mig.todo /\ mig'.file = mig.file
      /\ mig'.at = mig.at /\ mig'.made = mig.made
  BY <1>1, InTransfer DEF CopyFails, MigState, MigPC
<1>3. /\ objects' \in [File -> SUBSET Backend]
      /\ \A g \in File \ {mig.file} : objects'[g] = objects[g]
      /\ mig.file \in broken' \/ objects' = objects
      /\ objects[mig.file] \subseteq objects'[mig.file]
      /\ broken' \in SUBSET File /\ broken \subseteq broken'
      /\ faults' \in 0 .. MaxFaults
  BY <1>1, TransferFailed DEF CopyFails, IInv
<1>4. row' = row /\ begun' = begun
  BY DEF CopyFails, tables
<1>5. Migration'
  BY <1>1, <1>2, <1>3, <1>4, InTransfer DEF IInv, Core, Migration, Unmoved
<1> QED
  BY <1>1, <1>2, <1>3, <1>5, InTransfer, MigrationStores DEF CopyFails

LEMMA UndoUploadKeeps == ASSUME IInv, NEW b \in Backend, UndoUpload(b) PROVE IInv'
<1>1. mig.pc = "undo" /\ mig.file \in File
  BY DEF UndoUpload, Moving, IInv, Core, Migration
<1>2. /\ mig' \in MigState
      /\ mig'.pc = "undo" /\ mig'.todo = mig.todo /\ mig'.file = mig.file
      /\ mig'.made = mig.made \ {b}
  BY <1>1, InTransfer DEF UndoUpload, MigState, MigPC
<1>3. /\ objects' \in [File -> SUBSET Backend]
      /\ \A g \in File \ {mig.file} : objects'[g] = objects[g]
      /\ mig.file \in broken' \/ objects'[mig.file] = objects[mig.file] \ {b}
      /\ broken' \in SUBSET File /\ broken \subseteq broken'
      /\ faults' \in 0 .. MaxFaults
  <2>1. CASE Remove(mig.file, b) /\ UNCHANGED <<broken, faults>>
    BY <1>1, <2>1, InTransfer, RemoveTyped DEF IInv, TypeOK
  <2>2. CASE Fault /\ Break /\ UNCHANGED objects
    BY <1>1, <2>2, InTransfer, Counted DEF IInv, Break
  <2> QED
    BY <2>1, <2>2 DEF UndoUpload
<1>4. row' = row
  BY DEF UndoUpload, tables
<1>5. Migration'
  BY <1>1, <1>2, <1>4, InTransfer DEF IInv, Core, Migration, Unmoved
<1> QED
  BY <1>1, <1>2, <1>3, <1>5, InTransfer, MigrationStores DEF UndoUpload

LEMMA DropLocalKeeps == ASSUME IInv, DropLocal PROVE IInv'
<1> DEFINE f == mig.file
<1>1. mig.pc = "local" /\ f \in File /\ row[f] # Local /\ mig.made = {}
  BY DEF DropLocal, Moving, IInv, Core, Migration
<1>2. /\ mig' \in MigState
      /\ mig'.pc = "next" /\ mig'.todo = mig.todo /\ mig'.file = None /\ mig'.made = {}
  BY NextFileTyped DEF IInv, DropLocal
<1>3. /\ row' = row /\ replicas' = replicas /\ objects' = objects /\ del' = del
      /\ view' = view /\ begun' = begun /\ crossed' = crossed
  BY DEF DropLocal, tables
<1>4. /\ disk' \in SUBSET disk /\ \A g \in File \ {f} : g \in disk => g \in disk'
      /\ f \notin disk' \/ f \in broken'
      /\ broken' \in SUBSET File /\ broken \subseteq broken'
      /\ faults' \in 0 .. MaxFaults
  <2>1. broken \in SUBSET File /\ faults \in 0 .. MaxFaults
    BY DEF IInv, TypeOK
  <2> QED
    BY <1>1, <2>1, Counted DEF DropLocal, Break, IInv
<1>5. \A g \in File : Carried(g)' = Carried(g)
  BY <1>1, <1>2 DEF Carried
<1> HIDE DEF f
<1>10. TypeOK'
  BY <1>2, <1>3, <1>4 DEF IInv, TypeOK, DropLocal, tables
<1>11. Served'
  BY <1>1, <1>3, <1>4 DEF IInv, Core, Served
<1>12. Accounted'
  <2> SUFFICES ASSUME NEW g \in File
               PROVE  /\ g \notin broken' \cup crossed =>
                             objects[g] \subseteq {row[g]} \cup replicas[g] \cup Carried(g)
                      /\ g \in disk' => row[g] = Local
                            \/ (row[g] \in Backend /\ (mig'.file = g \/ g \in broken'))
    BY <1>3, <1>5 DEF Accounted
  <2>1. /\ g \notin broken \cup crossed =>
               objects[g] \subseteq {row[g]} \cup replicas[g] \cup Carried(g)
        /\ g \in disk => row[g] = Local
              \/ (row[g] \in Backend /\ (f = g \/ g \in broken))
    BY DEF IInv, Core, Accounted, f
  <2> QED
    BY <1>4, <2>1
<1>13. Rows' /\ Holding'
  BY <1>3 DEF IInv, Core, Rows, Holding, Held
<1>14. Deletions'
  <2> SUFFICES ASSUME NEW x \in Deleter PROVE Deleting(x)'
    BY DEF Deletions
  <2>1. Deleting(x)
    BY DEF IInv, Core, Deletions
  <2> QED
    BY <1>3, <1>4, <1>5, <2>1 DEF Deleting
<1>15. Migration'
  BY <1>1, <1>2, <1>3 DEF IInv, Core, Migration, Unmoved
<1>16. Visits'
  BY <1>3, VisitsKept DEF IInv
<1> QED
  BY <1>10, <1>11, <1>12, <1>13, <1>14, <1>15, <1>16 DEF IInv, Core

\* A deletion that goes by an older row crosses the migration; all others go
\* by none of this file.
LEMMA MarkKeeps == ASSUME IInv, Mark PROVE IInv'
<1> DEFINE f == mig.file
           at == mig.at
<1>1. /\ mig.pc = "copies" /\ mig \in MigState /\ f \in File \ mig.todo
      /\ at \in mig.made /\ at \in Backend
      /\ f \notin begun => mig.made \subseteq objects[f]
  BY DEF Mark, Moving, IInv, TypeOK, Core, Migration
<1>2. mig.made \in SUBSET Backend /\ mig.todo \in SUBSET File
  BY <1>1 DEF MigState
<1>3. CASE row[f] # Local
  <2>1. /\ mig' \in MigState
        /\ mig'.pc = "undo" /\ mig'.todo = mig.todo /\ mig'.file = mig.file
        /\ mig'.at = mig.at /\ mig'.made = mig.made
    BY <1>1, <1>3 DEF MigState, MigPC, Mark
  <2>2. /\ UNCHANGED <<tables, stores, off, del, view, history, forms>>
        /\ faults' \in 0 .. MaxFaults
    BY <1>3 DEF Mark, tables, history, counters, IInv, TypeOK
  <2> QED
    BY <1>1, <2>1, <2>2, GoOn
<1>4. CASE row[f] = Local
  <2>1. /\ mig' \in MigState
        /\ mig'.pc = "local" /\ mig'.todo = mig.todo /\ mig'.file = f
        /\ mig'.at = at /\ mig'.made = {}
    BY <1>1, <1>4 DEF MigState, MigPC, Mark
  <2>2. /\ valid' = valid /\ objects' = objects /\ disk' = disk /\ del' = del /\ off' = off
        /\ view' = view /\ begun' = begun /\ broken' = broken
        /\ faults' = faults /\ forms' = forms
    BY DEF Mark, stores, counters
  <2>3. row[f] \notin Backend /\ replicas[f] = {} /\ Local # None
    BY <1>1, <1>4, LocalAssumption, NoneAssumption DEF IInv, Core, Rows, Place
  <2>4. /\ row' \in [File -> Place \cup {None}] /\ row'[f] = at
        /\ \A g \in File \ {f} : row'[g] = row[g]
    BY <1>1, <1>4 DEF Mark, IInv, TypeOK, Place
  <2>5. /\ replicas' \in [File -> SUBSET Backend] /\ replicas'[f] = mig.made \ {at}
        /\ \A g \in File \ {f} : replicas'[g] = replicas[g]
    BY <1>1, <1>2, <1>4, <2>3 DEF Mark, IInv, TypeOK
  <2>6. /\ crossed' \in SUBSET File /\ crossed \subseteq crossed'
        /\ f \notin crossed' => ~TakenForLocal(f)
        /\ \A g \in File \ {f} : g \in crossed' => g \in crossed
    BY <1>1, <1>4 DEF Mark, IInv, TypeOK
  <2>7. f \notin crossed' => \A x \in Deleter, b \in Place : ~Held(x, f, b)
    <3> SUFFICES ASSUME f \notin crossed', NEW x \in Deleter, NEW b \in Place, Held(x, f, b)
                 PROVE  FALSE
      OBVIOUS
    <3>1. row[f] \in {b, None}
      BY <1>1, <2>6 DEF IInv, Core, Holding
    <3>2. b = Local
      BY <1>4, <2>3, <3>1
    <3> QED
      BY <2>6, <3>2 DEF Held, TakenForLocal
  <2>8. \A g \in File \ {f} : Carried(g)' = Carried(g)
    BY <2>1 DEF Carried
  <2>9. Carried(f)' = {} /\ Carried(f) = mig.made
    BY <2>1 DEF Carried
  <2> HIDE DEF f, at
  <2>10. TypeOK'
    BY <2>1, <2>2, <2>4, <2>5, <2>6 DEF IInv, TypeOK
  <2>11. Served'
    BY <1>1, <1>2, <2>2, <2>4, <2>5, LocalAssumption DEF IInv, Core, Served
  <2>12. Accounted'
    <3> SUFFICES ASSUME NEW g \in File
                 PROVE  /\ g \notin broken \cup crossed' =>
                             objects[g] \subseteq {row'[g]} \cup replicas'[g] \cup Carried(g)'
                        /\ g \in disk => row'[g] = Local
                             \/ (row'[g] \in Backend /\ (mig'.file = g \/ g \in broken))
      BY <2>2 DEF Accounted
    <3>1. CASE g = f
      <4>1. g \notin broken \cup crossed' => objects[g] \subseteq {Local} \cup {} \cup mig.made
        BY <1>4, <2>3, <2>6, <2>9, <3>1 DEF IInv, Core, Accounted
      <4>2. objects[g] \subseteq Backend
        BY DEF IInv, TypeOK
      <4> QED
        BY <1>1, <2>1, <2>4, <2>5, <3>1, <4>1, <4>2, LocalAssumption
    <3>2. CASE g # f
      <4>1. g # mig.file
        BY <3>2 DEF f
      <4> QED
        BY <2>4, <2>5, <2>6, <2>8, <3>2, <4>1 DEF IInv, Core, Accounted
    <3> QED
      BY <3>1, <3>2
  <2>13. Rows'
    BY <1>1, <2>4, <2>5 DEF IInv, Core, Rows
  <2>14. Holding'
    <3> SUFFICES ASSUME NEW x \in Deleter, NEW g \in File \ crossed', NEW b \in Place,
                        Held(x, g, b)'
                 PROVE  row'[g] \in {b, None}
      BY DEF Holding
    <3>1. Held(x, g, b)
      BY <2>2 DEF Held
    <3>2. g # f
      BY <2>7, <3>1
    <3> QED
      BY <2>4, <2>6, <3>1, <3>2 DEF IInv, Core, Holding
  <2>15. Deletions'
    <3> SUFFICES ASSUME NEW x \in Deleter PROVE Deleting(x)'
      BY DEF Deletions
    <3> DEFINE g == del[x].file
    <3>1. Deleting(x)
      BY DEF IInv, Core, Deletions
    <3>2. CASE del[x].pc # "idle" /\ g = f
      <4>1. f \in crossed'
        BY <2>7, <3>1, <3>2 DEF Held, Deleting
      <4> QED
        BY <2>2, <3>1, <3>2, <4>1 DEF Deleting
    <3>3. CASE del[x].pc # "idle" /\ g # f
      <4>1. g \in File /\ replicas'[g] = replicas[g]
        BY <2>5, <3>1, <3>3 DEF Deleting
      <4>4. Carried(g)' = Carried(g)
        BY <2>1, <3>3 DEF Carried, f
      <4>2. g \notin broken' \cup crossed' => g \notin broken \cup crossed
        BY <2>2, <2>6
      <4>3. del'[x] = del[x] /\ objects' = objects /\ disk' = disk /\ begun' = begun
        BY <2>2
      <4> QED
        BY <3>1, <4>1, <4>2, <4>3, <4>4 DEF Deleting
    <3>4. CASE del[x].pc = "idle"
      BY <2>2, <3>4 DEF Deleting
    <3> QED
      BY <3>2, <3>3, <3>4
  <2>16. Migration'
    <3>1. \A g \in mig.todo : g \in File /\ g # f /\ row[g] \in {Local, None}
      BY <1>1, <1>2 DEF IInv, Core, Migration, Unmoved, f
    <3> QED
      BY <1>1, <2>1, <2>4, <3>1, LocalAssumption DEF Migration, Unmoved
  <2>17. Visits'
    <3>1. \A g \in File : /\ row[g] # Local => row'[g] # Local
                          /\ row[g] \in Backend => row'[g] = row[g] \/ g \in begun'
      BY <1>4, <2>3, <2>4
    <3> QED
      BY <2>2, <3>1, VisitsKept DEF IInv
  <2> QED
    BY <2>10, <2>11, <2>12, <2>13, <2>14, <2>15, <2>16, <2>17 DEF IInv, Core
<1> QED
  BY <1>3, <1>4

LEMMA RestartKeeps == ASSUME IInv, Restart PROVE IInv'
<1>1. /\ row' = row /\ replicas' = replicas /\ valid' = valid /\ objects' = objects
      /\ disk' = disk /\ off' = off /\ begun' = begun /\ crossed' = crossed /\ forms' = forms
      /\ broken' = broken \cup ({mig.file} \cap File) /\ faults' \in 0 .. MaxFaults
  BY Counted DEF Restart, IInv, tables, stores
<1>2. /\ del' \in [Deleter -> DelState]
      /\ \A d \in Deleter : del'[d].pc = "idle" /\ del'[d].todo = {} /\ del'[d].file = None
  <2>1. NoDeletion \in DelState
    BY DEF NoDeletion, DelState, DelPC
  <2> QED
    BY <2>1 DEF Restart, NoDeletion
<1>3. /\ mig' \in MigState
      /\ mig'.pc = "idle" /\ mig'.todo = {} /\ mig'.file = None /\ mig'.made = {}
  BY NoMigrationTyped DEF Restart, NoMigration
<1>4. /\ view' \in [Visitor -> ViewState]
      /\ \A v \in Visitor : view'[v].pc = "idle"
  <2>1. NoView \in ViewState
    BY DEF NoView, ViewState, ViewPC
  <2> QED
    BY <2>1 DEF Restart, NoView
<1>10. TypeOK'
  BY <1>1, <1>2, <1>3, <1>4 DEF IInv, TypeOK
<1>11. Served' /\ Rows'
  BY <1>1 DEF IInv, Core, Served, Rows
<1>12. Accounted'
  <2> SUFFICES ASSUME NEW g \in File
               PROVE  /\ g \notin broken' \cup crossed =>
                             objects[g] \subseteq {row[g]} \cup replicas[g] \cup Carried(g)'
                      /\ g \in disk => row[g] = Local
                            \/ (row[g] \in Backend /\ (mig'.file = g \/ g \in broken'))
    BY <1>1 DEF Accounted
  <2>1. g \notin broken' => Carried(g) = {}
    BY <1>1 DEF Carried
  <2>2. /\ g \notin broken \cup crossed =>
               objects[g] \subseteq {row[g]} \cup replicas[g] \cup Carried(g)
        /\ g \in disk => row[g] = Local
              \/ (row[g] \in Backend /\ (mig.file = g \/ g \in broken))
    BY DEF IInv, Core, Accounted
  <2> QED
    BY <1>1, <2>1, <2>2
<1>13. Holding' /\ Deletions'
  BY <1>2, NoneAssumption DEF Holding, Held, Deletions, Deleting
<1>14. Migration'
  BY <1>3 DEF Migration, Unmoved
<1>15. Visits'
  BY <1>4 DEF Visits, Views, Viewed, TurnedAwayForCause, Viewing
<1> QED
  BY <1>10, <1>11, <1>12, <1>13, <1>14, <1>15 DEF IInv, Core

-----------------------------------------------------------------------------
(* The forms and the visitors, which change nothing of the files.          *)

LEMMA FormsKeep ==
    ASSUME IInv,
           \/ \E f \in File : Expire(f) \/ Extend(f)
           \/ \E b \in Backend : Toggle(b)
    PROVE  IInv'
<1>1. /\ row' = row /\ replicas' = replicas /\ objects' = objects /\ disk' = disk
      /\ del' = del /\ mig' = mig /\ view' = view /\ begun' = begun
      /\ crossed' = crossed /\ broken' = broken
  BY DEF Expire, Extend, Toggle, tables, stores, history
<1>2. TypeOK'
  <2>1. valid' \subseteq File /\ off' \subseteq Backend
    BY DEF IInv, TypeOK, Expire, Extend, Toggle, tables
  <2>2. forms' \in 0 .. MaxForms /\ faults' = faults
    BY Counted DEF IInv, TypeOK, Expire, Extend, Toggle, counters
  <2> QED
    BY <1>1, <2>1, <2>2 DEF IInv, TypeOK
<1>3. Core'
  BY <1>1, CoreFrame DEF IInv, core
<1>4. Visits'
  BY <1>1, VisitsKept DEF IInv
<1> QED
  BY <1>2, <1>3, <1>4 DEF IInv

\* A step of visitor v alone.
LEMMA VisitBooks ==
    ASSUME IInv, NEW v \in Visitor,
           UNCHANGED <<tables, stores, off, del, mig, history, forms>>,
           faults' \in 0 .. MaxFaults, view' \in [Visitor -> ViewState],
           \A x \in Visitor \ {v} : view'[x] = view[x],
           Viewed(v)',
           view'[v].pc = "gone" =>
               \/ view'[v].file \in begun \/ view'[v].missed
               \/ view'[v].at = Local /\ row[view'[v].file] # Local
    PROVE  IInv'
<1>1. /\ row' = row /\ replicas' = replicas /\ objects' = objects /\ disk' = disk
      /\ valid' = valid /\ begun' = begun /\ crossed' = crossed /\ broken' = broken
  BY DEF tables, stores, history
<1>2. TypeOK'
  BY <1>1 DEF IInv, TypeOK
<1>3. Core'
  BY <1>1, CoreFrame DEF IInv, core
<1>4. ASSUME NEW x \in Visitor PROVE Viewed(x)'
  <2>1. CASE x # v
    <3>1. Viewed(x) /\ view'[x] = view[x]
      BY <2>1 DEF IInv, Visits, Views
    <3> QED
      BY <1>1, <3>1 DEF Viewed
  <2> QED
    BY <2>1
<1>5. TurnedAwayForCause'
  BY <1>1 DEF IInv, Visits, TurnedAwayForCause, Viewing
<1> QED
  BY <1>2, <1>3, <1>4, <1>5 DEF IInv, Visits, Views

LEMMA NoViewTyped == NoView \in ViewState /\ NoView.pc = "idle"
BY DEF NoView, ViewState, ViewPC

LEMMA LeaveKeeps ==
    ASSUME IInv, NEW v \in Visitor, Leave(v),
           UNCHANGED <<tables, stores, off, del, mig, history, counters>>
    PROVE  IInv'
<1>1. /\ view' \in [Visitor -> ViewState] /\ view'[v].pc = "idle"
      /\ \A x \in Visitor \ {v} : view'[x] = view[x]
  BY NoViewTyped DEF Leave, IInv, TypeOK
<1>2. Viewed(v)'
  BY <1>1 DEF Viewed
<1> QED
  BY <1>1, <1>2, VisitBooks DEF counters, IInv, TypeOK

\* A visitor who finds nothing has a cause.
LEMMA GoneKeeps ==
    ASSUME IInv, NEW v \in Visitor, Step(v, "gone"), view[v].pc # "idle",
           UNCHANGED <<tables, stores, off, del, mig, history, counters>>,
           \/ view[v].file \in begun \/ view[v].missed
           \/ view[v].at = Local /\ row[view[v].file] # Local
    PROVE  IInv'
<1>1. /\ view' \in [Visitor -> ViewState]
      /\ \A x \in Visitor \ {v} : view'[x] = view[x]
      /\ view'[v].pc = "gone" /\ view'[v].file = view[v].file /\ view'[v].at = view[v].at
      /\ view'[v].missed = view[v].missed
  BY DEF Step, IInv, TypeOK, ViewState, ViewPC
<1>2. Viewed(v)
  BY DEF IInv, Visits, Views
<1>3. Viewed(v)'
  BY <1>1, <1>2 DEF Viewed
<1> QED
  BY <1>1, <1>3, VisitBooks DEF counters, IInv, TypeOK

LEMMA VisitKeeps == ASSUME IInv, NEW v \in Visitor, NEW f \in File, Visit(v, f) PROVE IInv'
<1>1. row[f] \in Place
  BY DEF Visit, Registered, IInv, TypeOK
<1>2. /\ [NoView EXCEPT !.pc = "found", !.file = f, !.at = row[f]] \in ViewState
      /\ [NoView EXCEPT !.pc = "found", !.file = f, !.at = row[f]].pc = "found"
      /\ [NoView EXCEPT !.pc = "found", !.file = f, !.at = row[f]].file = f
      /\ [NoView EXCEPT !.pc = "found", !.file = f, !.at = row[f]].at = row[f]
  BY <1>1 DEF NoView, ViewState, ViewPC
<1>3. /\ view' \in [Visitor -> ViewState]
      /\ \A x \in Visitor \ {v} : view'[x] = view[x]
      /\ view'[v].pc = "found" /\ view'[v].file = f /\ view'[v].at = row[f]
  BY <1>2 DEF Visit, IInv, TypeOK
<1>4. row' = row /\ begun' = begun
  BY DEF Visit, tables, history
<1>5. Viewed(v)'
  BY <1>1, <1>3, <1>4 DEF Viewed
<1> QED
  BY <1>3, <1>5, VisitBooks DEF Visit, counters, IInv, TypeOK

\* A local file that is not there was deleted, or moved since.
LEMMA NotOnDisk ==
    ASSUME IInv, NEW v \in Visitor, view[v].pc # "idle", view[v].at = Local,
           view[v].file \notin disk
    PROVE  \/ view[v].file \in begun
           \/ view[v].at = Local /\ row[view[v].file] # Local
BY DEF IInv, Visits, Views, Viewed, Core, Served

LEMMA LookForLocalKeeps == ASSUME IInv, NEW v \in Visitor, LookForLocal(v) PROVE IInv'
<1>1. view[v].pc = "found" /\ view[v].at = Local /\ Viewed(v)
  BY DEF LookForLocal, Viewing, IInv, Visits, Views
<1>2. CASE view[v].file \in disk
  <2>1. /\ view' \in [Visitor -> ViewState]
        /\ \A x \in Visitor \ {v} : view'[x] = view[x]
        /\ view'[v].pc = "open" /\ view'[v].file = view[v].file /\ view'[v].at = view[v].at
    BY <1>2 DEF LookForLocal, Step, IInv, TypeOK, ViewState, ViewPC
  <2>2. Viewed(v)'
    BY <1>1, <2>1 DEF Viewed
  <2> QED
    BY <2>1, <2>2, VisitBooks DEF LookForLocal, counters, IInv, TypeOK
<1>3. CASE view[v].file \notin disk
  BY <1>1, <1>3, NotOnDisk, GoneKeeps DEF LookForLocal
<1> QED
  BY <1>2, <1>3

LEMMA OpenLocalKeeps == ASSUME IInv, NEW v \in Visitor, OpenLocal(v) PROVE IInv'
<1>1. view[v].pc = "open" /\ view[v].at = Local
  BY DEF OpenLocal, Viewing, IInv, Visits, Views, Viewed
<1>2. CASE view[v].file \in disk
  BY <1>2, LeaveKeeps DEF OpenLocal
<1>3. CASE view[v].file \notin disk
  BY <1>1, <1>3, NotOnDisk, GoneKeeps DEF OpenLocal
<1> QED
  BY <1>2, <1>3

\* The place the row named is asked, unless its backend is disabled.
LEMMA ListLocationsKeeps == ASSUME IInv, NEW v \in Visitor, ListLocations(v) PROVE IInv'
<1> DEFINE locations == {view[v].at} \cup replicas[view[v].file]
<1>1. /\ view[v].pc = "found" /\ view[v].at \in Backend /\ Viewed(v) /\ view[v] \in ViewState
      /\ view[v].file \in File
  BY DEF ListLocations, Viewing, IInv, TypeOK, Visits, Views, Viewed
<1>2. locations \subseteq Backend
  BY <1>1 DEF IInv, TypeOK
<1>3. [view[v] EXCEPT !.pc = "probe", !.left = locations \ off,
                      !.missed = locations \cap off # {}] \in ViewState
  <2>1. locations \ off \in SUBSET Backend /\ (locations \cap off # {}) \in BOOLEAN
    BY <1>2
  <2> HIDE DEF locations
  <2> QED
    BY <1>1, <2>1 DEF ViewState, ViewPC
<1>4. view' = [view EXCEPT ![v] = [view[v] EXCEPT !.pc = "probe", !.left = locations \ off,
                                                  !.missed = locations \cap off # {}]]
  BY <1>1 DEF ListLocations, ViewState, IInv, TypeOK
<1>5. /\ view' \in [Visitor -> ViewState]
      /\ \A x \in Visitor \ {v} : view'[x] = view[x]
      /\ view'[v].pc = "probe" /\ view'[v].file = view[v].file /\ view'[v].at = view[v].at
      /\ view'[v].left = locations \ off /\ view'[v].missed = (locations \cap off # {})
  <2> HIDE DEF locations
  <2> QED
    BY <1>1, <1>3, <1>4 DEF IInv, TypeOK, ViewState
<1>6. row' = row /\ begun' = begun
  BY DEF ListLocations, tables, history
<1>7. Viewed(v)'
  BY <1>1, <1>5, <1>6 DEF Viewed
<1> QED
  BY <1>5, <1>7, VisitBooks DEF ListLocations, counters, IInv, TypeOK

\* The place the row named has the object, or its deletion began.
LEMMA ProbeKeeps == ASSUME IInv, NEW v \in Visitor, NEW b \in Backend, Probe(v, b) PROVE IInv'
<1> DEFINE f == view[v].file
           at == view[v].at
<1>1. /\ view[v].pc = "probe" /\ view[v] \in ViewState /\ Viewed(v)
      /\ f \in File /\ at \in Backend
  BY DEF Probe, Viewing, IInv, TypeOK, Visits, Views, Viewed
<1>2. /\ UNCHANGED <<tables, stores, off, del, mig, history, forms>>
      /\ faults' \in 0 .. MaxFaults
  BY Counted DEF Probe, IInv, TypeOK
<1>3. row' = row /\ begun' = begun
  BY <1>2 DEF tables, history
<1>4. CASE b \in objects[f] /\ Leave(v) /\ UNCHANGED faults
  <2>1. UNCHANGED <<tables, stores, off, del, mig, history, counters>>
    BY <1>2, <1>4 DEF counters
  <2> QED
    BY <1>4, <2>1, LeaveKeeps
<1>5. ASSUME NEW m \in {view[v].missed, TRUE}, m \/ b \notin objects[f],
             view' = [view EXCEPT ![v] = [view[v] EXCEPT !.left = @ \ {b}, !.missed = m]]
      PROVE  IInv'
  <2>1. [view[v] EXCEPT !.left = @ \ {b}, !.missed = m] \in ViewState
    BY <1>1 DEF ViewState
  <2>2. /\ view' \in [Visitor -> ViewState]
        /\ \A x \in Visitor \ {v} : view'[x] = view[x]
        /\ view'[v].pc = "probe" /\ view'[v].file = f /\ view'[v].at = at
        /\ view'[v].left = view[v].left \ {b} /\ view'[v].missed = m
    BY <1>1, <1>5, <2>1 DEF IInv, TypeOK, ViewState
  <2>3. f \notin begun => row[f] = at /\ at \in objects[f]
    BY <1>1 DEF Viewed, IInv, Core, Served
  <2>4. Viewed(v)'
    <3>1. view[v].missed \/ f \in begun \/ at \in view[v].left
      BY <1>1 DEF Viewed
    <3>2. m \/ f \in begun \/ at \in view[v].left \ {b}
      BY <1>1, <1>5, <2>3, <3>1 DEF ViewState
    <3>3. at \in Place /\ (f \notin begun => row[f] = at)
      BY <1>1, <2>3 DEF Place
    <3> QED
      BY <1>1, <1>3, <2>2, <3>2, <3>3 DEF Viewed
  <2> QED
    BY <1>2, <2>2, <2>4, VisitBooks
<1>6. CASE b \notin objects[f] /\ view' = [view EXCEPT ![v].left = @ \ {b}]
  <2>1. view' = [view EXCEPT ![v] = [view[v] EXCEPT !.left = @ \ {b}, !.missed = view[v].missed]]
    BY <1>1, <1>6 DEF IInv, TypeOK, ViewState
  <2> QED
    BY <1>5, <1>6, <2>1
<1>7. CASE view' = [view EXCEPT ![v].left = @ \ {b}, ![v].missed = TRUE]
  <2>1. view' = [view EXCEPT ![v] = [view[v] EXCEPT !.left = @ \ {b}, !.missed = TRUE]]
    BY <1>1, <1>7 DEF IInv, TypeOK, ViewState
  <2> QED
    BY <1>5, <2>1
<1> QED
  BY <1>4, <1>6, <1>7 DEF Probe

LEMMA NothingFoundKeeps == ASSUME IInv, NEW v \in Visitor, NothingFound(v) PROVE IInv'
<1>1. view[v].missed \/ view[v].file \in begun
  BY DEF NothingFound, Viewing, IInv, Visits, Views, Viewed
<1> QED
  BY <1>1, GoneKeeps DEF NothingFound, Viewing

-----------------------------------------------------------------------------
(* The invariant.                                                          *)

LEMMA Initial == Init => IInv
<1> SUFFICES ASSUME Init PROVE IInv
  OBVIOUS
<1>1. /\ row \in [File -> Place] /\ replicas \in [File -> SUBSET Backend]
      /\ \A f \in File : row[f] \notin replicas[f] /\ (row[f] = Local => replicas[f] = {})
      /\ valid = File /\ disk = {f \in File : row[f] = Local}
      /\ objects = [f \in File |-> replicas[f] \cup ({row[f]} \cap Backend)]
      /\ begun = {} /\ crossed = {} /\ broken = {} /\ off = {} /\ forms = 0 /\ faults = 0
  BY DEF Init
<1>2. /\ del \in [Deleter -> DelState]
      /\ \A d \in Deleter : del[d].pc = "idle" /\ del[d].todo = {} /\ del[d].file = None
  <2>1. NoDeletion \in DelState
    BY DEF NoDeletion, DelState, DelPC
  <2> QED
    BY <2>1 DEF Init, NoDeletion
<1>3. mig \in MigState /\ mig.pc = "idle" /\ mig.todo = {} /\ mig.file = None /\ mig.made = {}
  BY NoMigrationTyped DEF Init, NoMigration
<1>4. view \in [Visitor -> ViewState] /\ \A v \in Visitor : view[v].pc = "idle"
  BY NoViewTyped DEF Init
<1>5. TypeOK
  BY <1>1, <1>2, <1>3, <1>4, BoundsAssumption DEF TypeOK
<1>6. Served /\ Accounted /\ Rows
  BY <1>1, LocalAssumption DEF Served, Accounted, Rows, Place
<1>7. Holding /\ Deletions
  BY <1>2, NoneAssumption DEF Holding, Held, Deletions, Deleting
<1>8. Migration
  BY <1>3 DEF Migration, Unmoved
<1>9. Visits
  BY <1>4 DEF Visits, Views, Viewed, TurnedAwayForCause, Viewing
<1> QED
  BY <1>5, <1>6, <1>7, <1>8, <1>9 DEF IInv, Core

LEMMA DeletionStepKeeps ==
    ASSUME IInv, NEW d \in Deleter, DeletionStep(d)
    PROVE  IInv'
BY BeginCleanupKeeps, NextExpiredKeeps, DeletePrimaryKeeps, ListCopiesKeeps, DeleteCopyKeeps,
   DeleteSpoolKeeps, DeleteRecordKeeps, DeletionFailsKeeps DEF DeletionStep

LEMMA MigrationStepKeeps == ASSUME IInv, MigrationStep PROVE IInv'
BY PickFileKeeps, FindCandidatesKeeps, SendToKeeps, CopySentKeeps, CopyFailsKeeps, UndoUploadKeeps,
   EndMigrationKeeps, GiveUpKeeps, SentKeeps, SendFailsKeeps, ChooseTargetsKeeps, MarkKeeps,
   MarkFailsKeeps, DropLocalKeeps, EndUndoKeeps DEF MigrationStep

LEMMA VisitStepKeeps == ASSUME IInv, NEW v \in Visitor, VisitStep(v) PROVE IInv'
<1>1. CASE Turned(v)
  BY <1>1, LeaveKeeps DEF Turned
<1> QED
  BY <1>1, LookForLocalKeeps, OpenLocalKeeps, ListLocationsKeeps, NothingFoundKeeps, ProbeKeeps
     DEF VisitStep

LEMMA Invariance == IInv /\ [Next]_vars => IInv'
<1> SUFFICES ASSUME IInv, [Next]_vars PROVE IInv'
  OBVIOUS
<1>1. CASE UNCHANGED vars
  <2>1. UNCHANGED <<row, replicas, valid, disk, objects, begun, crossed, broken, forms, faults,
                    off, del, mig, view>>
    BY <1>1 DEF vars, tables, stores, history, counters
  <2>2. TypeOK'
    BY <2>1 DEF IInv, TypeOK
  <2>3. Core'
    BY <2>1, CoreFrame DEF IInv, core
  <2>4. Visits'
    BY <2>1, VisitsKept DEF IInv
  <2> QED
    BY <2>2, <2>3, <2>4 DEF IInv
<1>2. CASE \/ \E f \in File : Expire(f) \/ Extend(f)
           \/ \E b \in Backend : Toggle(b)
  BY <1>2, FormsKeep
<1>3. CASE \E d \in Deleter : DeletionStep(d)
  BY <1>3, DeletionStepKeeps
<1>4. CASE \E d \in Deleter, kind \in {"bot", "panel"}, f \in File : BeginDeletion(d, kind, f)
  BY <1>4, BeginDeletionKeeps
<1>5. CASE BeginMigration \/ MigrationStep
  BY <1>5, BeginMigrationKeeps, MigrationStepKeeps
<1>6. CASE \E v \in Visitor : VisitStep(v) \/ \E f \in File : Visit(v, f)
  BY <1>6, VisitStepKeeps, VisitKeeps
<1>7. CASE Restart
  BY <1>7, RestartKeeps
<1> QED
  BY <1>1, <1>2, <1>3, <1>4, <1>5, <1>6, <1>7 DEF Next

\* Every variable keeps its type.
THEOREM Typed == Spec => []TypeOK
<1>1. IInv => TypeOK
  BY DEF IInv
<1> QED
  BY Initial, Invariance, <1>1, PTL DEF Spec

\* A file whose deletion did not begin is where its row says, with all its
\* replicas, whatever the migration is at and whatever failed.
THEOREM AlwaysServed == Spec => []Served
<1>1. IInv => Served
  BY DEF IInv, Core
<1> QED
  BY Initial, Invariance, <1>1, PTL DEF Spec

\* What is stored some row leads to, or the migration still has in hand,
\* outside the two exceptions Accounted names.
THEOREM AlwaysAccounted == Spec => []Accounted
<1>1. IInv => Accounted
  BY DEF IInv, Core
<1> QED
  BY Initial, Invariance, <1>1, PTL DEF Spec

\* A valid link is turned away only for one of the three causes.
THEOREM OnlyForCause == Spec => []TurnedAwayForCause
<1>1. IInv => TurnedAwayForCause
  BY DEF IInv, Visits
<1> QED
  BY Initial, Invariance, <1>1, PTL DEF Spec

=============================================================================
