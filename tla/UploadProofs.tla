---------------------------- MODULE UploadProofs ----------------------------
(* What is proved of Upload, for any number of uploads, backends, admin    *)
(* requests, forms and failures.                                           *)
EXTENDS Upload, TLAPS

-----------------------------------------------------------------------------
(* Types.                                                                  *)

BInv == BackendsTypeOK /\ \A a \in Admin : form[a].pc = "export" => form[a].on \in Backend

LEMMA BackendsInitial == BackendsInit => BInv
<1>1. ASSUME BackendsInit PROVE BInv
  <2>1. NoForm \in FormState
    BY ConfigAssumption DEF NoForm, FormState, FormPC, FormOp
  <2>2. forms \in 0 .. MaxForms
    BY <1>1, FormsAssumption DEF BackendsInit
  <2>3. \A a \in Admin : form[a].pc # "export"
    BY <1>1 DEF BackendsInit, NoForm
  <2> QED
    BY <1>1, <2>1, <2>2, <2>3, ConfigAssumption DEF BackendsInit, BInv, BackendsTypeOK
<1> QED
  BY <1>1

\* A form may begin with any configuration of the right type.
LEMMA StartTyped ==
    ASSUME BInv, NEW a \in Admin, NEW b \in Backend, NEW c \in Config,
           NEW pc \in FormPC, NEW op \in FormOp, Start(a, pc, op, b, c)
    PROVE  /\ form' \in [Admin -> FormState]
           /\ forms' \in 0 .. MaxForms
           /\ \A x \in Admin : form'[x].pc = "export" => form'[x].on \in Backend
<1> DEFINE f == [pc |-> pc, op |-> op, on |-> b, config |-> c]
<1>1. f \in FormState
  BY DEF FormState
<1>2. form' = [form EXCEPT ![a] = f]
  BY DEF Start
<1>3. forms' \in 0 .. MaxForms
  BY FormsAssumption DEF Start, UseForm, BInv, BackendsTypeOK
<1> HIDE DEF f
<1>4. form' \in [Admin -> FormState]
  BY <1>1, <1>2 DEF BInv, BackendsTypeOK
<1>5. \A x \in Admin : form'[x].pc = "export" => form'[x].on \in Backend
  BY <1>2 DEF BInv, BackendsTypeOK, f
<1> QED
  BY <1>3, <1>4, <1>5

LEMMA FormPreserves ==
    ASSUME BInv, NEW a \in Admin, NEW R, FormStep(a, R)
    PROVE  BInv'
<1> USE DEF BInv
<1>t. /\ live \in Config /\ saved \in Config \cup {None} /\ mode \in {"local", "s3"}
      /\ form \in [Admin -> FormState] /\ forms \in 0 .. MaxForms
  BY DEF BackendsTypeOK
<1>1. ASSUME NEW b \in Backend, BeginAdd(a, b) PROVE BInv'
  <2>1. Start(a, "export", "add", b, InitialRoles) /\ UNCHANGED <<live, saved, mode>>
    BY <1>1 DEF BeginAdd
  <2> QED
    BY <2>1, <1>t, StartTyped, ConfigAssumption DEF BackendsTypeOK, FormPC, FormOp
<1>2. ASSUME NEW b \in Backend, BeginDelete(a, b, R) PROVE BInv'
  <2>1. Start(a, "export", "delete", b, InitialRoles) /\ UNCHANGED <<live, saved, mode>>
    BY <1>2 DEF BeginDelete
  <2> QED
    BY <2>1, <1>t, StartTyped, ConfigAssumption DEF BackendsTypeOK, FormPC, FormOp
<1>3. ASSUME NEW b \in Backend, NEW op \in {"role", "toggle", "cycle", "tune"}, BeginRole(a, op, b)
      PROVE  BInv'
  <2>1. PICK r \in NewRoles(op, b) : Start(a, "save", op, b, [live EXCEPT ![b] = r])
    BY <1>3 DEF BeginRole
  <2>2. live[b] \in Role
    BY <1>t, <1>3 DEF BeginRole, Configured, Config
  <2>3. r \in Role
    <3>1. CASE op = "role"
      BY <2>1, <3>1 DEF NewRoles
    <3>2. CASE op = "toggle"
      BY <2>1, <3>2 DEF NewRoles, Role
    <3>3. CASE op = "cycle"
      BY <2>1, <2>2, <3>3 DEF NewRoles, Role, NextInCycle
    <3>4. CASE op = "tune"
      BY <2>1, <2>2, <3>4 DEF NewRoles
    <3> QED
      BY <3>1, <3>2, <3>3, <3>4
  <2>4. [live EXCEPT ![b] = r] \in Config
    BY <1>t, <2>3 DEF Config
  <2> QED
    BY <2>1, <2>4, <1>t, <1>3, StartTyped DEF BackendsTypeOK, FormPC, FormOp, BeginRole
<1>4. CASE Export(a)
  <2>1. PICK r \in Role \cup {"absent"} :
            form' = [form EXCEPT ![a].pc = "save",
                                 ![a].config = [live EXCEPT ![form[a].on] = r]]
    BY <1>4 DEF Export
  <2>2. [live EXCEPT ![form[a].on] = r] \in Config
    BY <1>t, <1>4 DEF Config, Export
  <2> HIDE DEF BInv
  <2>3. form' \in [Admin -> FormState]
    BY <2>1, <2>2, <1>t DEF FormState, FormPC
  <2>4. \A x \in Admin : form'[x].pc = "export" => form[x].pc = "export" /\ form'[x].on = form[x].on
    BY <2>1, <1>t DEF FormState
  <2> QED
    BY <1>4, <2>3, <2>4, <1>t DEF Export, BackendsTypeOK, BInv
<1>n. NoForm \in FormState /\ NoForm.pc = "idle"
  BY ConfigAssumption DEF NoForm, FormState, FormPC, FormOp
<1>c. \A o \in Admin : form[o].config \in Config
  BY <1>t DEF FormState
<1>5. CASE Save(a)
  <2>1. saved' \in Config \cup {None}
    BY <1>5, <1>c DEF Save
  <2> HIDE DEF BInv
  <2>2. form' \in [Admin -> FormState]
    BY <1>5, <1>t DEF FormState, FormPC, Save
  <2>4. \A x \in Admin : form'[x].pc = "export" => form[x].pc = "export" /\ form'[x].on = form[x].on
    BY <1>5, <1>t DEF FormState, Save
  <2> QED
    BY <1>5, <2>1, <2>2, <2>4, <1>t DEF Save, BackendsTypeOK, BInv
<1>8. CASE SaveFails(a)
  <2>1. saved' \in Config \cup {None}
    BY <1>8, <1>c, <1>t DEF SaveFails
  <2>2. form' \in [Admin -> FormState]
    BY <1>8, <1>n, <1>t DEF SaveFails
  <2>3. \A x \in Admin : form'[x].pc = "export" => form[x].pc = "export" /\ form'[x].on = form[x].on
    BY <1>8, <1>n, <1>t DEF SaveFails
  <2> HIDE DEF BInv
  <2> QED
    BY <1>8, <2>1, <2>2, <2>3, <1>t DEF SaveFails, BackendsTypeOK, BInv
<1>6. CASE Install(a)
  <2>1. form[a].config \in Config
    BY <1>t DEF FormState
  <2> HIDE DEF BInv
  <2>2. form' \in [Admin -> FormState]
    BY <1>6, <1>t DEF FormState, FormPC, Install
  <2>4. \A x \in Admin : form'[x].pc = "export" => form[x].pc = "export" /\ form'[x].on = form[x].on
    BY <1>6, <1>t DEF FormState, Install
  <2> QED
    BY <1>6, <2>1, <2>2, <2>4, <1>t DEF Install, BackendsTypeOK, BInv
<1>7. CASE Settle(a)
  <2>1. mode' \in {"local", "s3"}
    BY <1>7, <1>t DEF Settle, NextMode
  <2>4. form' \in [Admin -> FormState]
    BY <1>7, <1>n, <1>t DEF Settle
  <2>5. \A x \in Admin : form'[x].pc = "export" => form[x].pc = "export" /\ form'[x].on = form[x].on
    BY <1>7, <1>n, <1>t DEF Settle
  <2> HIDE DEF BInv
  <2> QED
    BY <1>7, <2>1, <2>4, <2>5, <1>t DEF Settle, BackendsTypeOK, BInv
<1> QED
  BY <1>1, <1>2, <1>3, <1>4, <1>5, <1>6, <1>7, <1>8 DEF FormStep

LEMMA ModePreserves ==
    ASSUME BInv, NEW m \in {"local", "s3"}, SetMode(m)
    PROVE  BInv'
BY FormsAssumption DEF SetMode, UseForm, BInv, BackendsTypeOK

LEMMA ReloadPreserves ==
    ASSUME BInv, ReloadBackends
    PROVE  BInv'
<1>1. NoForm \in FormState /\ NoForm.pc = "idle"
  BY ConfigAssumption DEF NoForm, FormState, FormPC, FormOp
<1> QED
  BY <1>1 DEF ReloadBackends, BInv, BackendsTypeOK

LEMMA BackendsStutter ==
    ASSUME BInv, UNCHANGED backendVars
    PROVE  BInv'
BY DEF backendVars, BInv, BackendsTypeOK

-----------------------------------------------------------------------------
(* The life of one upload.  Before it has a row it owns what is at its own *)
(* place: Bare says what is not there yet or no longer, Tried what the     *)
(* transfer has made, Given what a row stands for.                *)

\* Types of everything but the backends.
UploadTypes ==
    /\ up \in [Nonce -> UploadState]
    /\ early \subseteq cancelled /\ cancelled \subseteq Nonce
    /\ cache \subseteq File
    /\ spool \subseteq Nonce /\ aged \subseteq spool
    /\ objects \in [Nonce -> SUBSET Backend]
    /\ files \in [Nonce -> Backend \cup {Local, None}]
    /\ queued \in [Nonce -> SUBSET Backend] /\ promoted \in [Nonce -> SUBSET Backend]
    /\ cleaner \in [asked : BOOLEAN, referenced : SUBSET Nonce]
    /\ broken \subseteq Nonce
    /\ faults \in 0 .. MaxFaults

\* The backend in hand, and that it is not the promotion's target.
Tried(n) ==
    /\ up[n].pc \notin {"sending", "register", "record", "sweep", "undo", "withdraw", "close"} =>
           up[n].at = None
    /\ At(n, "send") \/ At(n, "sending") => up[n].mode = "s3"
    /\ At(n, "sending") => up[n].at \in Backend
    /\ At(n, "register") /\ up[n].mode = "s3" =>
           up[n].at \in objects[n]
    /\ At(n, "record") =>
           /\ up[n].at \in objects[n] \ up[n].todo
           /\ up[n].promote = None \/ up[n].todo = {up[n].promote}
    /\ At(n, "withdraw") => up[n].at \in Backend
    /\ up[n].pc \in {"send", "sending", "register"} /\ up[n].mode = "s3"
          /\ up[n].promote # None => up[n].promote \notin up[n].todo \cup {up[n].at}

\* The file in data/files.
Received(n) ==
    /\ up[n].pc \in {"none", "pending", "stale", "dropped", "lost", "begin", "fetch", "open"} =>
           n \notin spool
    /\ up[n].pc \in {"copy", "check"} => n \notin aged
    /\ At(n, "copy") => n \in spool
    /\ At(n, "check") /\ up[n].mode = "local" => n \in spool
    /\ At(n, "register") /\ up[n].mode = "local" => n \in spool \ aged

\* A row.
Given(n) ==
    /\ files[n] = Local => up[n].pc \in {"close", "done"}
    /\ files[n] \in Backend =>
           up[n].pc \in {"sweep", "close", "done"} \/ n \in broken
    /\ Registered(n) => up[n].pc \in {"sweep", "undo", "withdraw", "close", "done"}
    /\ files[n] = Local /\ cleaner.asked /\ n \notin cleaner.referenced => n \notin aged
    /\ cleaner.asked /\ n \in cleaner.referenced => Registered(n)
    /\ n \notin broken /\ files[n] = Local => n \in spool
    /\ n \notin broken /\ files[n] \in Backend => files[n] \in objects[n]
    /\ ~Registered(n) => queued[n] = {} /\ promoted[n] = {}

\* No row: nothing is left behind that is not undone.
Bare(n) ==
    n \notin broken /\ ~Registered(n) =>
        /\ \A b \in objects[n] :
               up[n].pc \in {"register", "record", "undo", "withdraw"} /\ up[n].at = b
        /\ up[n].pc \in {"withdraw", "close", "done"} => n \notin spool

\* An abort before the transfer.
Heeded(n) ==
    n \in early =>
        /\ files[n] \notin Backend
        /\ up[n].pc # "sending"
        /\ ~(At(n, "register") /\ up[n].mode = "s3") /\ ~At(n, "record")

Whole(n) == Tried(n) /\ Received(n) /\ Given(n) /\ Bare(n) /\ Heeded(n)
IInv == BInv /\ UploadTypes /\ \A n \in Nonce : Whole(n)

LEMMA Initial == Init => IInv
<1> SUFFICES ASSUME Init PROVE IInv
  OBVIOUS
<1>1. BInv
  BY BackendsInitial DEF Init
<1>2. NoUpload \in UploadState
  BY DEF NoUpload, UploadState, UploadPC
<1>3. UploadTypes
  BY <1>2, FaultsAssumption DEF Init, UploadTypes
<1>4. \A n \in Nonce : Whole(n)
  BY LocalAssumption, NoBackendAssumption
     DEF Init, NoUpload, Whole, Tried, Received, Given, Bare, Heeded, At, Registered
<1> QED
  BY <1>1, <1>3, <1>4 DEF IInv

\* What the updates of a record do to it.
LEMMA BecomeTyped ==
    ASSUME up \in [Nonce -> UploadState], NEW n \in Nonce, NEW u \in UploadState, Become(n, u)
    PROVE  /\ up' \in [Nonce -> UploadState]
           /\ up'[n] = u
           /\ \A m \in Nonce \ {n} : up'[m] = up[m]
BY DEF Become

LEMMA EndTyped ==
    ASSUME up \in [Nonce -> UploadState], NEW n \in Nonce, NEW pc \in UploadPC, End(n, pc)
    PROVE  /\ up' \in [Nonce -> UploadState]
           /\ up'[n].pc = pc /\ up'[n].at = None
           /\ up'[n].todo = {} /\ up'[n].promote = None /\ up'[n].mode = "local"
           /\ \A m \in Nonce \ {n} : up'[m] = up[m]
<1>1. [NoUpload EXCEPT !.pc = pc] \in UploadState
  BY DEF NoUpload, UploadState
<1> QED
  BY <1>1, BecomeTyped DEF End, NoUpload

LEMMA GoTyped ==
    ASSUME up \in [Nonce -> UploadState], NEW n \in Nonce, NEW pc \in UploadPC,
           Go(n, pc)
    PROVE  /\ up' \in [Nonce -> UploadState]
           /\ \A m \in Nonce \ {n} : up'[m] = up[m]
           /\ up'[n].pc = pc
           /\ up'[n].mode = up[n].mode /\ up'[n].at = up[n].at /\ up'[n].todo = up[n].todo
           /\ up'[n].promote = up[n].promote
<1>1. \A u \in UploadState : LET v == [u EXCEPT !.pc = pc] IN
          /\ v \in UploadState
          /\ v.pc = pc
          /\ v.mode = u.mode /\ v.at = u.at /\ v.todo = u.todo /\ v.promote = u.promote
  BY DEF UploadState
<1> DEFINE w == [up[n] EXCEPT !.pc = pc]
<1>2. /\ w \in UploadState
      /\ w.pc = pc
      /\ w.mode = up[n].mode /\ w.at = up[n].at /\ w.todo = up[n].todo
      /\ w.promote = up[n].promote
  BY <1>1
<1>3. Become(n, w)
  BY DEF Go
<1> HIDE DEF w
<1>4. /\ up' \in [Nonce -> UploadState] /\ up'[n] = w
      /\ \A m \in Nonce \ {n} : up'[m] = up[m]
  BY <1>2, <1>3, BecomeTyped
<1> QED
  BY <1>2, <1>4

LEMMA PrefTyped ==
    ASSUME up \in [Nonce -> UploadState], NEW n \in Nonce, NEW pc \in UploadPC,
           NEW p \in Backend \cup {None},
           Become(n, [up[n] EXCEPT !.pc = pc, !.pref = p])
    PROVE  /\ up' \in [Nonce -> UploadState]
           /\ \A m \in Nonce \ {n} : up'[m] = up[m]
           /\ up'[n].pc = pc
           /\ up'[n].mode = up[n].mode /\ up'[n].at = up[n].at /\ up'[n].todo = up[n].todo
           /\ up'[n].promote = up[n].promote
<1>1. \A u \in UploadState : LET v == [u EXCEPT !.pc = pc, !.pref = p] IN
          /\ v \in UploadState
          /\ v.pc = pc
          /\ v.mode = u.mode /\ v.at = u.at /\ v.todo = u.todo /\ v.promote = u.promote
  BY DEF UploadState
<1> DEFINE w == [up[n] EXCEPT !.pc = pc, !.pref = p]
<1>2. /\ w \in UploadState
      /\ w.pc = pc
      /\ w.mode = up[n].mode /\ w.at = up[n].at /\ w.todo = up[n].todo
      /\ w.promote = up[n].promote
  BY <1>1
<1>3. Become(n, w)
  OBVIOUS
<1> HIDE DEF w
<1>4. /\ up' \in [Nonce -> UploadState] /\ up'[n] = w
      /\ \A m \in Nonce \ {n} : up'[m] = up[m]
  BY <1>2, <1>3, BecomeTyped
<1> QED
  BY <1>2, <1>4

LEMMA ModeTyped ==
    ASSUME up \in [Nonce -> UploadState], NEW n \in Nonce, NEW pc \in UploadPC,
           NEW x \in {"local", "s3"},
           Become(n, [up[n] EXCEPT !.pc = pc, !.mode = x])
    PROVE  /\ up' \in [Nonce -> UploadState]
           /\ \A m \in Nonce \ {n} : up'[m] = up[m]
           /\ up'[n].pc = pc /\ up'[n].mode = x
           /\ up'[n].at = up[n].at /\ up'[n].todo = up[n].todo
           /\ up'[n].promote = up[n].promote
<1>1. \A u \in UploadState : LET v == [u EXCEPT !.pc = pc, !.mode = x] IN
          /\ v \in UploadState
          /\ v.pc = pc /\ v.mode = x
          /\ v.at = u.at /\ v.todo = u.todo /\ v.promote = u.promote
  BY DEF UploadState
<1> DEFINE w == [up[n] EXCEPT !.pc = pc, !.mode = x]
<1>2. /\ w \in UploadState
      /\ w.pc = pc /\ w.mode = x
      /\ w.at = up[n].at /\ w.todo = up[n].todo /\ w.promote = up[n].promote
  BY <1>1
<1>3. Become(n, w)
  OBVIOUS
<1> HIDE DEF w
<1>4. /\ up' \in [Nonce -> UploadState] /\ up'[n] = w
      /\ \A m \in Nonce \ {n} : up'[m] = up[m]
  BY <1>2, <1>3, BecomeTyped
<1> QED
  BY <1>2, <1>4

LEMMA CachedTyped ==
    ASSUME up \in [Nonce -> UploadState], NEW n \in Nonce, NEW pc \in UploadPC,
           NEW c \in BOOLEAN,
           Become(n, [up[n] EXCEPT !.pc = pc, !.cached = c])
    PROVE  /\ up' \in [Nonce -> UploadState]
           /\ \A m \in Nonce \ {n} : up'[m] = up[m]
           /\ up'[n].pc = pc
           /\ up'[n].mode = up[n].mode /\ up'[n].at = up[n].at /\ up'[n].todo = up[n].todo
           /\ up'[n].promote = up[n].promote
<1>1. \A u \in UploadState : LET v == [u EXCEPT !.pc = pc, !.cached = c] IN
          /\ v \in UploadState
          /\ v.pc = pc
          /\ v.mode = u.mode /\ v.at = u.at /\ v.todo = u.todo /\ v.promote = u.promote
  BY DEF UploadState
<1> DEFINE w == [up[n] EXCEPT !.pc = pc, !.cached = c]
<1>2. /\ w \in UploadState
      /\ w.pc = pc
      /\ w.mode = up[n].mode /\ w.at = up[n].at /\ w.todo = up[n].todo
      /\ w.promote = up[n].promote
  BY <1>1
<1>3. Become(n, w)
  OBVIOUS
<1> HIDE DEF w
<1>4. /\ up' \in [Nonce -> UploadState] /\ up'[n] = w
      /\ \A m \in Nonce \ {n} : up'[m] = up[m]
  BY <1>2, <1>3, BecomeTyped
<1> QED
  BY <1>2, <1>4

LEMMA ZeroTyped ==
    ASSUME up \in [Nonce -> UploadState], NEW n \in Nonce, NEW pc \in UploadPC,
           NEW z \in BOOLEAN,
           Become(n, [up[n] EXCEPT !.pc = pc, !.zero = z])
    PROVE  /\ up' \in [Nonce -> UploadState]
           /\ \A m \in Nonce \ {n} : up'[m] = up[m]
           /\ up'[n].pc = pc
           /\ up'[n].mode = up[n].mode /\ up'[n].at = up[n].at /\ up'[n].todo = up[n].todo
           /\ up'[n].promote = up[n].promote
<1>1. \A u \in UploadState : LET v == [u EXCEPT !.pc = pc, !.zero = z] IN
          /\ v \in UploadState
          /\ v.pc = pc
          /\ v.mode = u.mode /\ v.at = u.at /\ v.todo = u.todo /\ v.promote = u.promote
  BY DEF UploadState
<1> DEFINE w == [up[n] EXCEPT !.pc = pc, !.zero = z]
<1>2. /\ w \in UploadState
      /\ w.pc = pc
      /\ w.mode = up[n].mode /\ w.at = up[n].at /\ w.todo = up[n].todo
      /\ w.promote = up[n].promote
  BY <1>1
<1>3. Become(n, w)
  OBVIOUS
<1> HIDE DEF w
<1>4. /\ up' \in [Nonce -> UploadState] /\ up'[n] = w
      /\ \A m \in Nonce \ {n} : up'[m] = up[m]
  BY <1>2, <1>3, BecomeTyped
<1> QED
  BY <1>2, <1>4

LEMMA RouteTyped ==
    ASSUME up \in [Nonce -> UploadState], NEW n \in Nonce, NEW pc \in UploadPC,
           NEW todo \in SUBSET Backend, NEW p \in Backend \cup {None},
           p # None => p \notin todo,
           Become(n, [up[n] EXCEPT !.pc = pc, !.todo = todo, !.promote = p])
    PROVE  /\ up' \in [Nonce -> UploadState]
           /\ \A m \in Nonce \ {n} : up'[m] = up[m]
           /\ up'[n].pc = pc /\ (up'[n].promote # None => up'[n].promote \notin up'[n].todo)
           /\ up'[n].mode = up[n].mode /\ up'[n].at = up[n].at
<1>1. \A u \in UploadState : LET v == [u EXCEPT !.pc = pc, !.todo = todo, !.promote = p] IN
          /\ v \in UploadState
          /\ v.pc = pc /\ (v.promote # None => v.promote \notin v.todo)
          /\ v.mode = u.mode /\ v.at = u.at
  BY DEF UploadState
<1> DEFINE w == [up[n] EXCEPT !.pc = pc, !.todo = todo, !.promote = p]
<1>2. /\ w \in UploadState
      /\ w.pc = pc /\ (w.promote # None => w.promote \notin w.todo)
      /\ w.mode = up[n].mode /\ w.at = up[n].at
  BY <1>1
<1>3. Become(n, w)
  OBVIOUS
<1> HIDE DEF w
<1>4. /\ up' \in [Nonce -> UploadState] /\ up'[n] = w
      /\ \A m \in Nonce \ {n} : up'[m] = up[m]
  BY <1>2, <1>3, BecomeTyped
<1> QED
  BY <1>2, <1>4

LEMMA ChooseTyped ==
    ASSUME up \in [Nonce -> UploadState], NEW n \in Nonce, NEW T \in SUBSET Backend,
           Become(n, [up[n] EXCEPT !.pc = "record", !.todo = T])
    PROVE  /\ up' \in [Nonce -> UploadState]
           /\ \A m \in Nonce \ {n} : up'[m] = up[m]
           /\ up'[n].pc = "record" /\ up'[n].mode = up[n].mode /\ up'[n].at = up[n].at
           /\ up'[n].todo = T /\ up'[n].promote = up[n].promote
<1>1. \A u \in UploadState : LET v == [u EXCEPT !.pc = "record", !.todo = T] IN
          /\ v \in UploadState
          /\ v.pc = "record" /\ v.mode = u.mode /\ v.at = u.at
          /\ v.todo = T /\ v.promote = u.promote
  BY DEF UploadState, UploadPC, Running
<1> DEFINE w == [up[n] EXCEPT !.pc = "record", !.todo = T]
<1>2. /\ w \in UploadState
      /\ w.pc = "record" /\ w.mode = up[n].mode /\ w.at = up[n].at
      /\ w.todo = T /\ w.promote = up[n].promote
  BY <1>1
<1>3. Become(n, w)
  OBVIOUS
<1> HIDE DEF w
<1>4. /\ up' \in [Nonce -> UploadState] /\ up'[n] = w
      /\ \A m \in Nonce \ {n} : up'[m] = up[m]
  BY <1>2, <1>3, BecomeTyped
<1> QED
  BY <1>2, <1>4

LEMMA SendTyped ==
    ASSUME up \in [Nonce -> UploadState], NEW n \in Nonce, NEW pc \in UploadPC,
           NEW b \in Backend, NEW at \in Backend \cup {None},
           Become(n, [up[n] EXCEPT !.todo = @ \ {b}, !.pc = pc, !.at = at])
    PROVE  /\ up' \in [Nonce -> UploadState]
           /\ \A m \in Nonce \ {n} : up'[m] = up[m]
           /\ up'[n].pc = pc /\ up'[n].at = at /\ \A c : c \in up'[n].todo => c \in up[n].todo /\ c # b
           /\ up'[n].mode = up[n].mode /\ up'[n].promote = up[n].promote
<1>1. \A u \in UploadState : LET v == [u EXCEPT !.todo = @ \ {b}, !.pc = pc, !.at = at] IN
          /\ v \in UploadState
          /\ v.pc = pc /\ v.at = at /\ \A c : c \in v.todo => c \in u.todo /\ c # b
          /\ v.mode = u.mode /\ v.promote = u.promote
  BY DEF UploadState
<1> DEFINE w == [up[n] EXCEPT !.todo = @ \ {b}, !.pc = pc, !.at = at]
<1>2. /\ w \in UploadState
      /\ w.pc = pc /\ w.at = at /\ \A c : c \in w.todo => c \in up[n].todo /\ c # b
      /\ w.mode = up[n].mode /\ w.promote = up[n].promote
  BY <1>1
<1>3. Become(n, w)
  OBVIOUS
<1> HIDE DEF w
<1>4. /\ up' \in [Nonce -> UploadState] /\ up'[n] = w
      /\ \A m \in Nonce \ {n} : up'[m] = up[m]
  BY <1>2, <1>3, BecomeTyped
<1> QED
  BY <1>2, <1>4

LEMMA AtTyped ==
    ASSUME up \in [Nonce -> UploadState], NEW n \in Nonce, NEW pc \in UploadPC,
           NEW at \in Backend \cup {None},
           Become(n, [up[n] EXCEPT !.pc = pc, !.at = at])
    PROVE  /\ up' \in [Nonce -> UploadState]
           /\ \A m \in Nonce \ {n} : up'[m] = up[m]
           /\ up'[n].pc = pc /\ up'[n].at = at
           /\ up'[n].mode = up[n].mode /\ up'[n].todo = up[n].todo
           /\ up'[n].promote = up[n].promote
<1>1. \A u \in UploadState : LET v == [u EXCEPT !.pc = pc, !.at = at] IN
          /\ v \in UploadState
          /\ v.pc = pc /\ v.at = at
          /\ v.mode = u.mode /\ v.todo = u.todo /\ v.promote = u.promote
  BY DEF UploadState
<1> DEFINE w == [up[n] EXCEPT !.pc = pc, !.at = at]
<1>2. /\ w \in UploadState
      /\ w.pc = pc /\ w.at = at
      /\ w.mode = up[n].mode /\ w.todo = up[n].todo /\ w.promote = up[n].promote
  BY <1>1
<1>3. Become(n, w)
  OBVIOUS
<1> HIDE DEF w
<1>4. /\ up' \in [Nonce -> UploadState] /\ up'[n] = w
      /\ \A m \in Nonce \ {n} : up'[m] = up[m]
  BY <1>2, <1>3, BecomeTyped
<1> QED
  BY <1>2, <1>4

\* A step of one upload leaves what belongs to the others.
Apart(n) ==
    /\ cleaner' = cleaner
    /\ \A m \in Nonce \ {n} :
           /\ up'[m] = up[m] /\ files'[m] = files[m]
           /\ m \in spool' <=> m \in spool
           /\ m \in aged' <=> m \in aged
           /\ m \in early' <=> m \in early
           /\ m \in broken' <=> m \in broken
           /\ objects'[m] = objects[m] /\ queued'[m] = queued[m]
           /\ promoted'[m] = promoted[m]

LEMMA Alone ==
    ASSUME IInv, NEW n \in Nonce, Apart(n), Whole(n)'
    PROVE  \A m \in Nonce : Whole(m)'
<1> SUFFICES ASSUME NEW m \in Nonce, m # n PROVE Whole(m)'
  OBVIOUS
<1>1. Whole(m) /\ up[m] \in UploadState
  BY DEF IInv, UploadTypes
<1>a. /\ cleaner' = cleaner /\ up'[m] = up[m] /\ files'[m] = files[m]
      /\ m \in spool' <=> m \in spool
      /\ m \in aged' <=> m \in aged
      /\ m \in early' <=> m \in early
      /\ m \in broken' <=> m \in broken
      /\ objects'[m] = objects[m] /\ queued'[m] = queued[m] /\ promoted'[m] = promoted[m]
  BY DEF Apart
<1> USE DEF At, Registered, UploadState
<1>2. Tried(m)'
  BY <1>1, <1>a, NoBackendAssumption DEF Whole, Tried
<1>3. Received(m)'
  BY <1>1, <1>a DEF Whole, Received
<1>4. Given(m)'
  BY <1>1, <1>a DEF Whole, Given
<1>5. Bare(m)'
  BY <1>1, <1>a DEF Whole, Bare
<1>6. Heeded(m)'
  BY <1>1, <1>a DEF Whole, Heeded
<1> QED
  BY <1>2, <1>3, <1>4, <1>5, <1>6 DEF Whole

LEMMA UserPreserves ==
    ASSUME IInv, NEW n \in Nonce, UserStep(n)
    PROVE  IInv'
<1>b. backendVars' = backendVars
  BY DEF UserStep, Receive, GrowStale, Drop, Abort, Confirm
<1>bi. BInv'
  BY <1>b, BackendsStutter DEF IInv
<1>t. up \in [Nonce -> UploadState]
  BY DEF IInv, UploadTypes
<1> USE DEF UploadPC, Running, At, Registered, Whole
<1>1. CASE Receive(n)
  <2>1. /\ up' \in [Nonce -> UploadState]
        /\ \A m \in Nonce : up'[m] = up[m]
             \/ (At(m, "none") /\ up'[m] = [NoUpload EXCEPT !.pc = "pending"])
             \/ (At(m, "stale") /\ up'[m] = [NoUpload EXCEPT !.pc = "dropped"])
    BY <1>1 DEF Receive, IInv, UploadTypes, UploadState, NoUpload
  <2>2. UploadTypes'
    BY <1>1, <2>1 DEF Receive, IInv, UploadTypes, diskVars, abortVars, rowVars
  <2>3. \A m \in Nonce : Whole(m)'
    BY <1>1, <2>1, NoBackendAssumption, LocalAssumption
       DEF Receive, IInv, UploadTypes, diskVars, abortVars, rowVars, NoUpload,
           Tried, Received, Given, Bare, Heeded
  <2> QED
    BY <1>bi, <2>2, <2>3 DEF IInv
<1>2. CASE GrowStale(n)
  <2>1. /\ up' \in [Nonce -> UploadState]
        /\ \A m \in Nonce \ {n} : up'[m] = up[m]
        /\ up'[n].pc = "stale" /\ up'[n].mode = up[n].mode /\ up'[n].at = up[n].at
        /\ up'[n].todo = up[n].todo /\ up'[n].promote = up[n].promote
    BY <1>2, <1>t, GoTyped DEF GrowStale
  <2>2. UploadTypes'
    BY <1>2, <2>1, FaultsAssumption
       DEF GrowStale, IInv, UploadTypes, abortVars, diskVars, rowVars, Fault, Break
  <2>3. Apart(n)
    BY <1>2, <2>1
       DEF GrowStale, Apart, IInv, UploadTypes, abortVars, diskVars, rowVars, Fault, Break
  <2>4. Whole(n)'
    BY <1>2, <2>1, NoBackendAssumption, LocalAssumption
       DEF GrowStale, IInv, UploadTypes, abortVars, diskVars, rowVars, Fault, Break,
           UploadState, Tried, Received, Given, Bare, Heeded
  <2> QED
    BY <1>bi, <2>2, <2>3, <2>4, Alone DEF IInv
<1>3. CASE Drop(n)
  <2>1. /\ up' \in [Nonce -> UploadState]
        /\ \A m \in Nonce \ {n} : up'[m] = up[m]
        /\ up'[n].pc = "dropped" /\ up'[n].mode = up[n].mode /\ up'[n].at = up[n].at
        /\ up'[n].todo = up[n].todo /\ up'[n].promote = up[n].promote
    BY <1>3, <1>t, GoTyped DEF Drop
  <2>2. UploadTypes'
    BY <1>3, <2>1, FaultsAssumption
       DEF Drop, IInv, UploadTypes, abortVars, diskVars, rowVars, Fault, Break
  <2>3. Apart(n)
    BY <1>3, <2>1
       DEF Drop, Apart, IInv, UploadTypes, abortVars, diskVars, rowVars, Fault, Break
  <2>4. Whole(n)'
    BY <1>3, <2>1, NoBackendAssumption, LocalAssumption
       DEF Drop, IInv, UploadTypes, abortVars, diskVars, rowVars, Fault, Break,
           UploadState, Tried, Received, Given, Bare, Heeded
  <2> QED
    BY <1>bi, <2>2, <2>3, <2>4, Alone DEF IInv
<1>4. CASE Abort(n)
  <2>1. /\ up' = up /\ UNCHANGED <<cache, spool, aged, objects, files, queued, promoted, cleaner, broken>>
        /\ \A m \in early' : m \in early \/ up[m].pc \in {"begin", "fetch", "open", "copy", "check", "send"}
    BY <1>4 DEF Abort, abortVars, diskVars, rowVars
  <2>2. UploadTypes'
    BY <1>4, <2>1 DEF Abort, IInv, UploadTypes
  <2>3. \A m \in Nonce : (Tried(m) /\ Received(m) /\ Given(m) /\ Bare(m))'
    BY <2>1 DEF IInv, Tried, Received, Given, Bare
  <2>4. \A m \in Nonce : Heeded(m)'
    BY <2>1, NoBackendAssumption DEF IInv, Given, Heeded
  <2> QED
    BY <1>bi, <2>2, <2>3, <2>4 DEF IInv
<1>5. ASSUME NEW p \in Backend \cup {None}, Confirm(n, p) PROVE IInv'
  <2>1. /\ up' \in [Nonce -> UploadState]
        /\ \A m \in Nonce \ {n} : up'[m] = up[m]
        /\ up'[n].pc = "begin" /\ up'[n].mode = up[n].mode /\ up'[n].at = up[n].at
        /\ up'[n].todo = up[n].todo /\ up'[n].promote = up[n].promote
    BY <1>5, <1>t, PrefTyped DEF Confirm
  <2>2. UploadTypes'
    BY <1>5, <2>1, FaultsAssumption
       DEF Confirm, IInv, UploadTypes, abortVars, diskVars, rowVars, Fault, Break
  <2>3. Apart(n)
    BY <1>5, <2>1
       DEF Confirm, Apart, IInv, UploadTypes, abortVars, diskVars, rowVars, Fault, Break
  <2>4. Whole(n)'
    BY <1>5, <2>1, NoBackendAssumption, LocalAssumption
       DEF Confirm, IInv, UploadTypes, abortVars, diskVars, rowVars, Fault, Break,
           UploadState, Tried, Received, Given, Bare, Heeded
  <2> QED
    BY <1>bi, <2>2, <2>3, <2>4, Alone DEF IInv
<1> QED
  BY <1>1, <1>2, <1>3, <1>4, <1>5 DEF UserStep

LEMMA UploadPreserves ==
    ASSUME IInv, NEW n \in Nonce, UploadStep(n)
    PROVE  IInv'
<1>b. backendVars' = backendVars
  BY
     DEF UploadStep, Begin, Fetched, Open, Copied, ReceptionAborted, TooLarge, Route,
         SendTo,
         SendAborted, Sent, SendFails, RegisterLocal, ChooseTargets, RegisterCloud,
         SweepSpool, Trouble, Undo, Withdraw, Close
<1>bi. BInv'
  BY <1>b, BackendsStutter DEF IInv
<1>t. up \in [Nonce -> UploadState]
  BY DEF IInv, UploadTypes
<1> USE DEF UploadPC, Running, At, Registered, Whole
<1>1. CASE Begin(n)
  <2>m. mode \in {"local", "s3"}
    BY DEF IInv, BInv, BackendsTypeOK
  <2>1. /\ up' \in [Nonce -> UploadState]
        /\ \A m \in Nonce \ {n} : up'[m] = up[m]
        /\ \/ up'[n].pc = "fetch" /\ up'[n].at = up[n].at /\ up'[n].todo = up[n].todo /\ up'[n].promote = up[n].promote
           \/ up'[n].pc = "lost" /\ up'[n].at = None /\ up'[n].promote = None
    BY <1>1, <1>t, <2>m, ModeTyped, EndTyped DEF Begin
  <2>2. UploadTypes'
    BY <1>1, <2>1, FaultsAssumption
       DEF Begin, IInv, UploadTypes, abortVars, diskVars, rowVars, Fault, Break
  <2>3. Apart(n)
    BY <1>1, <2>1
       DEF Begin, Apart, IInv, UploadTypes, abortVars, diskVars, rowVars, Fault, Break
  <2>4. Whole(n)'
    BY <1>1, <2>1, NoBackendAssumption, LocalAssumption
       DEF Begin, IInv, UploadTypes, abortVars, diskVars, rowVars, Fault, Break,
           UploadState, Tried, Received, Given, Bare, Heeded
  <2> QED
    BY <1>bi, <2>2, <2>3, <2>4, Alone DEF IInv
<1>2. CASE Fetched(n)
  <2>1. /\ up' \in [Nonce -> UploadState]
        /\ \A m \in Nonce \ {n} : up'[m] = up[m]
        /\ up'[n].pc = "open" /\ up'[n].mode = up[n].mode /\ up'[n].at = up[n].at
        /\ up'[n].todo = up[n].todo /\ up'[n].promote = up[n].promote
    BY <1>2, <1>t, CachedTyped DEF Fetched
  <2>2. UploadTypes'
    BY <1>2, <2>1, FaultsAssumption, FileAssumption
       DEF Fetched, IInv, UploadTypes, abortVars, diskVars, rowVars, Fault, Break
  <2>3. Apart(n)
    BY <1>2, <2>1
       DEF Fetched, Apart, IInv, UploadTypes, abortVars, diskVars, rowVars, Fault, Break
  <2>4. Whole(n)'
    BY <1>2, <2>1, NoBackendAssumption, LocalAssumption, FileAssumption
       DEF Fetched, IInv, UploadTypes, abortVars, diskVars, rowVars, Fault, Break,
           UploadState, Tried, Received, Given, Bare, Heeded
  <2> QED
    BY <1>bi, <2>2, <2>3, <2>4, Alone DEF IInv
<1>3. CASE Open(n)
  <2> DEFINE zero == up[n].cached /\ up[n].mode = "s3"
             missing == up[n].cached /\ FileOf[n] \notin cache
             pc == IF missing THEN "undo" ELSE IF zero THEN "check" ELSE "copy"
             z == zero /\ ~missing
  <2>p. /\ pc \in {"undo", "check", "copy"} /\ z \in BOOLEAN
        /\ pc = "check" => up[n].mode = "s3" /\ spool' = spool
        /\ pc = "copy" => spool' = spool \cup {n}
    BY <1>3 DEF Open
  <2>q. Become(n, [up[n] EXCEPT !.pc = pc, !.zero = z])
    BY <1>3 DEF Open
  <2> HIDE DEF zero, missing, pc, z
  <2>1. /\ up' \in [Nonce -> UploadState]
        /\ \A m \in Nonce \ {n} : up'[m] = up[m]
        /\ up'[n].pc \in {"undo", "check", "copy"} /\ up'[n].mode = up[n].mode
        /\ up'[n].at = up[n].at /\ up'[n].todo = up[n].todo
        /\ up'[n].promote = up[n].promote
        /\ up'[n].pc = "check" => up[n].mode = "s3" /\ spool' = spool
        /\ up'[n].pc = "copy" => spool' = spool \cup {n}
    BY <1>3, <1>t, <2>p, <2>q, ZeroTyped DEF Open
  <2>2. UploadTypes'
    BY <1>3, <2>1, FaultsAssumption
       DEF Open, IInv, UploadTypes, abortVars, diskVars, rowVars, Fault, Break
  <2>3. Apart(n)
    BY <1>3, <2>1
       DEF Open, Apart, IInv, UploadTypes, abortVars, diskVars, rowVars, Fault, Break
  <2>4. Whole(n)'
    BY <1>3, <2>1, NoBackendAssumption, LocalAssumption
       DEF Open, IInv, UploadTypes, abortVars, diskVars, rowVars, Fault, Break,
           UploadState, Tried, Received, Given, Bare, Heeded
  <2> QED
    BY <1>bi, <2>2, <2>3, <2>4, Alone DEF IInv
<1>4. CASE Copied(n)
  <2>1. /\ up' \in [Nonce -> UploadState]
        /\ \A m \in Nonce \ {n} : up'[m] = up[m]
        /\ up'[n].pc = "check" /\ up'[n].mode = up[n].mode /\ up'[n].at = up[n].at
        /\ up'[n].todo = up[n].todo /\ up'[n].promote = up[n].promote
    BY <1>4, <1>t, GoTyped DEF Copied, UploadState
  <2>2. UploadTypes'
    BY <1>4, <2>1, FaultsAssumption
       DEF Copied, IInv, UploadTypes, abortVars, diskVars, rowVars, Fault, Break,
          LeaveCache, DropSpool
  <2>3. Apart(n)
    BY <1>4, <2>1
       DEF Copied, Apart, IInv, UploadTypes, abortVars, diskVars, rowVars, Fault, Break,
           LeaveCache, DropSpool
  <2>4. Whole(n)'
    BY <1>4, <2>1, NoBackendAssumption, LocalAssumption
       DEF Copied, IInv, UploadTypes, abortVars, diskVars, rowVars, Fault, Break,
          LeaveCache, DropSpool,
           UploadState, Tried, Received, Given, Bare, Heeded
  <2> QED
    BY <1>bi, <2>2, <2>3, <2>4, Alone DEF IInv
<1>5. CASE ReceptionAborted(n)
  <2>1. /\ up' \in [Nonce -> UploadState]
        /\ \A m \in Nonce \ {n} : up'[m] = up[m]
        /\ up'[n].pc = "undo" /\ up'[n].mode = up[n].mode /\ up'[n].at = up[n].at
        /\ up'[n].todo = up[n].todo /\ up'[n].promote = up[n].promote
    BY <1>5, <1>t, GoTyped DEF ReceptionAborted, UploadState
  <2>2. UploadTypes'
    BY <1>5, <2>1, FaultsAssumption
       DEF ReceptionAborted, IInv, UploadTypes, abortVars, diskVars, rowVars, Fault,
          Break, LeaveCache, DropSpool
  <2>3. Apart(n)
    BY <1>5, <2>1
       DEF ReceptionAborted, Apart, IInv, UploadTypes, abortVars, diskVars, rowVars,
           Fault, Break, LeaveCache, DropSpool
  <2>4. Whole(n)'
    BY <1>5, <2>1, NoBackendAssumption, LocalAssumption
       DEF ReceptionAborted, IInv, UploadTypes, abortVars, diskVars, rowVars, Fault,
          Break, LeaveCache, DropSpool,
           UploadState, Tried, Received, Given, Bare, Heeded
  <2> QED
    BY <1>bi, <2>2, <2>3, <2>4, Alone DEF IInv
<1>6. CASE TooLarge(n)
  <2>1. /\ up' \in [Nonce -> UploadState]
        /\ \A m \in Nonce \ {n} : up'[m] = up[m]
        /\ up'[n].pc = "close" /\ up'[n].mode = up[n].mode /\ up'[n].at = up[n].at
        /\ up'[n].todo = up[n].todo /\ up'[n].promote = up[n].promote
    BY <1>6, <1>t, GoTyped DEF TooLarge, UploadState
  <2>2. UploadTypes'
    BY <1>6, <2>1, FaultsAssumption
       DEF TooLarge, IInv, UploadTypes, abortVars, diskVars, rowVars, Fault, Break,
          LeaveCache, DropSpool
  <2>3. Apart(n)
    BY <1>6, <2>1
       DEF TooLarge, Apart, IInv, UploadTypes, abortVars, diskVars, rowVars, Fault,
           Break, LeaveCache, DropSpool
  <2>4. Whole(n)'
    BY <1>6, <2>1, NoBackendAssumption, LocalAssumption
       DEF TooLarge, IInv, UploadTypes, abortVars, diskVars, rowVars, Fault, Break,
          LeaveCache, DropSpool,
           UploadState, Tried, Received, Given, Bare, Heeded
  <2> QED
    BY <1>bi, <2>2, <2>3, <2>4, Alone DEF IInv
<1>7. CASE Route(n)
  <2>1. /\ up' \in [Nonce -> UploadState]
        /\ \A m \in Nonce \ {n} : up'[m] = up[m]
        /\ up'[n].at = None
        /\ \/ up'[n].mode = "local" /\ up'[n].pc = "register" /\ up'[n].promote = up[n].promote
              /\ up'[n].todo = up[n].todo /\ up[n].mode = "local"
           \/ /\ up'[n].pc \in {"undo", "send"} /\ up'[n].mode = "s3"
              /\ up'[n].promote # None => up'[n].promote \notin up'[n].todo
    <3>a. up[n].at = None /\ up[n].mode \in {"local", "s3"}
      BY <1>7, <1>t DEF Route, IInv, Tried, UploadState
    <3>l. CASE up[n].mode = "local"
      <4>1. Go(n, "register")
        BY <1>7, <3>l DEF Route
      <4> QED
        BY <4>1, <1>t, <3>l, <3>a, GoTyped
    <3>s. CASE up[n].mode = "s3"
      <4>1. PICK r \in Routes(n) :
                Become(n, [up[n] EXCEPT !.pc = IF r.todo = {} \/ ~Source(n) THEN "undo" ELSE "send",
                                        !.todo = r.todo, !.promote = r.promote])
        BY <1>7, <3>s DEF Route
      <4> DEFINE pc == IF r.todo = {} \/ ~Source(n) THEN "undo" ELSE "send"
                 todo == r.todo
                 to == r.promote
      <4>2. /\ todo \in SUBSET Backend /\ to \in Backend \cup {None}
            /\ to # None => to \notin todo
        BY <1>t, NoBackendAssumption DEF Routes, Eligible, UploadState
      <4>3. pc \in {"undo", "send"}
        OBVIOUS
      <4>4. Become(n, [up[n] EXCEPT !.pc = pc, !.todo = todo, !.promote = to])
        BY <4>1
      <4> HIDE DEF pc, todo, to
      <4>5. pc \in UploadPC
        BY <4>3
      <4>6. /\ up' \in [Nonce -> UploadState]
            /\ \A m \in Nonce \ {n} : up'[m] = up[m]
            /\ up'[n].pc = pc
            /\ up'[n].promote # None => up'[n].promote \notin up'[n].todo
            /\ up'[n].mode = up[n].mode /\ up'[n].at = up[n].at
        BY <1>t, <4>2, <4>4, <4>5, RouteTyped
      <4> QED
        BY <3>a, <3>s, <4>2, <4>3, <4>6
    <3> QED
      BY <3>a, <3>l, <3>s
  <2>2. UploadTypes'
    BY <1>7, <2>1, FaultsAssumption
       DEF Route, IInv, UploadTypes, abortVars, diskVars, rowVars, Fault, Break
  <2>3. Apart(n)
    BY <1>7, <2>1
       DEF Route, Apart, IInv, UploadTypes, abortVars, diskVars, rowVars, Fault, Break
  <2>5. Tried(n)'
    BY <1>7, <2>1, NoBackendAssumption, LocalAssumption
       DEF Route, IInv, UploadTypes, abortVars, diskVars, rowVars, Fault, Break,
          UploadState, Tried
  <2>6. Received(n)'
    BY <1>7, <2>1, NoBackendAssumption, LocalAssumption
       DEF Route, IInv, UploadTypes, abortVars, diskVars, rowVars, Fault, Break,
          UploadState, Tried, Received
  <2>7. Given(n)'
    BY <1>7, <2>1, NoBackendAssumption, LocalAssumption
       DEF Route, IInv, UploadTypes, abortVars, diskVars, rowVars, Fault, Break,
          UploadState, Tried, Received, Given, Bare
  <2>8. Bare(n)'
    BY <1>7, <2>1, NoBackendAssumption, LocalAssumption
       DEF Route, IInv, UploadTypes, abortVars, diskVars, rowVars, Fault, Break,
          UploadState, Tried, Received, Given, Bare
  <2>9. Heeded(n)'
    BY <1>7, <2>1, NoBackendAssumption, LocalAssumption
       DEF Route, IInv, UploadTypes, abortVars, diskVars, rowVars, Fault, Break,
          UploadState, Given, Heeded
  <2>4. Whole(n)'
    BY <2>5, <2>6, <2>7, <2>8, <2>9
  <2> QED
    BY <1>bi, <2>2, <2>3, <2>4, Alone DEF IInv
<1>8. ASSUME NEW b \in Backend, SendTo(n, b) PROVE IInv'
  <2>1. /\ up' \in [Nonce -> UploadState]
        /\ \A m \in Nonce \ {n} : up'[m] = up[m]
        /\ \/ up'[n].pc = "sending" /\ up'[n].at = b
           \/ up'[n].pc \in {"undo", "send"} /\ up'[n].at = None
        /\ \A c : c \in up'[n].todo => c \in up[n].todo /\ c # b
        /\ up'[n].mode = up[n].mode /\ up'[n].promote = up[n].promote
    <3> DEFINE pc == IF Source(n) THEN "sending"
                     ELSE IF up[n].todo = {b} THEN "undo" ELSE "send"
               at == IF Source(n) THEN b ELSE None
    <3>1. \/ pc = "sending" /\ at = b
          \/ pc \in {"undo", "send"} /\ at = None
      OBVIOUS
    <3>2. Become(n, [up[n] EXCEPT !.todo = @ \ {b}, !.pc = pc, !.at = at])
      BY <1>8 DEF SendTo
    <3> HIDE DEF pc, at
    <3>3. pc \in UploadPC /\ at \in Backend \cup {None}
      BY <3>1
    <3>4. /\ up' \in [Nonce -> UploadState]
          /\ \A m \in Nonce \ {n} : up'[m] = up[m]
          /\ up'[n].pc = pc /\ up'[n].at = at
          /\ \A c : c \in up'[n].todo => c \in up[n].todo /\ c # b
          /\ up'[n].mode = up[n].mode /\ up'[n].promote = up[n].promote
      BY <1>t, <3>2, <3>3, SendTyped
    <3> QED
      BY <3>1, <3>4
  <2>2. UploadTypes'
    BY <1>8, <2>1, FaultsAssumption
       DEF SendTo, IInv, UploadTypes, abortVars, diskVars, rowVars, Fault, Break
  <2>3. Apart(n)
    BY <1>8, <2>1
       DEF SendTo, Apart, IInv, UploadTypes, abortVars, diskVars, rowVars, Fault, Break
  <2>4. Whole(n)'
    BY <1>8, <2>1, NoBackendAssumption, LocalAssumption
       DEF SendTo, IInv, UploadTypes, abortVars, diskVars, rowVars, Fault, Break,
           UploadState, Tried, Received, Given, Bare, Heeded
  <2> QED
    BY <1>bi, <2>2, <2>3, <2>4, Alone DEF IInv
<1>9. CASE SendAborted(n)
  <2>1. /\ up' \in [Nonce -> UploadState]
        /\ \A m \in Nonce \ {n} : up'[m] = up[m]
        /\ up'[n].pc = "undo" /\ up'[n].at = None /\ up'[n].mode = up[n].mode
        /\ up'[n].todo = up[n].todo /\ up'[n].promote = up[n].promote
    BY <1>9, <1>t, AtTyped DEF SendAborted
  <2>2. UploadTypes'
    BY <1>9, <2>1, FaultsAssumption
       DEF SendAborted, IInv, UploadTypes, abortVars, diskVars, rowVars, Fault, Break
  <2>3. Apart(n)
    BY <1>9, <2>1
       DEF SendAborted, Apart, IInv, UploadTypes, abortVars, diskVars, rowVars, Fault, Break
  <2>4. Whole(n)'
    BY <1>9, <2>1, NoBackendAssumption, LocalAssumption
       DEF SendAborted, IInv, UploadTypes, abortVars, diskVars, rowVars, Fault, Break,
           UploadState, Tried, Received, Given, Bare, Heeded
  <2> QED
    BY <1>bi, <2>2, <2>3, <2>4, Alone DEF IInv
<1>10. CASE Sent(n)
  <2>1. /\ up' \in [Nonce -> UploadState]
        /\ \A m \in Nonce \ {n} : up'[m] = up[m]
        /\ up'[n].pc = "register" /\ up'[n].mode = up[n].mode /\ up'[n].at = up[n].at
        /\ up'[n].todo = up[n].todo /\ up'[n].promote = up[n].promote
    BY <1>10, <1>t, GoTyped DEF Sent, UploadState
  <2>2. UploadTypes'
    BY <1>10, <2>1, FaultsAssumption
       DEF Sent, IInv, UploadTypes, abortVars, diskVars, rowVars, Fault, Break,
          LeaveCache, DropSpool, Tried
  <2>3. Apart(n)
    BY <1>10, <2>1
       DEF Sent, Apart, IInv, UploadTypes, abortVars, diskVars, rowVars, Fault, Break,
           LeaveCache, DropSpool
  <2>5. Tried(n)'
    BY <1>10, <2>1, NoBackendAssumption, LocalAssumption
       DEF Sent, IInv, UploadTypes, abortVars, diskVars, rowVars, Fault, Break,
          LeaveCache, DropSpool, UploadState, Tried
  <2>6. Received(n)'
    BY <1>10, <2>1, NoBackendAssumption, LocalAssumption
       DEF Sent, IInv, UploadTypes, abortVars, diskVars, rowVars, Fault, Break,
          LeaveCache, DropSpool, UploadState, Tried, Received
  <2>7. Given(n)'
    BY <1>10, <2>1, NoBackendAssumption, LocalAssumption
       DEF Sent, IInv, UploadTypes, abortVars, diskVars, rowVars, Fault, Break,
          LeaveCache, DropSpool, UploadState, Tried, Received, Given, Bare
  <2>8. Bare(n)'
    BY <1>10, <2>1, NoBackendAssumption, LocalAssumption
       DEF Sent, IInv, UploadTypes, abortVars, diskVars, rowVars, Fault, Break,
          LeaveCache, DropSpool, UploadState, Tried, Received, Given, Bare
  <2>9. Heeded(n)'
    BY <1>10, <2>1, NoBackendAssumption, LocalAssumption
       DEF Sent, IInv, UploadTypes, abortVars, diskVars, rowVars, Fault, Break,
          LeaveCache, DropSpool, UploadState, Given, Heeded
  <2>4. Whole(n)'
    BY <2>5, <2>6, <2>7, <2>8, <2>9
  <2> QED
    BY <1>bi, <2>2, <2>3, <2>4, Alone DEF IInv
<1>11. CASE SendFails(n)
  <2>1. /\ up' \in [Nonce -> UploadState]
        /\ \A m \in Nonce \ {n} : up'[m] = up[m]
        /\ up'[n].pc \in {"undo", "send"} /\ up'[n].at = None /\ up'[n].mode = up[n].mode
        /\ up'[n].todo = up[n].todo /\ up'[n].promote = up[n].promote
    BY <1>11, <1>t, AtTyped DEF SendFails
  <2>2. UploadTypes'
    BY <1>11, <2>1, FaultsAssumption
       DEF SendFails, IInv, UploadTypes, abortVars, diskVars, rowVars, Fault, Break, Tried
  <2>3. Apart(n)
    BY <1>11, <2>1
       DEF SendFails, Apart, IInv, UploadTypes, abortVars, diskVars, rowVars, Fault, Break
  <2>5. Tried(n)'
    BY <1>11, <2>1, NoBackendAssumption, LocalAssumption
       DEF SendFails, IInv, UploadTypes, abortVars, diskVars, rowVars, Fault, Break,
          UploadState, Tried
  <2>6. Received(n)'
    BY <1>11, <2>1, NoBackendAssumption, LocalAssumption
       DEF SendFails, IInv, UploadTypes, abortVars, diskVars, rowVars, Fault, Break,
          UploadState, Tried, Received
  <2>7. Given(n)'
    BY <1>11, <2>1, NoBackendAssumption, LocalAssumption
       DEF SendFails, IInv, UploadTypes, abortVars, diskVars, rowVars, Fault, Break,
          UploadState, Tried, Received, Given, Bare
  <2>8. Bare(n)'
    BY <1>11, <2>1, NoBackendAssumption, LocalAssumption
       DEF SendFails, IInv, UploadTypes, abortVars, diskVars, rowVars, Fault, Break,
          UploadState, Tried, Received, Given, Bare
  <2>9. Heeded(n)'
    BY <1>11, <2>1, NoBackendAssumption, LocalAssumption
       DEF SendFails, IInv, UploadTypes, abortVars, diskVars, rowVars, Fault, Break,
          UploadState, Given, Heeded
  <2>4. Whole(n)'
    BY <2>5, <2>6, <2>7, <2>8, <2>9
  <2> QED
    BY <1>bi, <2>2, <2>3, <2>4, Alone DEF IInv
<1>12. CASE RegisterLocal(n)
  <2>1. /\ up' \in [Nonce -> UploadState]
        /\ \A m \in Nonce \ {n} : up'[m] = up[m]
        /\ up'[n].pc = "close" /\ up'[n].mode = up[n].mode /\ up'[n].at = up[n].at
        /\ up'[n].todo = up[n].todo /\ up'[n].promote = up[n].promote
    BY <1>12, <1>t, GoTyped DEF RegisterLocal, UploadState
  <2>2. UploadTypes'
    BY <1>12, <2>1, FaultsAssumption
       DEF RegisterLocal, IInv, UploadTypes, abortVars, diskVars, rowVars, Fault, Break,
          LeaveCache, DropSpool
  <2>3. Apart(n)
    BY <1>12, <2>1
       DEF RegisterLocal, Apart, IInv, UploadTypes, abortVars, diskVars, rowVars, Fault,
           Break, LeaveCache, DropSpool
  <2>5. Tried(n)'
    BY <1>12, <2>1, NoBackendAssumption, LocalAssumption
       DEF RegisterLocal, IInv, UploadTypes, abortVars, diskVars, rowVars, Fault, Break,
          LeaveCache, DropSpool, UploadState, Tried
  <2>6. Received(n)'
    BY <1>12, <2>1, NoBackendAssumption, LocalAssumption
       DEF RegisterLocal, IInv, UploadTypes, abortVars, diskVars, rowVars, Fault, Break,
          LeaveCache, DropSpool, UploadState, Tried, Received
  <2>7. Given(n)'
    BY <1>12, <2>1, NoBackendAssumption, LocalAssumption
       DEF RegisterLocal, IInv, UploadTypes, abortVars, diskVars, rowVars, Fault, Break,
          LeaveCache, DropSpool, UploadState, Tried, Received, Given, Bare
  <2>8. Bare(n)'
    BY <1>12, <2>1, NoBackendAssumption, LocalAssumption
       DEF RegisterLocal, IInv, UploadTypes, abortVars, diskVars, rowVars, Fault, Break,
          LeaveCache, DropSpool, UploadState, Tried, Received, Given, Bare
  <2>9. Heeded(n)'
    BY <1>12, <2>1, NoBackendAssumption, LocalAssumption
       DEF RegisterLocal, IInv, UploadTypes, abortVars, diskVars, rowVars, Fault, Break,
          LeaveCache, DropSpool, UploadState, Given, Heeded
  <2>4. Whole(n)'
    BY <2>5, <2>6, <2>7, <2>8, <2>9
  <2> QED
    BY <1>bi, <2>2, <2>3, <2>4, Alone DEF IInv
<1>13. CASE RegisterCloud(n)
  <2>1. /\ up' \in [Nonce -> UploadState]
        /\ \A m \in Nonce \ {n} : up'[m] = up[m]
        /\ up'[n].pc \in {"sweep", "close"} /\ up'[n].mode = up[n].mode
        /\ up'[n].at = up[n].at /\ up'[n].todo = up[n].todo
        /\ up'[n].promote = up[n].promote
    BY <1>13, <1>t, GoTyped DEF RegisterCloud, UploadState
  <2>2. UploadTypes'
    <3>1. up[n].todo \subseteq Backend
      BY <1>t DEF UploadState
    <3>2. /\ queued' \in [Nonce -> SUBSET Backend] /\ promoted' \in [Nonce -> SUBSET Backend]
      BY <1>13, <3>1 DEF RegisterCloud, IInv, UploadTypes
    <3>3. files' \in [Nonce -> Backend \cup {Local, None}]
      BY <1>13, <1>t DEF RegisterCloud, IInv, UploadTypes, UploadState
    <3> QED
      BY <1>13, <2>1, <3>2, <3>3 DEF RegisterCloud, IInv, UploadTypes, abortVars, diskVars
  <2>3. Apart(n)
    BY <1>13, <2>1
       DEF RegisterCloud, Apart, IInv, UploadTypes, abortVars, diskVars, rowVars, Fault,
           Break, LeaveCache, DropSpool
  <2>5. Tried(n)'
    BY <1>13, <2>1, NoBackendAssumption, LocalAssumption
       DEF RegisterCloud, IInv, UploadTypes, abortVars, diskVars, rowVars, Fault, Break,
          LeaveCache, DropSpool, UploadState, Tried
  <2>6. Received(n)'
    BY <1>13, <2>1, NoBackendAssumption, LocalAssumption
       DEF RegisterCloud, IInv, UploadTypes, abortVars, diskVars, rowVars, Fault, Break,
          LeaveCache, DropSpool, UploadState, Tried, Received
  <2>7. Given(n)'
    BY <1>13, <2>1, NoBackendAssumption, LocalAssumption
       DEF RegisterCloud, IInv, UploadTypes, abortVars, diskVars, rowVars, Fault, Break,
          LeaveCache, DropSpool, UploadState, Tried, Received, Given, Bare
  <2>8. Bare(n)'
    BY <1>13, <2>1, NoBackendAssumption, LocalAssumption
       DEF RegisterCloud, IInv, UploadTypes, abortVars, diskVars, rowVars, Fault, Break,
          LeaveCache, DropSpool, UploadState, Tried, Received, Given, Bare
  <2>9. Heeded(n)'
    BY <1>13, <2>1, NoBackendAssumption, LocalAssumption
       DEF RegisterCloud, IInv, UploadTypes, abortVars, diskVars, rowVars, Fault, Break,
          LeaveCache, DropSpool, UploadState, Given, Heeded
  <2>4. Whole(n)'
    BY <2>5, <2>6, <2>7, <2>8, <2>9
  <2> QED
    BY <1>bi, <2>2, <2>3, <2>4, Alone DEF IInv
<1>20. CASE ChooseTargets(n)
  <2>r. PICK T \in ReplicationTargets(n) :
            Become(n, [up[n] EXCEPT !.pc = "record", !.todo = T])
    BY <1>20 DEF ChooseTargets
  <2>a. up[n].at \in Backend /\ up[n].promote \in Backend \cup {None}
    BY <1>20, <1>t DEF ChooseTargets, IInv, UploadTypes, Tried, UploadState
  <2>p. up[n].promote # None => up[n].promote # up[n].at
    BY <1>20 DEF ChooseTargets, IInv, Tried
  <2>s. /\ T \subseteq Backend /\ up[n].at \notin T
        /\ up[n].promote = None \/ T = {up[n].promote}
    BY <2>a, <2>p DEF ReplicationTargets, Eligible
  <2>1. /\ up' \in [Nonce -> UploadState]
        /\ \A m \in Nonce \ {n} : up'[m] = up[m]
        /\ up'[n].pc = "record" /\ up'[n].mode = up[n].mode /\ up'[n].at = up[n].at
        /\ up'[n].todo = T /\ up'[n].promote = up[n].promote
    BY <1>t, <2>r, <2>s, ChooseTyped
  <2>2. UploadTypes'
    BY <1>20, <2>1
       DEF ChooseTargets, IInv, UploadTypes, abortVars, diskVars, rowVars
  <2>3. Apart(n)
    BY <1>20, <2>1 DEF ChooseTargets, Apart, IInv, UploadTypes, abortVars, diskVars, rowVars
  <2>4. Whole(n)'
    BY <1>20, <2>1, <2>s, NoBackendAssumption, LocalAssumption
       DEF ChooseTargets, IInv, UploadTypes, abortVars, diskVars, rowVars,
           UploadState, Tried, Received, Given, Bare, Heeded
  <2> QED
    BY <1>bi, <2>2, <2>3, <2>4, Alone DEF IInv
<1>14. CASE SweepSpool(n)
  <2>1. /\ up' \in [Nonce -> UploadState]
        /\ \A m \in Nonce \ {n} : up'[m] = up[m]
        /\ up'[n].pc \in {"close", "undo"} /\ up'[n].mode = up[n].mode
        /\ up'[n].at = up[n].at /\ up'[n].todo = up[n].todo
        /\ up'[n].promote = up[n].promote
        /\ up'[n].pc = "undo" => n \in broken'
    BY <1>14, <1>t, GoTyped DEF SweepSpool, UploadState, Break
  <2>2. UploadTypes'
    BY <1>14, <2>1, FaultsAssumption
       DEF SweepSpool, IInv, UploadTypes, abortVars, diskVars, rowVars, Fault, Break,
          LeaveCache, DropSpool
  <2>3. Apart(n)
    BY <1>14, <2>1
       DEF SweepSpool, Apart, IInv, UploadTypes, abortVars, diskVars, rowVars, Fault,
           Break, LeaveCache, DropSpool
  <2>5. Tried(n)'
    BY <1>14, <2>1, NoBackendAssumption, LocalAssumption
       DEF SweepSpool, IInv, UploadTypes, abortVars, diskVars, rowVars, Fault, Break,
          LeaveCache, DropSpool, UploadState, Tried
  <2>6. Received(n)'
    BY <1>14, <2>1, NoBackendAssumption, LocalAssumption
       DEF SweepSpool, IInv, UploadTypes, abortVars, diskVars, rowVars, Fault, Break,
          LeaveCache, DropSpool, UploadState, Tried, Received
  <2>7. Given(n)'
    BY <1>14, <2>1, NoBackendAssumption, LocalAssumption
       DEF SweepSpool, IInv, UploadTypes, abortVars, diskVars, rowVars, Fault, Break,
          LeaveCache, DropSpool, UploadState, Tried, Received, Given, Bare
  <2>8. Bare(n)'
    BY <1>14, <2>1, NoBackendAssumption, LocalAssumption
       DEF SweepSpool, IInv, UploadTypes, abortVars, diskVars, rowVars, Fault, Break,
          LeaveCache, DropSpool, UploadState, Tried, Received, Given, Bare
  <2>9. Heeded(n)'
    BY <1>14, <2>1, NoBackendAssumption, LocalAssumption
       DEF SweepSpool, IInv, UploadTypes, abortVars, diskVars, rowVars, Fault, Break,
          LeaveCache, DropSpool, UploadState, Given, Heeded
  <2>4. Whole(n)'
    BY <2>5, <2>6, <2>7, <2>8, <2>9
  <2> QED
    BY <1>bi, <2>2, <2>3, <2>4, Alone DEF IInv
<1>15. CASE Trouble(n)
  <2>1. /\ up' \in [Nonce -> UploadState]
        /\ \A m \in Nonce \ {n} : up'[m] = up[m]
        /\ up'[n].pc = "undo" /\ up'[n].mode = up[n].mode /\ up'[n].at = up[n].at
        /\ up'[n].todo = up[n].todo /\ up'[n].promote = up[n].promote
    BY <1>15, <1>t, GoTyped DEF Trouble, UploadState
  <2>2. UploadTypes'
    BY <1>15, <2>1, FaultsAssumption
       DEF Trouble, IInv, UploadTypes, abortVars, diskVars, rowVars, Fault, Break,
          LeaveCache, DropSpool
  <2>3. Apart(n)
    BY <1>15, <2>1
       DEF Trouble, Apart, IInv, UploadTypes, abortVars, diskVars, rowVars, Fault, Break,
           LeaveCache, DropSpool
  <2>4. Whole(n)'
    BY <1>15, <2>1, NoBackendAssumption, LocalAssumption
       DEF Trouble, IInv, UploadTypes, abortVars, diskVars, rowVars, Fault, Break,
          LeaveCache, DropSpool,
           UploadState, Tried, Received, Given, Bare, Heeded
  <2> QED
    BY <1>bi, <2>2, <2>3, <2>4, Alone DEF IInv
<1>16. CASE Undo(n)
  <2>1. /\ up' \in [Nonce -> UploadState]
        /\ \A m \in Nonce \ {n} : up'[m] = up[m]
        /\ up'[n].mode = up[n].mode /\ up'[n].at = up[n].at /\ up'[n].todo = up[n].todo
        /\ up'[n].promote = up[n].promote
        /\ \/ up'[n].pc = "withdraw" /\ up[n].at # None /\ n \notin spool' /\ broken' = broken
           \/ up'[n].pc = "close" /\ up[n].at = None /\ n \notin spool' /\ broken' = broken
           \/ up'[n].pc = "close" /\ n \in broken'
    <3>1. CASE up[n].at = None /\ Go(n, "close")
      BY <1>16, <1>t, <3>1, GoTyped DEF Undo, DropSpool, Break
    <3>2. CASE up[n].at # None /\ Go(n, "withdraw") /\ n \notin spool' /\ broken' = broken
      BY <1>16, <1>t, <3>2, GoTyped DEF Undo
    <3>3. CASE up[n].at # None /\ Go(n, "close") /\ n \in broken'
      BY <1>16, <1>t, <3>3, GoTyped DEF Undo
    <3> QED
      BY <1>16, <3>1, <3>2, <3>3 DEF Undo, DropSpool, Break
  <2>2. UploadTypes'
    BY <1>16, <2>1, FaultsAssumption
       DEF Undo, IInv, UploadTypes, abortVars, diskVars, rowVars, Fault, Break,
          LeaveCache, DropSpool
  <2>3. Apart(n)
    BY <1>16, <2>1
       DEF Undo, Apart, IInv, UploadTypes, abortVars, diskVars, rowVars, Fault, Break,
           LeaveCache, DropSpool
  <2>5. Tried(n)'
    BY <1>16, <2>1, NoBackendAssumption, LocalAssumption
       DEF Undo, IInv, UploadTypes, abortVars, diskVars, rowVars, Fault, Break,
          LeaveCache, DropSpool, UploadState, Tried
  <2>6. Received(n)'
    BY <1>16, <2>1, NoBackendAssumption, LocalAssumption
       DEF Undo, IInv, UploadTypes, abortVars, diskVars, rowVars, Fault, Break,
          LeaveCache, DropSpool, UploadState, Tried, Received
  <2>7. Given(n)'
    BY <1>16, <2>1, NoBackendAssumption, LocalAssumption
       DEF Undo, IInv, UploadTypes, abortVars, diskVars, rowVars, Fault, Break,
          LeaveCache, DropSpool, UploadState, Tried, Received, Given, Bare
  <2>8. Bare(n)'
    BY <1>16, <2>1, NoBackendAssumption, LocalAssumption
       DEF Undo, IInv, UploadTypes, abortVars, diskVars, rowVars, Fault, Break,
          LeaveCache, DropSpool, UploadState, Tried, Received, Given, Bare
  <2>9. Heeded(n)'
    BY <1>16, <2>1, NoBackendAssumption, LocalAssumption
       DEF Undo, IInv, UploadTypes, abortVars, diskVars, rowVars, Fault, Break,
          LeaveCache, DropSpool, UploadState, Given, Heeded
  <2>4. Whole(n)'
    BY <2>5, <2>6, <2>7, <2>8, <2>9
  <2> QED
    BY <1>bi, <2>2, <2>3, <2>4, Alone DEF IInv
<1>17. CASE Withdraw(n)
  <2>1. /\ up' \in [Nonce -> UploadState]
        /\ \A m \in Nonce \ {n} : up'[m] = up[m]
        /\ up'[n].pc = "close" /\ up'[n].mode = up[n].mode /\ up'[n].at = up[n].at
        /\ up'[n].todo = up[n].todo /\ up'[n].promote = up[n].promote
    BY <1>17, <1>t, GoTyped DEF Withdraw, UploadState
  <2>2. UploadTypes'
    BY <1>17, <2>1, FaultsAssumption
       DEF Withdraw, IInv, UploadTypes, abortVars, diskVars, rowVars, Fault, Break,
          LeaveCache, DropSpool
  <2>3. Apart(n)
    BY <1>17, <2>1
       DEF Withdraw, Apart, IInv, UploadTypes, abortVars, diskVars, rowVars, Fault,
           Break, LeaveCache, DropSpool
  <2>5. Tried(n)'
    BY <1>17, <2>1, NoBackendAssumption, LocalAssumption
       DEF Withdraw, IInv, UploadTypes, abortVars, diskVars, rowVars, Fault, Break,
          LeaveCache, DropSpool, UploadState, Tried
  <2>6. Received(n)'
    BY <1>17, <2>1, NoBackendAssumption, LocalAssumption
       DEF Withdraw, IInv, UploadTypes, abortVars, diskVars, rowVars, Fault, Break,
          LeaveCache, DropSpool, UploadState, Tried, Received
  <2>7. Given(n)'
    BY <1>17, <2>1, NoBackendAssumption, LocalAssumption
       DEF Withdraw, IInv, UploadTypes, abortVars, diskVars, rowVars, Fault, Break,
          LeaveCache, DropSpool, UploadState, Tried, Received, Given, Bare
  <2>8. Bare(n)'
    BY <1>17, <2>1, NoBackendAssumption, LocalAssumption
       DEF Withdraw, IInv, UploadTypes, abortVars, diskVars, rowVars, Fault, Break,
          LeaveCache, DropSpool, UploadState, Tried, Received, Given, Bare
  <2>9. Heeded(n)'
    BY <1>17, <2>1, NoBackendAssumption, LocalAssumption
       DEF Withdraw, IInv, UploadTypes, abortVars, diskVars, rowVars, Fault, Break,
          LeaveCache, DropSpool, UploadState, Given, Heeded
  <2>4. Whole(n)'
    BY <2>5, <2>6, <2>7, <2>8, <2>9
  <2> QED
    BY <1>bi, <2>2, <2>3, <2>4, Alone DEF IInv
<1>18. CASE Close(n)
  <2>1. /\ up' \in [Nonce -> UploadState]
        /\ \A m \in Nonce \ {n} : up'[m] = up[m]
        /\ up'[n].pc = "done" /\ up'[n].at = None /\ up'[n].promote = None
    BY <1>18, <1>t, EndTyped DEF Close
  <2>2. UploadTypes'
    BY <1>18, <2>1, FaultsAssumption
       DEF Close, IInv, UploadTypes, abortVars, diskVars, rowVars, Fault, Break, LeaveCache
  <2>3. Apart(n)
    BY <1>18, <2>1
       DEF Close, Apart, IInv, UploadTypes, abortVars, diskVars, rowVars, Fault, Break,
           LeaveCache
  <2>5. Tried(n)'
    BY <1>18, <2>1, NoBackendAssumption, LocalAssumption
       DEF Close, IInv, UploadTypes, abortVars, diskVars, rowVars, Fault, Break,
          LeaveCache, UploadState, Tried
  <2>6. Received(n)'
    BY <1>18, <2>1, NoBackendAssumption, LocalAssumption
       DEF Close, IInv, UploadTypes, abortVars, diskVars, rowVars, Fault, Break,
          LeaveCache, UploadState, Tried, Received
  <2>7. Given(n)'
    BY <1>18, <2>1, NoBackendAssumption, LocalAssumption
       DEF Close, IInv, UploadTypes, abortVars, diskVars, rowVars, Fault, Break,
          LeaveCache, UploadState, Tried, Received, Given, Bare
  <2>8. Bare(n)'
    BY <1>18, <2>1, NoBackendAssumption, LocalAssumption
       DEF Close, IInv, UploadTypes, abortVars, diskVars, rowVars, Fault, Break,
          LeaveCache, UploadState, Tried, Received, Given, Bare
  <2>9. Heeded(n)'
    BY <1>18, <2>1, NoBackendAssumption, LocalAssumption
       DEF Close, IInv, UploadTypes, abortVars, diskVars, rowVars, Fault, Break,
          LeaveCache, UploadState, Given, Heeded
  <2>4. Whole(n)'
    BY <2>5, <2>6, <2>7, <2>8, <2>9
  <2> QED
    BY <1>bi, <2>2, <2>3, <2>4, Alone DEF IInv
<1> QED
  BY <1>1, <1>2, <1>3, <1>4, <1>5, <1>6, <1>7, <1>8, <1>9, <1>10, <1>11, <1>12, <1>13,
     <1>14, <1>15, <1>16, <1>17, <1>18, <1>20
     DEF UploadStep

LEMMA CleanupPreserves ==
    ASSUME IInv,
           \/ \E n \in Nonce : AgeSpool(n)
           \/ CleanupStep
    PROVE  IInv'
<1>bi. BInv'
  BY BackendsStutter
     DEF AgeSpool, CleanupStep, AskReferenced, CollectOrphans, backendVars, IInv
<1> USE DEF UploadPC, Running, At, Registered, Whole
<1>1. ASSUME NEW n \in Nonce, AgeSpool(n) PROVE IInv'
  <2>1. UploadTypes'
    BY <1>1 DEF AgeSpool, IInv, UploadTypes, abortVars, rowVars
  <2>2. \A m \in Nonce : (Tried(m) /\ Bare(m) /\ Heeded(m))'
    BY <1>1 DEF AgeSpool, IInv, abortVars, rowVars, Tried, Bare, Heeded
  <2>3. \A m \in Nonce : (Received(m) /\ Given(m))'
    BY <1>1, NoBackendAssumption, LocalAssumption
       DEF AgeSpool, Recent, IInv, UploadTypes, abortVars, rowVars, Received, Given
  <2> QED
    BY <1>bi, <2>1, <2>2, <2>3 DEF IInv
<1>2. CASE AskReferenced
  <2>1. UploadTypes'
    BY <1>2 DEF AskReferenced, IInv, UploadTypes, abortVars, diskVars, rowVars
  <2>2. \A m \in Nonce : (Tried(m) /\ Received(m) /\ Bare(m) /\ Heeded(m))'
    BY <1>2 DEF AskReferenced, IInv, abortVars, diskVars, rowVars,
                Tried, Received, Bare, Heeded
  <2>3. \A m \in Nonce : Given(m)'
    BY <1>2, NoBackendAssumption, LocalAssumption
       DEF AskReferenced, IInv, abortVars, diskVars, rowVars, Given
  <2> QED
    BY <1>bi, <2>1, <2>2, <2>3 DEF IInv
<1>3. CASE CollectOrphans
  <2>1. UploadTypes'
    BY <1>3 DEF CollectOrphans, IInv, UploadTypes, abortVars, rowVars
  <2>2. \A m \in Nonce : (Tried(m) /\ Heeded(m))'
    BY <1>3 DEF CollectOrphans, IInv, abortVars, rowVars, Tried, Heeded
  <2>3. \A m \in Nonce : (Received(m) /\ Bare(m))'
    BY <1>3 DEF CollectOrphans, IInv, UploadTypes, abortVars, rowVars, Received, Bare
  <2>4. \A m \in Nonce : Given(m)'
    BY <1>3 DEF CollectOrphans, IInv, UploadTypes, abortVars, rowVars, Given
  <2> QED
    BY <1>bi, <2>1, <2>2, <2>3, <2>4 DEF IInv
<1> QED
  BY <1>1, <1>2, <1>3 DEF CleanupStep

LEMMA PanelPreserves ==
    ASSUME IInv, PanelStep
    PROVE  IInv'
<1>1. BInv'
  BY FormPreserves, ModePreserves DEF PanelStep, IInv
<1>2. UNCHANGED <<up, abortVars, diskVars, objects, rowVars, cleaner, broken, faults>>
  BY DEF PanelStep
<1>3. UploadTypes'
  BY <1>2 DEF IInv, UploadTypes, abortVars, diskVars, rowVars
<1>4. \A n \in Nonce : Whole(n)'
  BY <1>2 DEF IInv, Whole, Tried, Received, Given, Bare, Heeded, At, Registered,
              abortVars, diskVars, rowVars
<1> QED
  BY <1>1, <1>3, <1>4 DEF IInv

\* A restart leaves every running upload broken and everything else where it
\* is.
LEMMA CrashPreserves ==
    ASSUME IInv, Crash
    PROVE  IInv'
<1>1. BInv'
  BY ReloadPreserves DEF Crash, IInv
<1> USE DEF UploadPC, Running, At, Registered, Whole
<1>2. /\ up' \in [Nonce -> UploadState]
      /\ \A n \in Nonce :
             /\ up'[n].pc \in {"none", "dropped", "done"} /\ up'[n].at = None
             /\ up'[n].pc = "none" => up[n].pc = "none"
             /\ up'[n].pc = "dropped" => up[n].pc \in {"pending", "stale", "dropped"}
             /\ up'[n].pc = "done" => up[n].pc \in Running \cup {"lost", "done"}
  <2> DEFINE pc(n) == IF up[n].pc \in {"pending", "stale"} THEN "dropped"
                     ELSE IF up[n].pc \in Running \cup {"lost"} THEN "done"
                     ELSE up[n].pc
             new(n) == [NoUpload EXCEPT !.pc = pc(n)]
  <2>1. \A n \in Nonce : up[n].pc \in UploadPC
    BY DEF IInv, UploadTypes, UploadState
  <2>2. \A n \in Nonce :
            /\ pc(n) \in {"none", "dropped", "done"}
            /\ pc(n) = "none" => up[n].pc = "none"
            /\ pc(n) = "dropped" => up[n].pc \in {"pending", "stale", "dropped"}
            /\ pc(n) = "done" => up[n].pc \in Running \cup {"lost", "done"}
    BY <2>1
  <2>3. \A n \in Nonce : pc(n) \in UploadPC
    BY <2>2
  <2>4. up' = [n \in Nonce |-> new(n)]
    BY DEF Crash
  <2> HIDE DEF pc
  <2>5. \A n \in Nonce : new(n) \in UploadState /\ new(n).pc = pc(n) /\ new(n).at = None
    BY <2>3 DEF NoUpload, UploadState
  <2> HIDE DEF new
  <2>6. up' \in [Nonce -> UploadState] /\ \A n \in Nonce : up'[n] = new(n)
    BY <2>4, <2>5
  <2> QED
    BY <2>2, <2>5, <2>6
<1>3. UploadTypes'
  BY <1>2, FaultsAssumption
     DEF Crash, Fault, IInv, UploadTypes, abortVars, diskVars, rowVars
<1>4. \A n \in Nonce : n \notin broken' => n \notin broken /\ up[n].pc \notin Running
  BY DEF Crash
<1>5. /\ UNCHANGED <<abortVars, diskVars, objects, rowVars>>
      /\ cleaner' = [asked |-> FALSE, referenced |-> {}]
  BY DEF Crash
<1>6. \A n \in Nonce : (Tried(n) /\ Received(n) /\ Heeded(n))'
  BY <1>2, <1>5 DEF IInv, Tried, Received, Heeded, abortVars, diskVars, rowVars
<1>7. \A n \in Nonce : Given(n)'
  BY <1>2, <1>4, <1>5, LocalAssumption, NoBackendAssumption
     DEF IInv, UploadTypes, Given, diskVars, rowVars
<1>8. \A n \in Nonce : Bare(n)'
  BY <1>2, <1>4, <1>5 DEF IInv, Bare, Received, diskVars, rowVars
<1> QED
  BY <1>1, <1>3, <1>6, <1>7, <1>8 DEF IInv

LEMMA Inductive == IInv /\ [Next]_vars => IInv'
<1> SUFFICES ASSUME IInv, [Next]_vars PROVE IInv'
  OBVIOUS
<1>1. CASE Next
  <2>1. ASSUME NEW n \in Nonce, UserStep(n) PROVE IInv'
    BY <2>1, UserPreserves
  <2>2. ASSUME NEW n \in Nonce, UploadStep(n) PROVE IInv'
    BY <2>2, UploadPreserves
  <2>3. ASSUME NEW n \in Nonce, AgeSpool(n) PROVE IInv'
    BY <2>3, CleanupPreserves
  <2>4. CASE CleanupStep
    BY <2>4, CleanupPreserves
  <2>5. CASE PanelStep
    BY <2>5, PanelPreserves
  <2>6. CASE Crash
    BY <2>6, CrashPreserves
  <2> QED
    BY <1>1, <2>1, <2>2, <2>3, <2>4, <2>5, <2>6 DEF Next
<1>2. CASE UNCHANGED vars
  <2>1. BInv'
    BY <1>2, BackendsStutter DEF vars, IInv
  <2>2. UploadTypes'
    BY <1>2 DEF vars, IInv, UploadTypes, abortVars, diskVars, rowVars
  <2>3. \A n \in Nonce : Whole(n)'
    BY <1>2 DEF vars, IInv, Whole, Tried, Received, Given, Bare, Heeded, At, Registered,
                abortVars, diskVars, rowVars
  <2> QED
    BY <2>1, <2>2, <2>3 DEF IInv
<1> QED
  BY <1>1, <1>2

LEMMA Invariance == Spec => []IInv
BY Initial, Inductive, PTL DEF Spec

-----------------------------------------------------------------------------
\* perform_upload, the panel's forms and the cleanup keep every variable in
\* its type.
THEOREM Typed == Spec => []TypeOK
<1>1. IInv => TypeOK
  BY DEF IInv, BInv, UploadTypes, TypeOK
<1> QED
  BY <1>1, Invariance, PTL

\* A link that perform_upload handed out has its file or its object, however
\* many uploads, forms, cleanups and failures there are.
THEOREM Backed == Spec => []LinkBacked
<1>1. IInv => LinkBacked
  BY DEF IInv, Whole, Given, LinkBacked
<1> QED
  BY <1>1, Invariance, PTL

\* An upload that ended without a link left nothing, unless an error or a
\* restart kept it from cleaning up.
THEOREM Clean == Spec => []NothingLeft
<1>1. IInv => NothingLeft
  BY DEF IInv, UploadTypes, Whole, Bare, NothingLeft, At
<1> QED
  BY <1>1, Invariance, PTL

\* Whoever aborts before the transfer to S3 gets no link from it.
THEOREM Aborted == Spec => []AbortHeeded
<1>1. IInv => AbortHeeded
  BY DEF IInv, UploadTypes, Whole, Heeded, AbortHeeded
<1> QED
  BY <1>1, Invariance, PTL

-----------------------------------------------------------------------------
(* To the tables, an upload in S3 mode is one transaction.                 *)

LEMMA RowsStutter == rowVars' = rowVars => UNCHANGED Tables!storeVars
BY DEF rowVars, InCloud, Pairs,
       Tables!storeVars, Tables!fileVars, Tables!jobVars, Tables!workerVars

LEMMA RowsInitial == Init => Tables!StoreInit
<1> SUFFICES ASSUME Init PROVE Tables!StoreInit
  OBVIOUS
<1>1. InCloud = {} /\ Pairs(queued) = {} /\ Pairs(promoted) = {}
  BY NoBackendAssumption DEF Init, InCloud, Pairs
<1>2. [n \in Nonce |-> IF n \in InCloud THEN files[n] ELSE None] = [n \in Nonce |-> None]
  BY <1>1
<1> QED
  BY <1>1, <1>2 DEF Tables!StoreInit, Tables!Job

\* A local file has no row of the tables: its registration is no step there.
LEMMA LocalStutters ==
    ASSUME IInv, NEW n \in Nonce, RegisterLocal(n)
    PROVE  UNCHANGED Tables!storeVars
<1>1. files' = [files EXCEPT ![n] = Local] /\ queued' = queued /\ promoted' = promoted /\ files[n] = None
  BY DEF RegisterLocal, IInv, Whole, Given, At, Registered
<1>2. files \in [Nonce -> Backend \cup {Local, None}]
  BY DEF IInv, UploadTypes
<1>3. InCloud' = InCloud
  BY <1>1, <1>2, LocalAssumption, NoBackendAssumption DEF InCloud
<1>4. \A m \in InCloud : files'[m] = files[m]
  BY <1>1, <1>2, NoBackendAssumption DEF InCloud
<1>5. [m \in Nonce |-> IF m \in InCloud' THEN files'[m] ELSE None]
      = [m \in Nonce |-> IF m \in InCloud THEN files[m] ELSE None]
  BY <1>3, <1>4
<1>6. Pairs(queued)' = Pairs(queued) /\ Pairs(promoted)' = Pairs(promoted)
  BY <1>1 DEF Pairs
<1> QED
  BY <1>3, <1>5, <1>6
     DEF Tables!storeVars, Tables!fileVars, Tables!jobVars, Tables!workerVars

\* The registration of a file in S3 is the transaction with its jobs.
LEMMA CloudAdds ==
    ASSUME IInv, NEW n \in Nonce, RegisterCloud(n)
    PROVE  Tables!StoreNext
<1>1. PICK T \in SUBSET Backend :
          /\ T = up[n].todo
          /\ queued' = [queued EXCEPT ![n] = T]
          /\ promoted' = [promoted EXCEPT ![n] = T \cap {up[n].promote}]
  BY DEF RegisterCloud, IInv, UploadTypes, UploadState
<1>t. /\ files \in [Nonce -> Backend \cup {Local, None}]
      /\ queued \in [Nonce -> SUBSET Backend] /\ promoted \in [Nonce -> SUBSET Backend]
      /\ up[n].promote \in Backend \cup {None}
  BY DEF IInv, UploadTypes, UploadState
<1>2. up[n].at \in Backend
  BY DEF RegisterCloud, IInv, UploadTypes, Whole, Tried, At
<1>b. PICK b \in Backend : b = up[n].at
  BY <1>2
<1>p. PICK p \in Backend \cup {None} : p = up[n].promote
  BY <1>t
<1>3. /\ files' = [files EXCEPT ![n] = b] /\ files[n] = None
      /\ queued[n] = {} /\ promoted[n] = {}
  BY <1>b DEF RegisterCloud, IInv, Whole, Given, At, Registered
<1>5. T \subseteq Backend /\ b \notin T /\ (p = None \/ T = {p})
  BY <1>b, <1>p, <1>1 DEF RegisterCloud, IInv, Whole, Tried, At
<1>6. n \notin InCloud /\ InCloud' = InCloud \cup {n}
  BY <1>t, <1>2, <1>3, NoBackendAssumption DEF InCloud
<1>7. [m \in Nonce |-> IF m \in InCloud THEN files[m] ELSE None]'
      = [[m \in Nonce |-> IF m \in InCloud THEN files[m] ELSE None] EXCEPT ![n] = b]
  BY <1>t, <1>3, <1>6
<1>8. Pairs(queued)' = Pairs(queued) \cup ({n} \X T)
  BY <1>t, <1>p, <1>1, <1>3, <1>5 DEF Pairs
<1>9. \A j \in Nonce \X Backend : j \in Pairs(promoted)' <=>
          j \in Pairs(promoted) \/ (j \in {n} \X T /\ j[2] = p)
  BY <1>t, <1>p, <1>1, <1>3, <1>5 DEF Pairs
<1>10. \A j \in {n} \X T : j \notin Pairs(queued) /\ j \notin Pairs(promoted)
  BY <1>3 DEF Pairs
<1>11. [j \in Nonce \X Backend |->
           IF j \in Pairs(promoted) THEN "promotion"
           ELSE IF j \in Pairs(queued) THEN "replica" ELSE "unused"]'
       = [j \in Nonce \X Backend |->
             IF j \notin {n} \X T
             THEN [k \in Nonce \X Backend |->
                      IF k \in Pairs(promoted) THEN "promotion"
                      ELSE IF k \in Pairs(queued) THEN "replica" ELSE "unused"][j]
             ELSE IF j[2] = p THEN "promotion" ELSE "replica"]
  BY <1>8, <1>9, <1>10
<1>12. Tables!AddWithReplicationJobs(n, b, T, p)
  BY <1>5, <1>6, <1>7, <1>8, <1>11
     DEF Tables!AddWithReplicationJobs, Tables!ValidTargets, Tables!Job, Tables!workerVars
<1>13. T \in SUBSET Backend
  BY <1>5
<1> QED
  BY <1>12, <1>13, Zenon DEF Tables!StoreNext

\* Upload implements JobStore's callers: what is proved of the tables for any
\* caller holds for perform_upload.
THEOREM Registers == Spec => RegistersAsStore
<1>1. IInv /\ [Next]_vars => [Tables!StoreNext]_Tables!storeVars
  <2> SUFFICES ASSUME IInv, [Next]_vars
               PROVE  [Tables!StoreNext]_Tables!storeVars
    OBVIOUS
  <2>1. ASSUME NEW n \in Nonce, RegisterCloud(n) PROVE Tables!StoreNext
    BY <2>1, CloudAdds
  <2>2. ASSUME NEW n \in Nonce, RegisterLocal(n) PROVE UNCHANGED Tables!storeVars
    BY <2>2, LocalStutters
  <2>3. \/ \E n \in Nonce : RegisterCloud(n) \/ RegisterLocal(n)
        \/ rowVars' = rowVars
    <3>1. ASSUME NEW n \in Nonce, UserStep(n) PROVE rowVars' = rowVars
      BY <3>1 DEF UserStep, Receive, GrowStale, Drop, Abort, Confirm
    <3>2. ASSUME NEW n \in Nonce, UploadStep(n)
          PROVE  RegisterCloud(n) \/ RegisterLocal(n) \/ rowVars' = rowVars
      BY <3>2 DEF UploadStep, Begin, Fetched, Open, Copied, ReceptionAborted, TooLarge,
                  Route, SendTo, SendAborted, Sent, SendFails, ChooseTargets,
                  SweepSpool, Trouble, Undo, Withdraw, Close
    <3>3. ASSUME CleanupStep \/ PanelStep \/ Crash \/ \E n \in Nonce : AgeSpool(n)
          PROVE  rowVars' = rowVars
      BY <3>3 DEF CleanupStep, AskReferenced, CollectOrphans, PanelStep, Crash, AgeSpool
    <3>4. CASE UNCHANGED vars
      BY <3>4 DEF vars
    <3> QED
      BY <3>1, <3>2, <3>3, <3>4 DEF Next
  <2> QED
    BY <2>1, <2>2, <2>3, RowsStutter
<1> QED
  BY <1>1, RowsInitial, Invariance, PTL DEF Spec, RegistersAsStore, Tables!StoreSpec
=============================================================================
