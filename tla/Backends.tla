------------------------------ MODULE Backends ------------------------------
(***************************************************************************)
(* The configured S3 backends and the forms that change them: manager      *)
(* .backends in memory (live), the encrypted file a restart loads (saved), *)
(* and the setting storage_backend (mode).  A form copies the live         *)
(* configuration, writes the changed copy to the file, installs it, and    *)
(* only then adjusts the mode, with an await between these steps in which  *)
(* uploads and other forms run.  The writes of several forms go by way of  *)
(* one temporary file, and are not kept apart.                             *)
(*                                                                         *)
(* Of a backend's configuration the role is kept.  Priority, latency,      *)
(* health and capacity only choose among the backends its role allows, so  *)
(* whoever asks for candidates may be given any of those.                  *)
(***************************************************************************)
EXTENDS Naturals

CONSTANTS
    Backend,        \* names of S3 backends
    Admin,          \* admin requests that may run at the same time
    InitialRoles,   \* what is configured at first
    None,
    MaxForms        \* bound on the forms used

Role == {"primary", "replica", "download", "disabled"}
Config == [Backend -> Role \cup {"absent"}]

ASSUME ConfigAssumption == InitialRoles \in Config
ASSUME NoBackendAssumption == None \notin Backend
ASSUME FormsAssumption == MaxForms \in Nat

VARIABLES
    live,   \* role of each backend in manager.backends, "absent" without one
    saved,  \* the same in s3-backends.enc, None while that file is half written
    mode,   \* the setting storage_backend
    form,   \* what each admin request is at
    forms   \* forms used so far

backendVars == <<live, saved, mode, form, forms>>

FormPC == {"idle", "export", "save", "install", "settle"}
FormOp == {"add", "delete", "role", "toggle", "cycle", "tune"}
NoForm == [pc |-> "idle", op |-> None, on |-> None, config |-> InitialRoles]

FormState == [pc : FormPC, op : FormOp \cup {None}, on : Backend \cup {None}, config : Config]

BackendsTypeOK ==
    /\ live \in Config
    /\ saved \in Config \cup {None}
    /\ mode \in {"local", "s3"}
    /\ form \in [Admin -> FormState]
    /\ forms \in 0 .. MaxForms

BackendsInit ==
    /\ live = InitialRoles
    /\ saved = InitialRoles
    /\ mode \in {"local", "s3"}
    /\ form = [a \in Admin |-> NoForm]
    /\ forms = 0

Configured(b) == live[b] # "absent"
HasRole(config, R) == \E b \in Backend : config[b] \in R

\* Backends whose role _candidates accepts for the purpose.  It leaves out
\* those that are unhealthy or full at the moment, which may be any.
Eligible(purpose) == {b \in Backend : live[b] \in {"primary", purpose}}

-----------------------------------------------------------------------------
UseForm == forms < MaxForms /\ forms' = forms + 1
Start(a, pc, op, b, config) ==
    /\ form[a].pc = "idle"
    /\ UseForm
    /\ form' = [form EXCEPT ![a] = [pc |-> pc, op |-> op, on |-> b, config |-> config]]

\* add_storage and storage_add: the name must be new; the probe of the bucket
\* comes between that check and the export.
BeginAdd(a, b) ==
    /\ ~Configured(b)
    /\ Start(a, "export", "add", b, InitialRoles)
    /\ UNCHANGED <<live, saved, mode>>

\* delete_storage: the references are counted before the export.
BeginDelete(a, b, referenced) ==
    /\ Configured(b)
    /\ b \notin referenced
    /\ Start(a, "export", "delete", b, InitialRoles)
    /\ UNCHANGED <<live, saved, mode>>

Export(a) ==
    /\ form[a].pc = "export"
    /\ \E r \in IF form[a].op = "add" THEN Role ELSE {"absent"} :
           form' = [form EXCEPT ![a].pc = "save",
                                ![a].config = [live EXCEPT ![form[a].on] = r]]
    /\ UNCHANGED <<live, saved, mode, forms>>

\* The role buttons of the bot go round.
NextInCycle == [primary |-> "replica", replica |-> "download",
                download |-> "disabled", disabled |-> "primary"]

\* Roles a form can give to b: any by set_storage_role, on or off by
\* toggle_storage, the next one by admin_storage_role, which does not take
\* the last primary away, the same by set_storage_priority and _capacity.
NewRoles(op, b) ==
    CASE op = "role" -> Role
      [] op = "toggle" -> {IF live[b] = "disabled" THEN "primary" ELSE "disabled"}
      [] op = "cycle" -> {r \in {NextInCycle[live[b]]} :
                             live[b] = "primary" => \E c \in Backend \ {b} : live[c] = "primary"}
      [] op = "tune" -> {live[b]}

\* These forms check and export without an await.
BeginRole(a, op, b) ==
    /\ Configured(b)
    /\ \E r \in NewRoles(op, b) : Start(a, "save", op, b, [live EXCEPT ![b] = r])
    /\ UNCHANGED <<live, saved, mode>>

\* Every form writes the same temporary file and moves it over s3-backends.enc:
\* with two at it at once, what one moves may be the other's, or half of it.
Save(a) ==
    /\ form[a].pc = "save"
    /\ \E o \in Admin :
           /\ form[o].pc = "save"
           /\ saved' \in {form[o].config} \cup (IF o = a THEN {} ELSE {None})
    /\ form' = [form EXCEPT ![a].pc = "install"]
    /\ UNCHANGED <<live, mode, forms>>

\* The disk is full, or the temporary file was moved by another form: the
\* request fails, having written the rest of a half-written file in place.
SaveFails(a) ==
    /\ form[a].pc = "save"
    /\ saved' \in {saved} \cup (IF saved = None THEN {form[a].config} ELSE {})
    /\ form' = [form EXCEPT ![a] = NoForm]
    /\ UNCHANGED <<live, mode, forms>>

Install(a) ==
    /\ form[a].pc = "install"
    /\ live' = form[a].config
    /\ form' = [form EXCEPT ![a].pc = "settle"]
    /\ UNCHANGED <<saved, mode, forms>>

\* The forms that can leave nothing to upload to go back to local storage,
\* which they decide on what they install; those that add a backend turn S3 on.
NextMode(a) ==
    LET can(R) == HasRole(form[a].config, R) IN
    CASE form[a].op = "add" -> "s3"
      [] form[a].op = "role" /\ ~can({"primary"}) -> "local"
      [] form[a].op \in {"toggle", "delete"} /\ ~can(Role \ {"disabled"}) -> "local"
      [] OTHER -> mode

Settle(a) ==
    /\ form[a].pc = "settle"
    /\ mode' = NextMode(a)
    /\ form' = [form EXCEPT ![a] = NoForm]
    /\ UNCHANGED <<live, saved, forms>>

\* set_storage_mode.
SetMode(m) ==
    /\ m = "s3" => \E b \in Backend : Configured(b)
    /\ m # mode
    /\ UseForm
    /\ mode' = m
    /\ UNCHANGED <<live, saved, form>>

\* A restart forgets the forms and loads the file; with a half-written one
\* the program does not start.
ReloadBackends ==
    /\ saved # None
    /\ live' = saved
    /\ form' = [a \in Admin |-> NoForm]
    /\ UNCHANGED <<saved, mode, forms>>

FormStep(a, referenced) ==
    \/ \E b \in Backend : BeginAdd(a, b) \/ BeginDelete(a, b, referenced)
    \/ \E b \in Backend, op \in {"role", "toggle", "cycle", "tune"} : BeginRole(a, op, b)
    \/ Export(a) \/ Save(a) \/ SaveFails(a) \/ Install(a) \/ Settle(a)
=============================================================================
