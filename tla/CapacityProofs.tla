---------------------------- MODULE CapacityProofs ----------------------------
(***************************************************************************)
(* What the tables assign to a backend fits, but for the causes the code   *)
(* cannot know or does not look at, and the copies of a file are on        *)
(* different backends: for any number of files, sizes, backends and        *)
(* uploads at a time.                                                      *)
(***************************************************************************)
EXTENDS Capacity, FiniteSetTheorems, TLAPS

-----------------------------------------------------------------------------
(* Sums of sizes.                                                          *)

LEMMA ContentFinite == IsFiniteSet(Content)
<1> DEFINE Part(f) == {f} \X (1 .. Size[f])
           S == {Part(f) : f \in File}
           g == [f \in File |-> Part(f)]
<1>1. g \in Surjection(File, S)
    BY DEF Surjection
<1>2. IsFiniteSet(S)
    BY <1>1, FilesAssumption, FS_Surjection
<1>3. \A T \in S : IsFiniteSet(T)
    <2> SUFFICES ASSUME NEW f \in File PROVE IsFiniteSet(Part(f))
        OBVIOUS
    <2>1. IsFiniteSet({f})
        BY FS_Singleton
    <2>2. Size[f] \in Int
        BY RoomAssumption
    <2>3. IsFiniteSet(1 .. Size[f])
        BY <2>2, FS_Interval
    <2> QED BY <2>1, <2>3, FS_Product
<1>4. Content = UNION S
    BY DEF Content
<1> HIDE DEF S
<1> QED BY <1>2, <1>3, <1>4, FS_UNION

LEMMA WeightNat == \A F : /\ IsFiniteSet({x \in Content : x[1] \in F})
                          /\ Weight(F) \in Nat
<1> SUFFICES ASSUME NEW F
             PROVE  /\ IsFiniteSet({x \in Content : x[1] \in F})
                    /\ Weight(F) \in Nat
    OBVIOUS
<1> DEFINE S == {x \in Content : x[1] \in F}
<1>1. S \in SUBSET Content
    OBVIOUS
<1>2. IsFiniteSet(S)
    BY <1>1, ContentFinite, FS_Subset
<1> QED BY <1>2, FS_CardinalityType DEF Weight

\* More files weigh no less.
LEMMA WeightMono ==
    ASSUME NEW F, NEW G, F \subseteq G
    PROVE  Weight(F) <= Weight(G)
<1> DEFINE S == {x \in Content : x[1] \in F}
           T == {x \in Content : x[1] \in G}
<1>1. S \in SUBSET T
    OBVIOUS
<1>2. IsFiniteSet(T)
    BY WeightNat
<1> QED BY <1>1, <1>2, FS_Subset DEF Weight

\* One file more adds its size.
LEMMA WeightAdd ==
    ASSUME NEW F, NEW f \in File
    PROVE  Weight(F \cup {f}) = IF f \in F THEN Weight(F) ELSE Weight(F) + Size[f]
<1>1. CASE f \in F
    <2>1. F \cup {f} = F
        BY <1>1
    <2> QED BY <1>1, <2>1
<1>2. CASE f \notin F
    <2> DEFINE S == {x \in Content : x[1] \in F}
               P == {f} \X (1 .. Size[f])
               T == {x \in Content : x[1] \in F \cup {f}}
    <2>1. IsFiniteSet(S) /\ Cardinality(S) \in Nat
        BY WeightNat, FS_CardinalityType
    <2>2. Size[f] \in Nat \ {0}
        BY RoomAssumption
    <2>3. IsFiniteSet(P) /\ Cardinality(P) = Size[f]
        <3>1. IsFiniteSet({f}) /\ Cardinality({f}) = 1
            BY FS_Singleton
        <3>2. IsFiniteSet(1 .. Size[f]) /\ Cardinality(1 .. Size[f]) = Size[f]
            BY <2>2, FS_Interval
        <3>3. Cardinality(P) = Cardinality({f}) * Cardinality(1 .. Size[f])
            BY <3>1, <3>2, FS_Product
        <3> QED BY <2>2, <3>1, <3>2, <3>3, FS_Product
    <2>4. \A x : x \in T <=> x \in S \/ x \in P
        <3>1. \A x \in P : x[1] = f /\ x \in Content
            BY DEF Content
        <3>2. \A x \in Content : x[1] = f => x \in P
            BY DEF Content
        <3> QED BY <3>1, <3>2
    <2>5. T = S \cup P
        <3> HIDE DEF T, S, P
        <3> QED BY <2>4
    <2>6. S \cap P = {}
        BY <1>2
    <2>7. Cardinality(S \cap P) = 0
        BY <2>6, FS_EmptySet
    <2>8. Cardinality(T) = Cardinality(S) + Cardinality(P) - Cardinality(S \cap P)
        BY <2>1, <2>3, <2>5, FS_Union
    <2> HIDE DEF S, P, T
    <2>9. Cardinality(T) = Cardinality(S) + Size[f]
        BY <2>1, <2>2, <2>3, <2>7, <2>8
    <2> QED BY <1>2, <2>9 DEF Weight, S, T
<1> QED BY <1>1, <1>2

\* And one file less takes it away.
LEMMA WeightTake ==
    ASSUME NEW F, NEW f \in File
    PROVE  Weight(F) = IF f \in F THEN Weight(F \ {f}) + Size[f] ELSE Weight(F \ {f})
<1>1. f \in F => (F \ {f}) \cup {f} = F
    OBVIOUS
<1>2. f \notin F => F \ {f} = F
    OBVIOUS
<1>3. Weight((F \ {f}) \cup {f}) = Weight(F \ {f}) + Size[f]
    BY WeightAdd
<1> QED BY <1>1, <1>2, <1>3

LEMMA WeightOneMore ==
    ASSUME NEW F, NEW G, NEW f \in File, G \subseteq F \cup {f}
    PROVE  Weight(G) <= Weight(F) + Size[f]
<1>1. Weight(G) <= Weight(F \cup {f})
    BY WeightMono
<1>2. Weight(F \cup {f}) = IF f \in F THEN Weight(F) ELSE Weight(F) + Size[f]
    BY WeightAdd
<1>3. Weight(F) \in Nat /\ Weight(G) \in Nat /\ Size[f] \in Nat
    BY WeightNat, RoomAssumption
<1> QED BY <1>1, <1>2, <1>3

-----------------------------------------------------------------------------
(* The inductive invariant.                                                *)

\* Nothing is recorded of a file before it arrives.
Fresh(f) ==
    up[f].pc # "done" => /\ row[f] = None /\ f \notin live
                         /\ replicas[f] = {} /\ jobs[f] = {}

\* The figures an upload has read are not below what is recorded now, but
\* for the backends that have gained since.
Figures(f) ==
    \A b \in Backend \ gained[f] :
        /\ up[f].pc = "replicas" => InRows(b) <= up[f].seen[b]
        /\ up[f].pc = "jobs" => InRows(b) + InReplicas(b) <= up[f].seen[b]
        /\ up[f].pc \in {"choose", "send", "targets", "copy"} => Used(b) <= up[f].seen[b]

\* What an upload has chosen fits by its own figures.
Chosen(f) ==
    /\ up[f].pc = "send" => \A b \in up[f].left : b \in Primary /\ Fits(f, b)
    /\ up[f].pc \in {"targets", "copy"} => up[f].at \in Primary /\ Fits(f, up[f].at)
    /\ up[f].pc \notin {"copy", "done"} => up[f].made = {}
    /\ up[f].pc = "copy" =>
           \A b \in up[f].targets \cup up[f].made : b # up[f].at /\ Fits(f, b)

Uploads == \A f \in File : Fresh(f) /\ Chosen(f) /\ Figures(f)

IInv == TypeOK /\ Uploads /\ OverfullForCause /\ OnDifferentServices

-----------------------------------------------------------------------------
(* Types, and how the uploads move.                                        *)

LEMMA SumsNat == \A b : /\ InRows(b) \in Nat /\ InReplicas(b) \in Nat
                        /\ InJobs(b) \in Nat /\ Used(b) \in Nat
<1>1. \A F : Bytes(F) \in Nat
    BY WeightNat DEF Bytes
<1>2. \A b : InRows(b) \in Nat /\ InReplicas(b) \in Nat /\ InJobs(b) \in Nat
    BY <1>1 DEF InRows, InReplicas, InJobs
<1> QED BY <1>2 DEF Used

\* Records of UpState with fields replaced.
LEMMA RecordOf ==
    ASSUME NEW u \in UpState, NEW pc \in PC, NEW C \in SUBSET Backend, NEW D \in SUBSET Backend
    PROVE  /\ [u EXCEPT !.pc = pc] \in UpState
           /\ \A w \in Backend \cup {None} : [u EXCEPT !.pc = pc, !.want = w] \in UpState
           /\ \A s \in [Backend -> Nat] : [u EXCEPT !.pc = pc, !.seen = s] \in UpState
           /\ [u EXCEPT !.pc = pc, !.left = C] \in UpState
           /\ [u EXCEPT !.left = C, !.pc = pc] \in UpState
           /\ \A b \in Backend : [u EXCEPT !.pc = pc, !.at = b] \in UpState
           /\ [u EXCEPT !.pc = pc, !.targets = C] \in UpState
           /\ [u EXCEPT !.targets = C, !.made = D] \in UpState
           /\ [u EXCEPT !.targets = C] \in UpState
BY DEF UpState

\* The other uploads are as they were, and that of f is r.
Moved(f, r) == /\ up' \in [File -> UpState]
               /\ up'[f] = r
               /\ \A g \in File \ {f} : up'[g] = up[g]

LEMMA Moves ==
    ASSUME TypeOK, NEW f \in File, NEW r \in UpState, up' = [up EXCEPT ![f] = r]
    PROVE  Moved(f, r)
BY DEF TypeOK, Moved

LEMMA Now == ASSUME TypeOK, NEW f \in File
             PROVE  /\ up[f] \in UpState
                    /\ up[f].pc \in PC
                    /\ up[f].seen \in [Backend -> Nat]
                    /\ up[f].left \in SUBSET Backend
                    /\ up[f].targets \in SUBSET Backend
                    /\ up[f].made \in SUBSET Backend
                    /\ up[f].want \in Backend \cup {None}
                    /\ up[f].at \in Backend \cup {None}
BY DEF TypeOK, UpState

LEMMA GiveMoves ==
    ASSUME TypeOK, NEW f \in File, Give(f)
    PROVE  Moved(f, [up[f] EXCEPT !.pc = "done"])
<1>1. up' = [up EXCEPT ![f] = [up[f] EXCEPT !.pc = "done"]]
    BY DEF Give, TypeOK
<1> QED BY <1>1, Now, RecordOf, Moves DEF PC

LEMMA BeginMoves ==
    ASSUME TypeOK, NEW f \in File, NEW want \in Backend \cup {None}, Begin(f, want)
    PROVE  Moved(f, [up[f] EXCEPT !.pc = "rows", !.want = want])
<1> DEFINE r == [up[f] EXCEPT !.pc = "rows", !.want = want]
<1>1. up' = [up EXCEPT ![f] = r]
    BY DEF Begin, TypeOK
<1>2. r \in UpState
    BY Now, RecordOf DEF PC
<1> QED BY <1>1, <1>2, Moves

\* What a query of backend_usage adds.
Part(f, b) == CASE At(f, "rows") -> InRows(b)
                [] At(f, "replicas") -> InReplicas(b)
                [] OTHER -> InJobs(b)
After(f) == CASE At(f, "rows") -> "replicas"
              [] At(f, "replicas") -> "jobs"
              [] OTHER -> "choose"

LEMMA ReadMoves ==
    ASSUME TypeOK, NEW f \in File, ReadRows(f) \/ ReadReplicas(f) \/ ReadJobs(f)
    PROVE  /\ Moved(f, [up[f] EXCEPT !.pc = After(f),
                                     !.seen = [b \in Backend |-> up[f].seen[b] + Part(f, b)]])
           /\ \A b \in Backend : up'[f].seen[b] = up[f].seen[b] + Part(f, b)
           /\ up'[f].pc = After(f)
<1> DEFINE s == [b \in Backend |-> up[f].seen[b] + Part(f, b)]
           r == [up[f] EXCEPT !.pc = After(f), !.seen = s]
<1>1. up' = [up EXCEPT ![f] = r]
    <2>1. CASE ReadRows(f)
        BY <2>1 DEF ReadRows, Read, Part, After, At, TypeOK
    <2>2. CASE ReadReplicas(f)
        BY <2>2 DEF ReadReplicas, Read, Part, After, At, TypeOK
    <2>3. CASE ReadJobs(f)
        BY <2>3 DEF ReadJobs, Read, Part, After, At, TypeOK
    <2> QED BY <2>1, <2>2, <2>3
<1>2. s \in [Backend -> Nat]
    <2>1. \A b : Part(f, b) \in Nat
        BY SumsNat DEF Part
    <2> QED BY <2>1, Now
<1>3. After(f) \in PC
    BY DEF After, PC
<1>4. r \in UpState
    BY <1>2, <1>3, Now, RecordOf
<1>5. Moved(f, r)
    BY <1>1, <1>4, Moves
<1>6. r.pc = After(f) /\ r.seen = s
    BY Now DEF UpState
<1> QED BY <1>5, <1>6 DEF Moved

LEMMA ChooseMoves ==
    ASSUME TypeOK, NEW f \in File, Choose(f)
    PROVE  \/ Moved(f, [up[f] EXCEPT !.pc = "done"])
           \/ \E C \in SUBSET Backend : /\ C \subseteq Primary /\ \A b \in C : Fits(f, b)
                                        /\ Moved(f, [up[f] EXCEPT !.pc = "send", !.left = C])
<1>1. PICK C \in SUBSET Backend :
          /\ C \subseteq Candidates(f, Primary)
          /\ \/ Give(f)
             \/ up' = [up EXCEPT ![f].pc = "send", ![f].left = C]
    BY DEF Choose
<1>2. C \subseteq Primary /\ \A b \in C : Fits(f, b)
    BY <1>1 DEF Candidates
<1>3. CASE Give(f)
    BY <1>3, GiveMoves
<1>4. CASE up' = [up EXCEPT ![f].pc = "send", ![f].left = C]
    <2> DEFINE r == [up[f] EXCEPT !.pc = "send", !.left = C]
    <2>1. up' = [up EXCEPT ![f] = r]
        BY <1>4 DEF TypeOK
    <2>2. r \in UpState
        BY Now, RecordOf DEF PC
    <2>3. Moved(f, r)
        BY <2>1, <2>2, Moves
    <2> QED BY <1>2, <2>3
<1> QED BY <1>1, <1>3, <1>4

LEMMA SentMoves ==
    ASSUME TypeOK, NEW f \in File, NEW b \in Backend, Sent(f, b)
    PROVE  Moved(f, [up[f] EXCEPT !.pc = "targets", !.at = b])
<1> DEFINE r == [up[f] EXCEPT !.pc = "targets", !.at = b]
<1>1. up' = [up EXCEPT ![f] = r]
    BY DEF Sent, TypeOK
<1>2. r \in UpState
    BY Now, RecordOf DEF PC
<1> QED BY <1>1, <1>2, Moves

LEMMA SendFailsMoves ==
    ASSUME TypeOK, NEW f \in File, NEW b \in Backend, SendFails(f, b)
    PROVE  \E pc \in {"send", "done"} :
               Moved(f, [up[f] EXCEPT !.left = up[f].left \ {b}, !.pc = pc])
<1>1. PICK pc \in {"send", "done"} :
          up' = [up EXCEPT ![f] = [up[f] EXCEPT !.left = up[f].left \ {b}, !.pc = pc]]
    BY DEF SendFails, At, TypeOK
<1>2. [up[f] EXCEPT !.left = up[f].left \ {b}, !.pc = pc] \in UpState
    <2>1. up[f].left \ {b} \in SUBSET Backend
        BY Now
    <2> QED BY <2>1, Now, RecordOf DEF PC
<1> QED BY <1>1, <1>2, Moves

LEMMA MigrateMoves ==
    ASSUME TypeOK, NEW f \in File, MigrateTargets(f)
    PROVE  \E T \in TargetSets(f) : Moved(f, [up[f] EXCEPT !.pc = "copy", !.targets = T])
<1>1. PICK T \in TargetSets(f) :
          up' = [up EXCEPT ![f] = [up[f] EXCEPT !.pc = "copy", !.targets = T]]
    BY DEF MigrateTargets, TypeOK
<1>2. T \in SUBSET Backend
    BY DEF TargetSets, Replicas, Candidates
<1>3. [up[f] EXCEPT !.pc = "copy", !.targets = T] \in UpState
    BY <1>2, Now, RecordOf DEF PC
<1> QED BY <1>1, <1>3, Moves

LEMMA CopyMoves ==
    ASSUME TypeOK, NEW f \in File, NEW b \in Backend, Copy(f, b)
    PROVE  \E C, D \in SUBSET Backend :
               /\ C \cup D \subseteq up[f].targets \cup up[f].made
               /\ Moved(f, [up[f] EXCEPT !.targets = C, !.made = D])
<1> DEFINE C == up[f].targets \ {b}
<1>1. C \in SUBSET Backend /\ up[f].made \in SUBSET Backend /\ up[f] \in UpState
    BY Now
<1>2. b \in up[f].targets
    BY DEF Copy
<1>3. CASE up' = [up EXCEPT ![f].targets = @ \ {b}, ![f].made = @ \cup {b}]
    <2> DEFINE D == up[f].made \cup {b}
               r == [up[f] EXCEPT !.targets = C, !.made = D]
    <2>1. up' = [up EXCEPT ![f] = r]
        BY <1>3 DEF TypeOK
    <2>2. D \in SUBSET Backend /\ C \cup D \subseteq up[f].targets \cup up[f].made
        BY <1>1, <1>2
    <2>3. r \in UpState
        BY <1>1, <2>2, RecordOf DEF PC
    <2>4. Moved(f, r)
        BY <2>1, <2>3, Moves
    <2> QED BY <1>1, <2>2, <2>4
<1>4. CASE up' = [up EXCEPT ![f].targets = @ \ {b}]
    <2> DEFINE D == up[f].made
               r == [up[f] EXCEPT !.targets = C, !.made = D]
    <2>1. r = [up[f] EXCEPT !.targets = C]
        BY <1>1 DEF UpState
    <2>2. up' = [up EXCEPT ![f] = r]
        BY <1>4, <2>1 DEF TypeOK
    <2>3. r \in UpState
        BY <1>1, RecordOf DEF PC
    <2>4. Moved(f, r)
        BY <2>2, <2>3, Moves
    <2>5. C \cup D \subseteq up[f].targets \cup up[f].made
        OBVIOUS
    <2> QED BY <1>1, <2>4, <2>5
<1> QED BY <1>3, <1>4 DEF Copy

LEMMA GainType ==
    ASSUME TypeOK, NEW B \in SUBSET Backend, Gain(B)
    PROVE  /\ gained' \in [File -> SUBSET Backend]
           /\ \A f \in File : /\ gained[f] \subseteq gained'[f]
                              /\ UnderWay(f) => B \subseteq gained'[f]
BY DEF TypeOK, Gain

\* The file arrives, with jobs for T.
Registers(f, T) ==
    /\ At(f, "targets")
    /\ T \in TargetSets(f) \/ T \subseteq {up[f].want} \ Primary
    /\ row' = [row EXCEPT ![f] = up[f].at]
    /\ jobs' = [jobs EXCEPT ![f] = T]
    /\ goal' \in [File -> Backend \cup {None}]
    /\ live' = live \cup {f}
    /\ Gain(T \cup {up[f].at})
    /\ strained' = strained \cup ((T \cup {up[f].at}) \cap (gained[f] \cup ({up[f].want} \ Primary)))
    /\ UNCHANGED <<replicas, ill, counters>>

LEMMA RegisterTo ==
    ASSUME TypeOK, NEW f \in File, Register(f)
    PROVE  \E T \in SUBSET Backend : Registers(f, T)
<1> DEFINE want == up[f].want
<1>1. PICK T \in (IF want = None THEN TargetSets(f) ELSE {{want} \ Primary}) :
          /\ row' = [row EXCEPT ![f] = up[f].at]
          /\ jobs' = [jobs EXCEPT ![f] = T]
          /\ goal' = [goal EXCEPT ![f] = IF want \in Backend \ Primary THEN want ELSE None]
          /\ Arrive(f, T \cup {up[f].at})
          /\ strained' = strained \cup ((T \cup {up[f].at}) \cap (gained[f] \cup ({want} \ Primary)))
    BY DEF Register
<1>2. T \in SUBSET Backend
    BY <1>1, Now DEF TargetSets, Replicas, Candidates
<1>3. goal' \in [File -> Backend \cup {None}]
    BY <1>1 DEF TypeOK
<1>4. T \in TargetSets(f) \/ T \subseteq {want} \ Primary
    BY <1>1
<1>5. At(f, "targets") /\ UNCHANGED <<replicas, ill, counters>>
    BY DEF Register
<1> QED BY <1>1, <1>2, <1>3, <1>4, <1>5 DEF Registers, Arrive

LEMMA TypeStep == TypeOK /\ (\A f \in File : Chosen(f)) /\ [Next]_vars => TypeOK'
<1> SUFFICES ASSUME TypeOK, \A f \in File : Chosen(f), [Next]_vars PROVE TypeOK'
    OBVIOUS
<1> USE BackendsAssumption, BoundsAssumption
<1>0. ASSUME Fault PROVE faults' \in 0 .. MaxFaults
    BY <1>0 DEF Fault, TypeOK
<1>1. ASSUME NEW f \in File, UploadStep(f) PROVE TypeOK'
    <2> USE DEF Moved, tables, history, counters
    <2>1. ASSUME NEW want \in Backend \cup {None}, Begin(f, want) PROVE TypeOK'
        BY <2>1, BeginMoves DEF Begin, TypeOK
    <2>2. CASE ReadRows(f) \/ ReadReplicas(f) \/ ReadJobs(f)
        BY <2>2, ReadMoves DEF ReadRows, ReadReplicas, ReadJobs, Read, TypeOK
    <2>3. CASE Choose(f)
        <3>1. up' \in [File -> UpState]
            BY <2>3, ChooseMoves
        <3> QED BY <2>3, <3>1 DEF Choose, TypeOK
    <2>4. ASSUME NEW b \in Backend, Sent(f, b) PROVE TypeOK'
        BY <2>4, SentMoves DEF Sent, TypeOK
    <2>5. ASSUME NEW b \in Backend, SendFails(f, b) PROVE TypeOK'
        BY <2>5, <1>0, SendFailsMoves DEF SendFails, TypeOK
    <2>6. ASSUME NEW b \in Backend, Copy(f, b) PROVE TypeOK'
        <3>1. up' \in [File -> UpState]
            BY <2>6, CopyMoves
        <3> QED BY <2>6, <1>0, <3>1 DEF Copy, TypeOK
    <2>7. CASE Register(f)
        <3>1. PICK T \in SUBSET Backend : Registers(f, T)
            BY <2>7, RegisterTo
        <3>2. up[f].at \in Backend /\ up' \in [File -> UpState]
            BY <2>7, GiveMoves DEF Register, Arrive, Chosen, At
        <3>3. gained' \in [File -> SUBSET Backend]
            BY <3>1, <3>2, GainType DEF Registers
        <3> QED BY <2>7, <3>1, <3>2, <3>3 DEF Registers, TypeOK
    <2>8. CASE MigrateTargets(f)
        BY <2>8, MigrateMoves DEF MigrateTargets, TypeOK
    <2>9. CASE MarkMigrated(f)
        <3> DEFINE B == up[f].made \cup {up[f].at}
        <3>1. B \in SUBSET Backend /\ up' \in [File -> UpState]
            BY <2>9, Now, GiveMoves DEF MarkMigrated, Arrive, Chosen, At
        <3>2. gained' \in [File -> SUBSET Backend]
            BY <2>9, <3>1, GainType DEF MarkMigrated, Arrive
        <3>3. /\ row' \in [File -> Backend \cup {None}]
              /\ replicas' \in [File -> SUBSET Backend]
              /\ strained' \subseteq Backend
            BY <2>9, <3>1, Now DEF MarkMigrated, TypeOK
        <3> QED BY <2>9, <3>1, <3>2, <3>3 DEF MarkMigrated, Arrive, TypeOK
    <2> QED BY <1>1, <2>1, <2>2, <2>3, <2>4, <2>5, <2>6, <2>7, <2>8, <2>9 DEF UploadStep
<1>2. ASSUME NEW f \in File, NEW b \in Backend, CompleteJob(f, b) PROVE TypeOK'
    <2>1. gained' \in [File -> SUBSET Backend]
        BY <1>2, GainType DEF CompleteJob
    <2>2. /\ jobs' \in [File -> SUBSET Backend]
          /\ row' \in [File -> Backend \cup {None}]
          /\ replicas' \in [File -> SUBSET Backend]
        BY <1>2 DEF CompleteJob, TypeOK
    <2> QED BY <1>2, <2>1, <2>2 DEF CompleteJob, TypeOK, counters
<1>3. ASSUME NEW f \in File, Delete(f) PROVE TypeOK'
    BY <1>3 DEF Delete, TypeOK, history, counters
<1>4. ASSUME NEW f \in File, Expire(f) PROVE TypeOK'
    BY <1>4 DEF Expire, TypeOK, tables, history, counters
<1>5. ASSUME NEW f \in File, Extend(f) PROVE TypeOK'
    <2> DEFINE B == {row[f]} \cup replicas[f] \cup jobs[f]
    <2>1. B \in SUBSET Backend
        BY <1>5 DEF Extend, Stored, TypeOK
    <2>2. Gain(B) /\ strained' = strained \cup B /\ forms' \in 0 .. MaxForms
        BY <1>5 DEF Extend, TypeOK
    <2>3. gained' \in [File -> SUBSET Backend]
        BY <2>1, <2>2, GainType
    <2> HIDE DEF B
    <2> QED BY <1>5, <2>1, <2>2, <2>3 DEF Extend, TypeOK, tables
<1>6. ASSUME NEW b \in Backend, Recover(b) PROVE TypeOK'
    BY <1>6 DEF Recover, TypeOK, tables, history, counters
<1>7. ASSUME NEW b \in Backend, CheckFails(b) PROVE TypeOK'
    BY <1>7, <1>0 DEF CheckFails, TypeOK, tables, history
<1>8. CASE UNCHANGED vars
    BY <1>8 DEF vars, TypeOK, tables, history, counters
<1> QED BY <1>1, <1>2, <1>3, <1>4, <1>5, <1>6, <1>7, <1>8 DEF Next

-----------------------------------------------------------------------------
(* What an upload has chosen, and what is recorded of its file.            *)

LEMMA ChosenKept ==
    ASSUME NEW g \in File, Chosen(g), up'[g] = up[g]
    PROVE  Chosen(g)'
BY DEF Chosen, Fits

\* The targets of an upload are apart from its object and fit.
LEMMA TargetsFit ==
    ASSUME NEW f \in File, NEW T \in TargetSets(f)
    PROVE  \A b \in T : b \in Backend /\ b # up[f].at /\ Fits(f, b)
BY DEF TargetSets, Replicas, Candidates

LEMMA ChosenStep ==
    ASSUME TypeOK, NEW f \in File, Chosen(f), UploadStep(f)
    PROVE  Chosen(f)' /\ \A g \in File \ {f} : up'[g] = up[g]
<1> USE DEF Moved
<1>n. up[f] \in UpState
    BY Now
<1>1. ASSUME NEW want \in Backend \cup {None}, Begin(f, want)
      PROVE  Chosen(f)' /\ \A g \in File \ {f} : up'[g] = up[g]
    BY <1>1, <1>n, BeginMoves DEF Begin, At, Chosen, UpState
<1>2. CASE ReadRows(f) \/ ReadReplicas(f) \/ ReadJobs(f)
    <2>1. up[f].made = {}
        BY <1>2 DEF ReadRows, ReadReplicas, ReadJobs, Read, At, Chosen
    <2>2. up'[f].made = up[f].made
        BY <1>2, <1>n, ReadMoves DEF UpState
    <2>3. up'[f].pc = After(f)
        BY <1>2, ReadMoves
    <2>4. After(f) \notin {"send", "targets", "copy", "done"}
        BY DEF After
    <2> QED BY <1>2, <2>1, <2>2, <2>3, <2>4, ReadMoves DEF Chosen
<1>3. CASE Choose(f)
    <2>1. CASE Moved(f, [up[f] EXCEPT !.pc = "done"])
        BY <2>1, <1>n DEF Chosen, UpState
    <2>2. ASSUME NEW C \in SUBSET Backend, C \subseteq Primary, \A b \in C : Fits(f, b),
                 Moved(f, [up[f] EXCEPT !.pc = "send", !.left = C])
          PROVE  Chosen(f)'
        <3>1. /\ up'[f].pc = "send" /\ up'[f].left = C
              /\ up'[f].seen = up[f].seen /\ up'[f].made = up[f].made
            BY <2>2, <1>n DEF UpState
        <3>2. up[f].made = {}
            BY <1>3 DEF Choose, At, Chosen
        <3> QED BY <2>2, <3>1, <3>2 DEF Chosen, Fits
    <2> QED BY <1>3, <2>1, <2>2, ChooseMoves
<1>4. ASSUME NEW b \in Backend, Sent(f, b)
      PROVE  Chosen(f)' /\ \A g \in File \ {f} : up'[g] = up[g]
    <2>0. up'[f] = [up[f] EXCEPT !.pc = "targets", !.at = b]
        BY <1>4, SentMoves
    <2>1. /\ up'[f].pc = "targets" /\ up'[f].at = b
          /\ up'[f].seen = up[f].seen /\ up'[f].made = up[f].made
        BY <2>0, <1>n DEF UpState
    <2>2. b \in Primary /\ Fits(f, b) /\ up[f].made = {}
        BY <1>4 DEF Sent, At, Chosen
    <2> QED BY <1>4, <2>1, <2>2, SentMoves DEF Chosen, Fits
<1>5. ASSUME NEW b \in Backend, SendFails(f, b)
      PROVE  Chosen(f)' /\ \A g \in File \ {f} : up'[g] = up[g]
    <2>1. PICK pc \in {"send", "done"} :
              Moved(f, [up[f] EXCEPT !.left = up[f].left \ {b}, !.pc = pc])
        BY <1>5, SendFailsMoves
    <2>2. /\ up'[f].pc = pc /\ up'[f].left \subseteq up[f].left
          /\ up'[f].seen = up[f].seen /\ up'[f].made = up[f].made
        BY <2>1, <1>n DEF UpState
    <2>3. At(f, "send")
        BY <1>5 DEF SendFails
    <2> QED BY <2>1, <2>2, <2>3 DEF Chosen, Fits, At
<1>6. ASSUME NEW b \in Backend, Copy(f, b)
      PROVE  Chosen(f)' /\ \A g \in File \ {f} : up'[g] = up[g]
    <2>1. PICK C, D \in SUBSET Backend :
              /\ C \cup D \subseteq up[f].targets \cup up[f].made
              /\ Moved(f, [up[f] EXCEPT !.targets = C, !.made = D])
        BY <1>6, CopyMoves
    <2>2. /\ up'[f].pc = up[f].pc /\ up'[f].targets = C /\ up'[f].made = D
          /\ up'[f].seen = up[f].seen /\ up'[f].at = up[f].at
        BY <2>1, <1>n DEF UpState
    <2>3. At(f, "copy")
        BY <1>6 DEF Copy
    <2> QED BY <2>1, <2>2, <2>3 DEF Chosen, Fits, At
<1>7. CASE Register(f) \/ MarkMigrated(f)
    <2>1. Moved(f, [up[f] EXCEPT !.pc = "done"])
        BY <1>7, GiveMoves DEF Register, MarkMigrated, Arrive
    <2> QED BY <2>1, <1>n DEF Chosen, UpState
<1>8. CASE MigrateTargets(f)
    <2>1. PICK T \in TargetSets(f) : Moved(f, [up[f] EXCEPT !.pc = "copy", !.targets = T])
        BY <1>8, MigrateMoves
    <2>2. /\ up'[f].pc = "copy" /\ up'[f].targets = T /\ up'[f].made = up[f].made
          /\ up'[f].seen = up[f].seen /\ up'[f].at = up[f].at
        BY <2>1, <1>n DEF UpState
    <2>3. At(f, "targets")
        BY <1>8 DEF MigrateTargets
    <2>4. up[f].made = {} /\ up[f].at \in Primary /\ Fits(f, up[f].at)
        BY <2>3 DEF Chosen, At
    <2>5. \A b \in T : b # up[f].at /\ Fits(f, b)
        BY TargetsFit
    <2> QED BY <2>1, <2>2, <2>4, <2>5 DEF Chosen, Fits
<1> QED BY <1>1, <1>2, <1>3, <1>4, <1>5, <1>6, <1>7, <1>8 DEF UploadStep

\* The steps of an upload before its file arrives.
Ahead(f) ==
    \/ \E want \in Backend \cup {None} : Begin(f, want)
    \/ ReadRows(f) \/ ReadReplicas(f) \/ ReadJobs(f) \/ Choose(f)
    \/ \E b \in Backend : Sent(f, b) \/ SendFails(f, b) \/ Copy(f, b)
    \/ MigrateTargets(f)

LEMMA AheadFrame ==
    ASSUME NEW f \in File, Ahead(f)
    PROVE  up[f].pc # "done" /\ UNCHANGED <<tables, live, history>>
BY DEF Ahead, Begin, ReadRows, ReadReplicas, ReadJobs, Read, Choose, Sent, SendFails, Copy,
       MigrateTargets, At, history

\* A file arrives with the object at a and copies, made or to come, at R and T.
Arrives(f, a, R, T) ==
    /\ up[f].pc \in {"targets", "copy"}
    /\ a = up[f].at /\ a \in Primary /\ a \notin R \cup T /\ R \cap T = {}
    /\ R \cup T \subseteq Backend
    /\ row' = [row EXCEPT ![f] = a]
    /\ replicas' = [replicas EXCEPT ![f] = R]
    /\ jobs' = [jobs EXCEPT ![f] = T]
    /\ live' = live \cup {f}
    /\ Gain({a} \cup R \cup T)
    /\ strained \subseteq strained'
    /\ \A b \in {a} \cup R \cup T : (Fits(f, b) /\ b \notin gained[f]) \/ b \in strained'
    /\ Moved(f, [up[f] EXCEPT !.pc = "done"])

LEMMA RegisterArrives ==
    ASSUME TypeOK, NEW f \in File, Fresh(f), Chosen(f), Register(f)
    PROVE  \E T \in SUBSET Backend : Arrives(f, up[f].at, {}, T)
<1>1. PICK T \in SUBSET Backend : Registers(f, T)
    BY RegisterTo
<1>2. up[f].pc = "targets" /\ up[f].at \in Primary /\ Fits(f, up[f].at)
    BY <1>1 DEF Registers, At, Chosen
<1>3. up[f].at \notin T
    BY <1>1, <1>2, TargetsFit DEF Registers
<1>4. \A b \in T : Fits(f, b) \/ b \in {up[f].want} \ Primary
    BY <1>1, TargetsFit DEF Registers
<1>5. Moved(f, [up[f] EXCEPT !.pc = "done"])
    BY GiveMoves DEF Register, Arrive
<1>6. replicas' = [replicas EXCEPT ![f] = {}]
    BY <1>1, <1>2 DEF Registers, Fresh, TypeOK
<1>7. {up[f].at} \cup {} \cup T = T \cup {up[f].at}
    OBVIOUS
<1>8. \A b \in {up[f].at} \cup {} \cup T : (Fits(f, b) /\ b \notin gained[f]) \/ b \in strained'
    BY <1>1, <1>2, <1>4 DEF Registers
<1>9. up[f].at \notin {} \cup T /\ {} \cap T = {} /\ {} \cup T \subseteq Backend
    BY <1>3
<1>10. /\ row' = [row EXCEPT ![f] = up[f].at]
       /\ jobs' = [jobs EXCEPT ![f] = T]
       /\ live' = live \cup {f}
       /\ Gain({up[f].at} \cup {} \cup T)
       /\ strained \subseteq strained'
    BY <1>1, <1>7 DEF Registers
<1> QED BY <1>2, <1>5, <1>6, <1>8, <1>9, <1>10 DEF Arrives

LEMMA MarkArrives ==
    ASSUME TypeOK, NEW f \in File, Fresh(f), Chosen(f), MarkMigrated(f)
    PROVE  Arrives(f, up[f].at, up[f].made, {})
<1> DEFINE B == up[f].made \cup {up[f].at}
<1>1. /\ At(f, "copy")
      /\ row' = [row EXCEPT ![f] = up[f].at]
      /\ replicas' = [replicas EXCEPT ![f] = up[f].made]
      /\ Give(f) /\ live' = live \cup {f} /\ Gain(B)
      /\ strained' = strained \cup (B \cap gained[f])
      /\ jobs' = jobs
    BY DEF MarkMigrated, Arrive
<1>2. up[f].pc = "copy" /\ up[f].at \in Primary /\ Fits(f, up[f].at)
    BY <1>1 DEF At, Chosen
<1>3. \A b \in up[f].made : b # up[f].at /\ Fits(f, b)
    BY <1>2 DEF Chosen
<1>4. Moved(f, [up[f] EXCEPT !.pc = "done"])
    BY <1>1, GiveMoves
<1>5. jobs' = [jobs EXCEPT ![f] = {}]
    BY <1>1, <1>2 DEF Fresh, TypeOK
<1>6. {up[f].at} \cup up[f].made \cup {} = B
    OBVIOUS
<1>7. \A b \in B : (Fits(f, b) /\ b \notin gained[f]) \/ b \in strained'
    BY <1>1, <1>2, <1>3
<1>8. up[f].made \in SUBSET Backend
    BY Now
<1> HIDE DEF B
<1> QED BY <1>1, <1>2, <1>3, <1>4, <1>5, <1>6, <1>7, <1>8 DEF Arrives

-----------------------------------------------------------------------------
(* How the sums move.                                                      *)

\* The files in each sum of b.
Rows(b) == {g \in File : row[g] = b} \cap live
Held(b) == {g \in File : b \in replicas[g]} \cap live
Queue(b) == {g \in File : b \in jobs[g]} \cap live

LEMMA Sums ==
    ASSUME NEW b
    PROVE  /\ InRows(b) = Weight(Rows(b)) /\ InRows(b)' = Weight(Rows(b)')
           /\ InReplicas(b) = Weight(Held(b)) /\ InReplicas(b)' = Weight(Held(b)')
           /\ InJobs(b) = Weight(Queue(b)) /\ InJobs(b)' = Weight(Queue(b)')
BY DEF InRows, InReplicas, InJobs, Bytes, Rows, Held, Queue, Weight

\* No sum of b grows.
Stays(b) == /\ InRows(b)' <= InRows(b) /\ InReplicas(b)' <= InReplicas(b)
            /\ Used(b)' <= Used(b)

\* The sums of the next state are numbers, too.
LEMMA UsedNext == \A b : /\ InRows(b)' \in Nat /\ InReplicas(b)' \in Nat /\ InJobs(b)' \in Nat
                         /\ Used(b)' = InRows(b)' + InReplicas(b)' + InJobs(b)'
<1> SUFFICES ASSUME NEW b
             PROVE  /\ InRows(b)' \in Nat /\ InReplicas(b)' \in Nat /\ InJobs(b)' \in Nat
                    /\ Used(b)' = InRows(b)' + InReplicas(b)' + InJobs(b)'
    OBVIOUS
<1>1. InRows(b)' \in Nat /\ InReplicas(b)' \in Nat /\ InJobs(b)' \in Nat
    BY Sums, WeightNat
<1> QED BY <1>1 DEF Used

LEMMA StaysWithin ==
    ASSUME NEW b, Rows(b)' \subseteq Rows(b), Held(b)' \subseteq Held(b),
           Queue(b)' \subseteq Queue(b)
    PROVE  Stays(b)
<1>1. InRows(b)' <= InRows(b) /\ InReplicas(b)' <= InReplicas(b) /\ InJobs(b)' <= InJobs(b)
    BY Sums, WeightMono
<1> QED BY <1>1, SumsNat, UsedNext DEF Stays, Used

\* A file arrives: its backends have its bytes once more, others what they had.
LEMMA ArrivesSums ==
    ASSUME TypeOK, NEW f \in File, Fresh(f), NEW a, NEW R, NEW T, Arrives(f, a, R, T)
    PROVE  /\ \A b \in Backend \ ({a} \cup R \cup T) : Stays(b)
           /\ \A b \in {a} \cup R \cup T : Used(b)' <= Used(b) + Size[f]
<1>1. /\ row[f] = None /\ f \notin live /\ replicas[f] = {} /\ jobs[f] = {}
      /\ a \notin R \cup T /\ R \cap T = {}
    BY DEF Arrives, Fresh
<1>2. /\ \A g \in File \ {f} : row'[g] = row[g] /\ replicas'[g] = replicas[g] /\ jobs'[g] = jobs[g]
      /\ row'[f] = a /\ replicas'[f] = R /\ jobs'[f] = T
      /\ live' = live \cup {f}
    BY DEF Arrives, TypeOK
<1>3. \A b : /\ b # a => Rows(b)' \subseteq Rows(b)
             /\ b \notin R => Held(b)' \subseteq Held(b)
             /\ b \notin T => Queue(b)' \subseteq Queue(b)
             /\ Rows(b)' \subseteq Rows(b) \cup {f}
             /\ Held(b)' \subseteq Held(b) \cup {f}
             /\ Queue(b)' \subseteq Queue(b) \cup {f}
    BY <1>2 DEF Rows, Held, Queue
<1>4. ASSUME NEW b \in Backend \ ({a} \cup R \cup T) PROVE Stays(b)
    BY <1>3, <1>4, StaysWithin
<1>5. ASSUME NEW b \in {a} \cup R \cup T PROVE Used(b)' <= Used(b) + Size[f]
    <2>1. /\ InRows(b)' <= InRows(b) + Size[f]
          /\ InReplicas(b)' <= InReplicas(b) + Size[f]
          /\ InJobs(b)' <= InJobs(b) + Size[f]
        BY <1>3, Sums, WeightOneMore
    <2>2. /\ b # a => InRows(b)' <= InRows(b)
          /\ b \notin R => InReplicas(b)' <= InReplicas(b)
          /\ b \notin T => InJobs(b)' <= InJobs(b)
        BY <1>3, Sums, WeightMono
    <2>3. Size[f] \in Nat
        BY RoomAssumption
    <2>4. (b # a /\ b \notin R) \/ (b # a /\ b \notin T) \/ (b \notin R /\ b \notin T)
        BY <1>1, <1>5
    <2> QED BY <2>1, <2>2, <2>3, <2>4, SumsNat, UsedNext DEF Used
<1> QED BY <1>4, <1>5

\* A job is completed: its target has the bytes in another table, no other
\* backend has more.
LEMMA CompleteSums ==
    ASSUME TypeOK, NEW f \in File, NEW b \in Backend, CompleteJob(f, b)
    PROVE  /\ \A c \in Backend \ {b} : Stays(c)
           /\ Used(b)' <= Used(b)
<1>1. /\ \A g \in File \ {f} : row'[g] = row[g] /\ replicas'[g] = replicas[g] /\ jobs'[g] = jobs[g]
      /\ row'[f] \in {row[f], b}
      /\ replicas'[f] \subseteq replicas[f] \cup {b}
      /\ row'[f] = row[f] \/ replicas'[f] = replicas[f]
      /\ b \in jobs[f] /\ jobs'[f] = jobs[f] \ {b}
      /\ live' = live
    BY DEF CompleteJob, TypeOK
<1>2. ASSUME NEW c \in Backend \ {b} PROVE Stays(c)
    <2>1. /\ Rows(c)' \subseteq Rows(c) /\ Held(c)' \subseteq Held(c)
          /\ Queue(c)' \subseteq Queue(c)
        BY <1>1 DEF Rows, Held, Queue
    <2> QED BY <2>1, StaysWithin
<1>3. Used(b)' <= Used(b)
    <2>1. CASE f \notin live
        <3>1. /\ Rows(b)' \subseteq Rows(b) /\ Held(b)' \subseteq Held(b)
              /\ Queue(b)' \subseteq Queue(b)
            BY <1>1, <2>1 DEF Rows, Held, Queue
        <3> QED BY <3>1, StaysWithin DEF Stays
    <2>2. CASE f \in live
        <3>1. Queue(b)' = Queue(b) \ {f} /\ f \in Queue(b)
            BY <1>1, <2>2 DEF Queue
        <3>2. InJobs(b)' + Size[f] = InJobs(b)
            BY <3>1, Sums, WeightTake
        <3>3. /\ Rows(b)' \subseteq Rows(b) \cup {f} /\ Held(b)' \subseteq Held(b) \cup {f}
              /\ Rows(b)' \subseteq Rows(b) \/ Held(b)' \subseteq Held(b)
            BY <1>1 DEF Rows, Held
        <3>4. /\ InRows(b)' <= InRows(b) + Size[f] /\ InReplicas(b)' <= InReplicas(b) + Size[f]
              /\ InRows(b)' <= InRows(b) \/ InReplicas(b)' <= InReplicas(b)
            BY <3>3, Sums, WeightOneMore, WeightMono
        <3>5. Size[f] \in Nat
            BY RoomAssumption
        <3> QED BY <3>2, <3>4, <3>5, SumsNat, UsedNext DEF Used
    <2> QED BY <2>1, <2>2
<1> QED BY <1>2, <1>3

-----------------------------------------------------------------------------
(* The invariant.                                                          *)

LEMMA FiguresKept ==
    ASSUME TypeOK, NEW g \in File, Figures(g), up'[g] = up[g], NEW B,
           \A b \in Backend \ B : Stays(b),
           gained[g] \subseteq gained'[g], UnderWay(g) => B \subseteq gained'[g]
    PROVE  Figures(g)'
<1> SUFFICES ASSUME NEW b \in Backend \ gained'[g],
                    up[g].pc \in {"replicas", "jobs", "choose", "send", "targets", "copy"}
             PROVE  /\ up[g].pc = "replicas" => InRows(b)' <= up[g].seen[b]
                    /\ up[g].pc = "jobs" => InRows(b)' + InReplicas(b)' <= up[g].seen[b]
                    /\ up[g].pc \in {"choose", "send", "targets", "copy"} =>
                           Used(b)' <= up[g].seen[b]
    BY DEF Figures
<1>1. UnderWay(g)
    BY DEF UnderWay
<1>2. Stays(b) /\ b \notin gained[g]
    BY <1>1
<1>3. up[g].seen[b] \in Nat
    BY Now
<1>4. Used(b)' \in Nat
    BY UsedNext
<1> QED BY <1>2, <1>3, <1>4, SumsNat, UsedNext DEF Figures, Stays

\* A step that leaves tables and figures of the others alone.
LEMMA SumsSame ==
    ASSUME UNCHANGED <<tables, live>>
    PROVE  \A b : /\ InRows(b)' = InRows(b) /\ InReplicas(b)' = InReplicas(b)
                  /\ InJobs(b)' = InJobs(b) /\ Used(b)' = Used(b) /\ Stays(b)
<1> SUFFICES ASSUME NEW b
             PROVE  /\ InRows(b)' = InRows(b) /\ InReplicas(b)' = InReplicas(b)
                    /\ InJobs(b)' = InJobs(b) /\ Used(b)' = Used(b) /\ Stays(b)
    OBVIOUS
<1>1. Rows(b)' = Rows(b) /\ Held(b)' = Held(b) /\ Queue(b)' = Queue(b)
    BY DEF tables, Rows, Held, Queue
<1>2. InRows(b)' = InRows(b) /\ InReplicas(b)' = InReplicas(b) /\ InJobs(b)' = InJobs(b)
    BY <1>1, Sums
<1>3. Used(b)' = Used(b)
    BY <1>2 DEF Used
<1> QED BY <1>2, <1>3, SumsNat DEF Stays

\* Read, chosen and sent: the figures of f itself.
LEMMA FiguresAhead ==
    ASSUME TypeOK, NEW f \in File, Figures(f), Ahead(f)
    PROVE  Figures(f)'
<1>1. /\ \A b : /\ InRows(b)' = InRows(b) /\ InReplicas(b)' = InReplicas(b)
                /\ InJobs(b)' = InJobs(b) /\ Used(b)' = Used(b)
      /\ gained' = gained
    BY AheadFrame, SumsSame DEF history
<1>n. up[f] \in UpState
    BY Now
<1>2. CASE \E want \in Backend \cup {None} : Begin(f, want)
    <2>1. up'[f].pc = "rows"
        BY <1>2, <1>n, BeginMoves DEF Moved, UpState
    <2> QED BY <2>1 DEF Figures
<1>3. CASE ReadRows(f) \/ ReadReplicas(f) \/ ReadJobs(f)
    <2>1. /\ \A b \in Backend : up'[f].seen[b] = up[f].seen[b] + Part(f, b)
          /\ up'[f].pc = After(f)
        BY <1>3, ReadMoves
    <2>2. \A b \in Backend : up[f].seen[b] \in Nat
        BY Now
    <2>3. CASE ReadRows(f)
        <3>1. At(f, "rows") /\ ~At(f, "replicas")
            BY <2>3 DEF ReadRows, Read, At
        <3>2. /\ up'[f].pc = "replicas"
              /\ \A b \in Backend : up'[f].seen[b] = up[f].seen[b] + InRows(b)
            BY <2>1, <3>1 DEF After, Part
        <3>3. \A b \in Backend : InRows(b) <= up'[f].seen[b]
            BY <2>2, <3>2, SumsNat
        <3> QED BY <1>1, <3>2, <3>3 DEF Figures
    <2>4. CASE ReadReplicas(f)
        <3>1. At(f, "replicas") /\ ~At(f, "rows")
            BY <2>4 DEF ReadReplicas, Read, At
        <3>2. /\ up'[f].pc = "jobs"
              /\ \A b \in Backend : up'[f].seen[b] = up[f].seen[b] + InReplicas(b)
            BY <2>1, <3>1 DEF After, Part
        <3>3. \A b \in Backend \ gained[f] : InRows(b) <= up[f].seen[b]
            BY <3>1 DEF Figures, At
        <3>4. \A b \in Backend \ gained[f] : InRows(b) + InReplicas(b) <= up'[f].seen[b]
            BY <2>2, <3>2, <3>3, SumsNat
        <3> QED BY <1>1, <3>2, <3>4 DEF Figures
    <2>5. CASE ReadJobs(f)
        <3>1. At(f, "jobs") /\ ~At(f, "rows") /\ ~At(f, "replicas")
            BY <2>5 DEF ReadJobs, Read, At
        <3>2. /\ up'[f].pc = "choose"
              /\ \A b \in Backend : up'[f].seen[b] = up[f].seen[b] + InJobs(b)
            BY <2>1, <3>1 DEF After, Part
        <3>3. \A b \in Backend \ gained[f] : InRows(b) + InReplicas(b) <= up[f].seen[b]
            BY <3>1 DEF Figures, At
        <3>4. \A b \in Backend \ gained[f] : Used(b) <= up'[f].seen[b]
            BY <2>2, <3>2, <3>3, SumsNat DEF Used
        <3> QED BY <1>1, <3>2, <3>4 DEF Figures
    <2> QED BY <1>3, <2>3, <2>4, <2>5
\* From then on the figures stay.
<1>4. ASSUME up[f].pc \in {"choose", "send", "targets", "copy"}, up'[f].seen = up[f].seen,
             up'[f].pc \in {"choose", "send", "targets", "copy", "done"}
      PROVE  Figures(f)'
    BY <1>1, <1>4 DEF Figures
<1>5. CASE Choose(f)
    <2>1. /\ up'[f].seen = up[f].seen
          /\ up'[f].pc \in {"send", "done"}
        BY <1>5, <1>n, ChooseMoves DEF Moved, UpState
    <2> QED BY <1>4, <1>5, <2>1 DEF Choose, At
<1>6. CASE \E b \in Backend : Sent(f, b)
    <2>1. PICK b \in Backend : Sent(f, b)
        BY <1>6
    <2>2. up'[f] = [up[f] EXCEPT !.pc = "targets", !.at = b]
        BY <2>1, SentMoves DEF Moved
    <2>3. up'[f].seen = up[f].seen /\ up'[f].pc = "targets"
        BY <2>2, <1>n DEF UpState
    <2> QED BY <1>4, <2>1, <2>3 DEF Sent, At
<1>7. CASE \E b \in Backend : SendFails(f, b)
    <2>1. /\ up'[f].seen = up[f].seen
          /\ up'[f].pc \in {"send", "done"}
        BY <1>7, <1>n, SendFailsMoves DEF Moved, UpState
    <2> QED BY <1>4, <1>7, <2>1 DEF SendFails, At
<1>8. CASE \E b \in Backend : Copy(f, b)
    <2>1. up'[f].seen = up[f].seen /\ up'[f].pc = up[f].pc
        BY <1>8, <1>n, CopyMoves DEF Moved, UpState
    <2> QED BY <1>4, <1>8, <2>1 DEF Copy, At
<1>9. CASE MigrateTargets(f)
    <2>1. up'[f].seen = up[f].seen /\ up'[f].pc = "copy"
        BY <1>9, <1>n, MigrateMoves DEF Moved, UpState
    <2> QED BY <1>4, <1>9, <2>1 DEF MigrateTargets, At
<1> QED BY <1>2, <1>3, <1>5, <1>6, <1>7, <1>8, <1>9 DEF Ahead

\* What is recorded of a backend stays within its room, or is excused.
LEMMA OverfullKept ==
    ASSUME TypeOK, OverfullForCause, NEW B, \A b \in Backend \ B : Stays(b),
           strained \subseteq strained',
           \A b \in B : \/ b \in strained' \/ Room[b] = 0
                        \/ Used(b)' <= Room[b] \/ Used(b)' <= Used(b)
    PROVE  OverfullForCause'
<1> SUFFICES ASSUME NEW b \in Backend, Room[b] # 0, b \notin strained'
             PROVE  ~(Used(b)' > Room[b])
    BY DEF OverfullForCause
<1>1. ~(Used(b) > Room[b])
    BY DEF OverfullForCause
<1>2. Used(b)' <= Room[b] \/ Used(b)' <= Used(b)
    BY DEF Stays
<1>3. Used(b) \in Nat /\ Used(b)' \in Nat /\ Room[b] \in Nat
    BY SumsNat, UsedNext, RoomAssumption
<1> QED BY <1>1, <1>2, <1>3

LEMMA AheadStep ==
    ASSUME IInv, NEW f \in File, Ahead(f)
    PROVE  Uploads' /\ OverfullForCause' /\ OnDifferentServices'
<1>1. up[f].pc # "done" /\ UNCHANGED <<tables, live, history>>
    BY AheadFrame
<1>2. UploadStep(f)
    BY DEF Ahead, UploadStep
<1>3. Chosen(f)' /\ \A g \in File \ {f} : up'[g] = up[g]
    BY <1>2, ChosenStep DEF IInv, Uploads
<1>4. \A b : Stays(b)
    BY <1>1, SumsSame
<1>5. ASSUME NEW g \in File \ {f} PROVE Fresh(g)' /\ Chosen(g)' /\ Figures(g)'
    <2>1. Figures(g)'
        BY <1>1, <1>3, <1>4, <1>5, FiguresKept, {} \subseteq gained'[g] DEF IInv, Uploads, history
    <2> QED BY <1>1, <1>3, <1>5, <2>1, ChosenKept DEF IInv, Uploads, Fresh, tables
<1>6. Fresh(f)' /\ Figures(f)'
    BY <1>1, FiguresAhead DEF IInv, Uploads, Fresh, tables
<1>7. OverfullForCause'
    BY <1>1, <1>4, OverfullKept, \A b \in {} : FALSE DEF IInv, history
<1>8. OnDifferentServices'
    BY <1>1 DEF IInv, OnDifferentServices, tables
<1> QED BY <1>3, <1>5, <1>6, <1>7, <1>8 DEF Uploads

LEMMA ArrivesStep ==
    ASSUME IInv, NEW f \in File, NEW a, NEW R, NEW T, Arrives(f, a, R, T)
    PROVE  Uploads' /\ OverfullForCause' /\ OnDifferentServices'
<1> DEFINE B == {a} \cup R \cup T
<1>1. Fresh(f) /\ Figures(f) /\ TypeOK /\ f \in File
    BY DEF IInv, Uploads
<1>2. /\ \A b \in Backend \ B : Stays(b)
      /\ \A b \in B : Used(b)' <= Used(b) + Size[f]
    BY <1>1, ArrivesSums
<1>3. B \in SUBSET Backend
    BY BackendsAssumption DEF Arrives
<1>4. /\ up'[f].pc = "done"
      /\ \A g \in File \ {f} : up'[g] = up[g]
    BY Now DEF Arrives, Moved, UpState, IInv
<1>5. \A g \in File : gained[g] \subseteq gained'[g] /\ (UnderWay(g) => B \subseteq gained'[g])
    BY <1>1, <1>3, GainType DEF Arrives
<1>6. /\ \A g \in File \ {f} : row'[g] = row[g] /\ replicas'[g] = replicas[g] /\ jobs'[g] = jobs[g]
      /\ row'[f] = a /\ replicas'[f] = R /\ jobs'[f] = T
      /\ live' = live \cup {f}
    BY <1>1 DEF Arrives, TypeOK
<1>7. ASSUME NEW g \in File \ {f} PROVE Fresh(g)' /\ Chosen(g)' /\ Figures(g)'
    <2>1. Figures(g)'
        BY <1>1, <1>2, <1>4, <1>5, <1>7, FiguresKept DEF IInv, Uploads
    <2>2. Fresh(g)'
        BY <1>4, <1>6, <1>7 DEF IInv, Uploads, Fresh
    <2> QED BY <1>4, <1>7, <2>1, <2>2, ChosenKept DEF IInv, Uploads
<1>8. Fresh(f)' /\ Chosen(f)' /\ Figures(f)'
    BY <1>4 DEF Fresh, Chosen, Figures
<1>9. OverfullForCause'
    <2>1. ASSUME NEW b \in B, b \notin strained', Room[b] # 0
          PROVE  Used(b)' <= Room[b]
        <3>1. Fits(f, b) /\ b \notin gained[f] /\ b \in Backend
            BY <1>3, <2>1 DEF Arrives
        <3>2. Used(b) <= up[f].seen[b]
            BY <1>1, <3>1 DEF Arrives, Figures
        <3>3. up[f].seen[b] + Size[f] <= Room[b]
            BY <2>1, <3>1 DEF Fits
        <3>4. Used(b)' <= Used(b) + Size[f]
            BY <1>2
        <3>5. /\ up[f].seen[b] \in Nat /\ Size[f] \in Nat /\ Room[b] \in Nat
              /\ Used(b) \in Nat /\ Used(b)' \in Nat
            BY <1>1, <3>1, Now, RoomAssumption, SumsNat, UsedNext
        <3> QED BY <3>2, <3>3, <3>4, <3>5
    <2>2. strained \subseteq strained'
        BY DEF Arrives
    <2> HIDE DEF B
    <2> QED BY <1>1, <1>2, <2>1, <2>2, OverfullKept DEF IInv
<1>10. OnDifferentServices'
    <2>1. a \notin R \cup T /\ R \cap T = {}
        BY DEF Arrives
    <2> QED BY <1>6, <2>1 DEF IInv, OnDifferentServices
<1> QED BY <1>7, <1>8, <1>9, <1>10 DEF Uploads

\* A step of the registered files leaves the uploads alone.
LEMMA ElsewhereStep ==
    ASSUME IInv, up' = up, NEW B \in SUBSET Backend, \A b \in Backend \ B : Stays(b),
           \A g \in File : gained[g] \subseteq gained'[g] /\ (UnderWay(g) => B \subseteq gained'[g]),
           \A g \in File : up[g].pc # "done" =>
               row'[g] = row[g] /\ replicas'[g] \subseteq replicas[g]
               /\ jobs'[g] \subseteq jobs[g] /\ (g \in live' => g \in live)
    PROVE  Uploads'
<1> SUFFICES ASSUME NEW g \in File PROVE Fresh(g)' /\ Chosen(g)' /\ Figures(g)'
    BY DEF Uploads
<1>1. Fresh(g) /\ Chosen(g) /\ Figures(g) /\ TypeOK
    BY DEF IInv, Uploads
<1>2. Figures(g)'
    BY <1>1, FiguresKept
<1> QED BY <1>1, <1>2, ChosenKept DEF Fresh

LEMMA CompleteStep ==
    ASSUME IInv, NEW f \in File, NEW b \in Backend, CompleteJob(f, b)
    PROVE  Uploads' /\ OverfullForCause' /\ OnDifferentServices'
<1>1. TypeOK /\ Fresh(f) /\ b \in jobs[f]
    BY DEF IInv, Uploads, CompleteJob
<1>2. /\ \A c \in Backend \ {b} : Stays(c)
      /\ Used(b)' <= Used(b)
    BY <1>1, CompleteSums
<1>3. \A g \in File : gained[g] \subseteq gained'[g] /\ (UnderWay(g) => {b} \subseteq gained'[g])
    BY <1>1, GainType DEF CompleteJob
<1>4. /\ \A g \in File \ {f} : row'[g] = row[g] /\ replicas'[g] = replicas[g] /\ jobs'[g] = jobs[g]
      /\ \/ row'[f] = b /\ replicas'[f] = replicas[f]
         \/ row'[f] = row[f] /\ replicas'[f] = replicas[f] \cup {b}
      /\ jobs'[f] = jobs[f] \ {b}
      /\ live' = live /\ up' = up /\ strained' = strained
    BY <1>1 DEF CompleteJob, TypeOK
<1>5. up[f].pc = "done"
    BY <1>1 DEF Fresh
<1>6. Uploads'
    <2>1. {b} \in SUBSET Backend /\ up' = up
        BY <1>4
    <2>2. \A g \in File : up[g].pc # "done" =>
              row'[g] = row[g] /\ replicas'[g] \subseteq replicas[g]
              /\ jobs'[g] \subseteq jobs[g] /\ (g \in live' => g \in live)
        BY <1>4, <1>5
    <2> QED BY <1>2, <1>3, <2>1, <2>2, ElsewhereStep
<1>7. OverfullForCause'
    BY <1>1, <1>2, <1>4, OverfullKept DEF IInv
<1>8. OnDifferentServices'
    BY <1>1, <1>4 DEF IInv, OnDifferentServices
<1> QED BY <1>6, <1>7, <1>8

LEMMA LeaveStep ==
    ASSUME IInv, NEW f \in File, Delete(f) \/ Expire(f)
    PROVE  Uploads' /\ OverfullForCause' /\ OnDifferentServices'
<1>1. /\ up' = up /\ gained' = gained /\ strained' = strained
      /\ live' \subseteq live
      /\ \A g \in File : \/ row'[g] = row[g] /\ replicas'[g] = replicas[g] /\ jobs'[g] = jobs[g]
                         \/ row'[g] = None /\ replicas'[g] = {} /\ jobs'[g] = {} /\ up[g].pc = "done"
    BY DEF IInv, Uploads, Fresh, TypeOK, Stored, Delete, Expire, history, tables
<1>2. ASSUME NEW b \in Backend PROVE Stays(b)
    <2>1. /\ Rows(b)' \subseteq Rows(b) /\ Held(b)' \subseteq Held(b)
          /\ Queue(b)' \subseteq Queue(b)
        BY <1>1, BackendsAssumption DEF Rows, Held, Queue
    <2> QED BY <2>1, StaysWithin
<1>3. Uploads'
    BY <1>1, <1>2, ElsewhereStep, {} \in SUBSET Backend
<1>4. OverfullForCause'
    BY <1>1, <1>2, OverfullKept, \A b \in {} : FALSE DEF IInv
<1>5. OnDifferentServices'
    BY <1>1 DEF IInv, OnDifferentServices
<1> QED BY <1>3, <1>4, <1>5

LEMMA ExtendStep ==
    ASSUME IInv, NEW f \in File, Extend(f)
    PROVE  Uploads' /\ OverfullForCause' /\ OnDifferentServices'
<1> DEFINE B == {row[f]} \cup replicas[f] \cup jobs[f]
<1>1. /\ up' = up /\ UNCHANGED tables
      /\ live' = live \cup {f} /\ Gain(B) /\ strained' = strained \cup B
      /\ row[f] # None
    BY DEF Extend, Stored
<1>2. TypeOK /\ B \in SUBSET Backend /\ up[f].pc = "done"
    BY <1>1 DEF IInv, TypeOK, Uploads, Fresh
<1>3. \A g \in File : gained[g] \subseteq gained'[g] /\ (UnderWay(g) => B \subseteq gained'[g])
    BY <1>1, <1>2, GainType
<1>4. ASSUME NEW b \in Backend \ B PROVE Stays(b)
    <2>1. /\ Rows(b)' \subseteq Rows(b) /\ Held(b)' \subseteq Held(b)
          /\ Queue(b)' \subseteq Queue(b)
        BY <1>1, <1>4 DEF Rows, Held, Queue, tables
    <2> QED BY <2>1, StaysWithin
<1>5. OnDifferentServices'
    BY <1>1 DEF IInv, OnDifferentServices, tables
<1>6. \A g \in File : up[g].pc # "done" =>
          row'[g] = row[g] /\ replicas'[g] \subseteq replicas[g]
          /\ jobs'[g] \subseteq jobs[g] /\ (g \in live' => g \in live)
    BY <1>1, <1>2 DEF tables
<1> HIDE DEF B
<1>7. Uploads'
    BY <1>1, <1>2, <1>3, <1>4, <1>6, ElsewhereStep
<1>8. OverfullForCause'
    BY <1>1, <1>2, <1>4, OverfullKept DEF IInv
<1> QED BY <1>5, <1>7, <1>8

LEMMA StillStep ==
    ASSUME IInv, UNCHANGED <<tables, live, up, history>>
    PROVE  Uploads' /\ OverfullForCause' /\ OnDifferentServices'
<1>1. \A b : Stays(b)
    BY SumsSame
<1>2. Uploads'
    BY <1>1, ElsewhereStep, {} \in SUBSET Backend DEF history, tables
<1>3. OverfullForCause'
    BY <1>1, OverfullKept, \A b \in {} : FALSE DEF IInv, history
<1> QED BY <1>2, <1>3 DEF IInv, OnDifferentServices, tables

LEMMA InitInv == Init => IInv
<1> SUFFICES ASSUME Init PROVE IInv
    OBVIOUS
<1>1. TypeOK
    BY BoundsAssumption DEF Init, TypeOK, NoUpload, UpState, PC
<1>2. Uploads
    BY DEF Init, Uploads, Fresh, Chosen, Figures, NoUpload
<1>3. OverfullForCause
    <2> SUFFICES ASSUME NEW b \in Backend, Room[b] # 0 PROVE ~(Used(b) > Room[b])
        BY DEF OverfullForCause
    <2>1. Rows(b) = {} /\ Held(b) = {} /\ Queue(b) = {}
        BY DEF Init, Rows, Held, Queue
    <2>2. Weight({}) = 0
        <3>1. {x \in Content : x[1] \in {}} = {}
            OBVIOUS
        <3> QED BY <3>1, FS_EmptySet DEF Weight
    <2>3. Used(b) = 0
        BY <2>1, <2>2, Sums DEF Used
    <2> QED BY <2>3, RoomAssumption
<1>4. OnDifferentServices
    BY DEF Init, OnDifferentServices
<1> QED BY <1>1, <1>2, <1>3, <1>4 DEF IInv

LEMMA Invariant == Spec => []IInv
<1>1. IInv /\ [Next]_vars => IInv'
    <2> SUFFICES ASSUME IInv, [Next]_vars PROVE IInv'
        OBVIOUS
    <2>1. TypeOK'
        BY TypeStep DEF IInv, Uploads
    <2>2. ASSUME NEW f \in File, UploadStep(f)
          PROVE  Uploads' /\ OverfullForCause' /\ OnDifferentServices'
        <3>1. Ahead(f) \/ Register(f) \/ MarkMigrated(f)
            BY <2>2 DEF UploadStep, Ahead
        <3>2. CASE Register(f)
            BY <3>2, RegisterArrives, ArrivesStep DEF IInv, Uploads
        <3>3. CASE MarkMigrated(f)
            BY <3>3, MarkArrives, ArrivesStep DEF IInv, Uploads
        <3> QED BY <3>1, <3>2, <3>3, AheadStep
    <2>3. ASSUME NEW b \in Backend, Recover(b) \/ CheckFails(b)
          PROVE  Uploads' /\ OverfullForCause' /\ OnDifferentServices'
        BY <2>3, StillStep DEF Recover, CheckFails
    <2>4. ASSUME UNCHANGED vars
          PROVE  Uploads' /\ OverfullForCause' /\ OnDifferentServices'
        BY <2>4, StillStep DEF vars
    <2>5. ASSUME NEW f \in File, NEW b \in Backend, CompleteJob(f, b)
          PROVE  Uploads' /\ OverfullForCause' /\ OnDifferentServices'
        BY <2>5, CompleteStep
    <2>6. ASSUME NEW f \in File, Delete(f) \/ Expire(f) \/ Extend(f)
          PROVE  Uploads' /\ OverfullForCause' /\ OnDifferentServices'
        BY <2>6, LeaveStep, ExtendStep
    <2>7. Uploads' /\ OverfullForCause' /\ OnDifferentServices'
        BY <2>2, <2>3, <2>4, <2>5, <2>6 DEF Next
    <2> QED BY <2>1, <2>7 DEF IInv
<1> QED BY InitInv, <1>1, PTL DEF Spec

-----------------------------------------------------------------------------
(* Theorems.                                                               *)

\* What the tables, the uploads and the migration hold of backends and files
\* keeps its type: the object of a file that arrives is on a backend.
THEOREM Typed == Spec => []TypeOK
<1>1. IInv => TypeOK
    BY DEF IInv
<1> QED BY Invariant, <1>1, PTL

\* backend_usage and _candidates: what the tables assign to a backend is
\* more than it has room for only where files arrived there, or jobs of it
\* were done, since an upload began to read, where it was the destination of
\* a promotion, or where an expired file was extended.
THEOREM WithinRoom == Spec => []OverfullForCause
<1>1. IInv => OverfullForCause
    BY DEF IInv
<1> QED BY Invariant, <1>1, PTL

\* The object of a file, its replicas and the targets of its jobs are on
\* different backends, through uploads, migration, completion and deletion.
THEOREM Apart == Spec => []OnDifferentServices
<1>1. IInv => OnDifferentServices
    BY DEF IInv
<1> QED BY Invariant, <1>1, PTL

=============================================================================
