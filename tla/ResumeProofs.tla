---------------------------- MODULE ResumeProofs ----------------------------
(* What is proved of Resume, for any size, number of workers and failures. *)
EXTENDS Resume, TLAPS

\* What is uploaded has the size of the source, so an object of that size is
\* only ever replaced by one of that size.
Sizes ==
    /\ \A w \in Worker : pc[w] = "upload" => part[w].len = Size
    /\ \A w \in Worker : pc[w] = "report" => target.len = Size
    /\ target = Empty \/ target.len = Size
    /\ recorded => target.len = Size

\* Where Range is honoured a .part is at any time a beginning of the source.
Beginnings ==
    ~ignored =>
        /\ \A w \in Worker : part[w].right /\ part[w].len <= Size
        /\ \A w \in Worker : pc[w] = "fetch" => part[w].len = pos[w]
        /\ target.right

IInv == TypeOK /\ Sizes /\ Beginnings

LEMMA Initial == Init => IInv
<1> SUFFICES ASSUME Init PROVE IInv
  OBVIOUS
<1>1. Empty \in Content /\ Empty.right = TRUE /\ Empty.len = 0
  BY DEF Empty, Content
<1>2. TypeOK
  <2>1. pos \in [Worker -> 0 .. Size] /\ 0 \in 0 .. MaxFaults
    BY SizeAssumption, FaultsAssumption DEF Init
  <2>2. pc \in [Worker -> PC] /\ part \in [Worker -> Content]
    BY <1>1 DEF Init, PC
  <2> QED
    BY <1>1, <2>1, <2>2 DEF Init, TypeOK
<1>3. Sizes
  BY DEF Init, Sizes
<1>4. Beginnings
  BY <1>1, SizeAssumption DEF Init, Beginnings
<1> QED
  BY <1>2, <1>3, <1>4 DEF IInv

LEMMA Counted == ASSUME TypeOK, Fault PROVE faults' \in 0 .. MaxFaults
BY FaultsAssumption DEF TypeOK, Fault

\* A step that changes only the lease and what workers are at.
LEMMA Bookkeeping ==
    ASSUME IInv, UNCHANGED <<target, part, pos, ignored>>,
           holder' \in Worker \cup {None}, faults' \in 0 .. MaxFaults,
           recorded' \in BOOLEAN, recorded' /\ ~recorded => target.len = Size,
           pc' \in [Worker -> PC],
           \A w \in Worker : /\ pc'[w] = "fetch" => pc[w] = "fetch"
                             /\ pc'[w] = "upload" => part[w].len = Size
                             /\ pc'[w] = "report" => target.len = Size
    PROVE  IInv'
BY DEF IInv, TypeOK, Sizes, Beginnings

LEMMA TakeKeeps == ASSUME IInv, NEW w \in Worker, Take(w) PROVE IInv'
<1>1. /\ pc' \in [Worker -> PC]
      /\ \A x \in Worker : pc'[x] \in {pc[x], "open"}
  BY DEF Take, Go, IInv, TypeOK, PC
<1> QED
  BY <1>1, Bookkeeping DEF Take, IInv, TypeOK, Sizes

LEMMA OpenKeeps == ASSUME IInv, NEW w \in Worker, Open(w) PROVE IInv'
<1> DEFINE d == Downloaded(w)
<1>1. part[w] \in Content /\ part[w].len \in Nat /\ Empty \in Content
  BY DEF IInv, TypeOK, Content, Empty
<1>2. d \in 0 .. Size
  BY <1>1, SizeAssumption DEF Downloaded
<1>3. /\ part' \in [Worker -> Content]
      /\ \A x \in Worker \ {w} : part'[x] = part[x]
      /\ part'[w] = (IF d = 0 THEN Empty ELSE part[w])
  BY <1>1 DEF Open, IInv, TypeOK
<1>4. /\ pc' \in [Worker -> PC]
      /\ \A x \in Worker \ {w} : pc'[x] = pc[x]
      /\ pc'[w] = "fetch"
  BY DEF Open, Go, IInv, TypeOK, PC
<1>5. /\ pos' \in [Worker -> 0 .. Size]
      /\ \A x \in Worker \ {w} : pos'[x] = pos[x]
      /\ ignored' \in BOOLEAN /\ (ignored => ignored')
      /\ ~ignored' => pos'[w] = d
  <2>1. pos \in [Worker -> 0 .. Size] /\ ignored \in BOOLEAN /\ 0 \in 0 .. Size
    BY SizeAssumption DEF IInv, TypeOK
  <2>2. \/ pos' = [pos EXCEPT ![w] = d] /\ ignored' = ignored
        \/ pos' = [pos EXCEPT ![w] = 0] /\ ignored' = TRUE
    BY DEF Open
  <2> HIDE DEF d
  <2> QED
    BY <1>2, <2>1, <2>2
<1>6. ~ignored' => part'[w].right /\ part'[w].len = d
  <2>1. ~ignored' => part[w].right /\ part[w].len <= Size
    BY <1>5 DEF IInv, Beginnings
  <2>2. ~ignored' => d = part[w].len
    BY <1>1, <2>1, SizeAssumption DEF Downloaded
  <2>3. Empty.right = TRUE /\ Empty.len = 0
    BY DEF Empty
  <2> QED
    BY <1>3, <2>1, <2>2, <2>3
<1>7. TypeOK'
  BY <1>3, <1>4, <1>5 DEF Open, job, IInv, TypeOK
<1>8. Sizes'
  <2>1. target' = target /\ recorded' = recorded
    BY DEF Open, job
  <2>2. \A x \in Worker : pc'[x] \in {"upload", "report"} => part'[x] = part[x] /\ pc'[x] = pc[x]
    BY <1>3, <1>4
  <2> QED
    BY <2>1, <2>2 DEF IInv, Sizes
<1>9. Beginnings'
  <2>1. target' = target
    BY DEF Open, job
  <2> HIDE DEF d
  <2>2. ASSUME ~ignored', NEW x \in Worker
        PROVE  /\ part'[x].right /\ part'[x].len <= Size
               /\ pc'[x] = "fetch" => part'[x].len = pos'[x]
    <3>1. CASE x = w
      BY <1>2, <1>5, <1>6, <2>2, <3>1, SizeAssumption
    <3>2. CASE x # w
      BY <1>3, <1>4, <1>5, <2>2, <3>2 DEF IInv, Beginnings
    <3> QED
      BY <3>1, <3>2
  <2> QED
    BY <1>5, <2>1, <2>2 DEF IInv, Beginnings
<1> QED
  BY <1>7, <1>8, <1>9 DEF IInv

LEMMA AlreadyThereKeeps == ASSUME IInv, NEW w \in Worker, AlreadyThere(w) PROVE IInv'
<1>1. part[w].len = Size
  BY SizeAssumption DEF AlreadyThere, Downloaded
<1>2. /\ pc' \in [Worker -> PC]
      /\ \A x \in Worker \ {w} : pc'[x] = pc[x]
      /\ pc'[w] = "upload"
  BY DEF AlreadyThere, Go, IInv, TypeOK, PC
<1> QED
  BY <1>1, <1>2, Bookkeeping DEF AlreadyThere, job, IInv, TypeOK, Sizes

LEMMA WriteKeeps == ASSUME IInv, NEW w \in Worker, NEW k \in 1 .. Size, Write(w, k) PROVE IInv'
<1> DEFINE longer == [len |-> part[w].len + k, right |-> part[w].right /\ part[w].len = pos[w]]
<1>1. /\ part[w].len \in Nat /\ part[w].right \in BOOLEAN /\ pos[w] \in 0 .. Size
      /\ pc[w] = "fetch" /\ pos[w] + k <= Size
  BY DEF Write, At, IInv, TypeOK, Content
<1>2. longer \in Content
  <2>1. part[w].len + k \in Nat
    BY <1>1, SizeAssumption
  <2>2. (part[w].right /\ part[w].len = pos[w]) \in BOOLEAN
    OBVIOUS
  <2> QED
    BY <2>1, <2>2, Zenon DEF Content
<1>3. /\ part' \in [Worker -> Content]
      /\ \A x \in Worker \ {w} : part'[x] = part[x]
      /\ part'[w] = longer
  BY <1>2 DEF Write, IInv, TypeOK
<1>4. /\ pos' \in [Worker -> 0 .. Size]
      /\ \A x \in Worker \ {w} : pos'[x] = pos[x]
      /\ pos'[w] = pos[w] + k
  BY <1>1, SizeAssumption DEF Write, IInv, TypeOK
<1>5. pc' = pc /\ target' = target /\ recorded' = recorded /\ ignored' = ignored
  BY DEF Write, job
<1>6. TypeOK'
  BY <1>3, <1>4, <1>5 DEF Write, job, IInv, TypeOK
<1>7. Sizes'
  BY <1>1, <1>3, <1>5 DEF IInv, Sizes
<1>8. Beginnings'
  <2>1. ~ignored => longer.right /\ longer.len = pos[w] + k /\ longer.len <= Size
    BY <1>1 DEF IInv, Beginnings
  <2> HIDE DEF longer
  <2> QED
    BY <1>3, <1>4, <1>5, <2>1 DEF IInv, Beginnings
<1> QED
  BY <1>6, <1>7, <1>8 DEF IInv

LEMMA EndOfBodyKeeps == ASSUME IInv, NEW w \in Worker, EndOfBody(w) PROVE IInv'
<1>1. /\ pc' \in [Worker -> PC]
      /\ \A x \in Worker \ {w} : pc'[x] = pc[x]
      /\ pc'[w] = (IF part[w].len = Size THEN "upload" ELSE "failed")
  BY DEF EndOfBody, Go, IInv, TypeOK, PC
<1>2. faults' \in 0 .. MaxFaults
  BY Counted DEF EndOfBody, IInv, TypeOK
<1> QED
  BY <1>1, <1>2, Bookkeeping DEF EndOfBody, job, IInv, TypeOK, Sizes

\* A worker that leaves its step with the .part as it is, or too long and
\* gone, and has perhaps stored it.
LEMMA Storing ==
    ASSUME IInv, NEW w \in Worker, NEW p \in {"head", "failed"}, Go(w, p),
           UNCHANGED <<holder, recorded, pos, ignored>>, faults' \in 0 .. MaxFaults,
           part' = part \/ part' = [part EXCEPT ![w] = Empty],
           target' = target \/ (target' = part[w] /\ part[w].len = Size)
    PROVE  IInv'
<1>1. /\ pc' \in [Worker -> PC]
      /\ \A x \in Worker \ {w} : pc'[x] = pc[x]
      /\ pc'[w] \notin {"upload", "report", "fetch"}
  BY DEF Go, IInv, TypeOK, PC
<1>2. /\ part' \in [Worker -> Content]
      /\ \A x \in Worker : part'[x] = part[x] \/ part'[x] = Empty
      /\ \A x \in Worker \ {w} : part'[x] = part[x]
  <2>1. Empty \in Content
    BY DEF Empty, Content
  <2> QED
    BY <2>1 DEF IInv, TypeOK
<1>3. target' \in Content
  BY DEF IInv, TypeOK
<1>4. TypeOK'
  BY <1>1, <1>2, <1>3 DEF IInv, TypeOK
<1>5. Sizes'
  BY <1>1, <1>2 DEF IInv, Sizes
<1>6. Beginnings'
  <2>1. Empty.right /\ Empty.len <= Size
    BY SizeAssumption DEF Empty
  <2>2. \A x \in Worker : pc'[x] = "fetch" => pc[x] = "fetch" /\ part'[x] = part[x]
    BY <1>1, <1>2
  <2>3. pos' = pos /\ ignored' = ignored
    OBVIOUS
  <2> HIDE DEF Content
  <2> QED
    BY <1>2, <2>1, <2>2, <2>3 DEF IInv, Beginnings
<1> QED
  BY <1>4, <1>5, <1>6 DEF IInv

LEMMA UploadKeeps == ASSUME IInv, NEW w \in Worker, Upload(w) PROVE IInv'
<1>1. part[w].len = Size
  BY DEF Upload, At, IInv, Sizes
<1>2. faults' \in 0 .. MaxFaults
  BY DEF Upload, IInv, TypeOK
<1> QED
  BY <1>1, <1>2, Storing DEF Upload

LEMMA RaisesKeeps == ASSUME IInv, NEW w \in Worker, Raises(w) PROVE IInv'
<1>1. target' = target \/ (target' = part[w] /\ part[w].len = Size)
  BY DEF Raises, At, IInv, Sizes
<1>2. part' = part \/ part' = [part EXCEPT ![w] = Empty]
  BY DEF Raises, IInv, TypeOK
<1>3. faults' \in 0 .. MaxFaults
  BY Counted DEF Raises, IInv
<1> QED
  BY <1>1, <1>2, <1>3, Storing DEF Raises

LEMMA HeadObjectKeeps == ASSUME IInv, NEW w \in Worker, HeadObject(w) PROVE IInv'
<1>1. /\ pc' \in [Worker -> PC]
      /\ \A x \in Worker \ {w} : pc'[x] = pc[x]
      /\ pc'[w] = (IF target.len = Size THEN "report" ELSE "failed")
  BY DEF HeadObject, Go, IInv, TypeOK, PC
<1> QED
  BY <1>1, Bookkeeping DEF HeadObject, job, IInv, TypeOK, Sizes

LEMMA CompleteKeeps == ASSUME IInv, NEW w \in Worker, Complete(w) PROVE IInv'
<1>1. target.len = Size
  BY DEF Complete, At, IInv, Sizes
<1>2. /\ pc' \in [Worker -> PC]
      /\ \A x \in Worker : pc'[x] \in {pc[x], "unlink", "failed"}
  BY DEF Complete, Go, IInv, TypeOK, PC
<1>3. holder' \in Worker \cup {None} /\ recorded' \in BOOLEAN
  BY DEF Complete, Accept, IInv, TypeOK
<1>4. faults' \in 0 .. MaxFaults
  BY Counted DEF Complete, IInv, TypeOK
<1> QED
  BY <1>1, <1>2, <1>3, <1>4, Bookkeeping DEF Complete, IInv, Sizes

LEMMA UnlinkKeeps == ASSUME IInv, NEW w \in Worker, Unlink(w) PROVE IInv'
<1>1. /\ pc' \in [Worker -> PC]
      /\ \A x \in Worker \ {w} : pc'[x] = pc[x]
      /\ pc'[w] = "idle"
  BY DEF Unlink, Go, IInv, TypeOK, PC
<1>2. /\ part' \in [Worker -> Content]
      /\ \A x \in Worker \ {w} : part'[x] = part[x]
      /\ part'[w] = Empty
  BY DEF Unlink, IInv, TypeOK, Content, Empty
<1>3. TypeOK'
  BY <1>1, <1>2 DEF Unlink, job, IInv, TypeOK
<1> QED
  BY <1>1, <1>2, <1>3, SizeAssumption DEF Unlink, job, IInv, Sizes, Beginnings, Empty

LEMMA RestKeeps ==
    ASSUME IInv, Lapse \/ (\E w \in Worker : ReportFailure(w) \/ Crash(w))
    PROVE  IInv'
<1>1. /\ pc' \in [Worker -> PC]
      /\ \A x \in Worker : pc'[x] \in {pc[x], "idle"}
  BY DEF Lapse, ReportFailure, Crash, Go, IInv, TypeOK, PC
<1>2. faults' \in 0 .. MaxFaults
  BY Counted DEF Lapse, ReportFailure, Crash, IInv, TypeOK
<1>3. holder' \in Worker \cup {None} /\ recorded' = recorded
  BY DEF Lapse, ReportFailure, Crash, job, IInv, TypeOK
<1> QED
  BY <1>1, <1>2, <1>3, Bookkeeping DEF Lapse, ReportFailure, Crash, job, IInv, TypeOK, Sizes

LEMMA Invariance == IInv /\ [Next]_vars => IInv'
<1> SUFFICES ASSUME IInv, [Next]_vars PROVE IInv'
  OBVIOUS
<1>1. CASE UNCHANGED vars
  BY <1>1 DEF vars, IInv, TypeOK, Sizes, Beginnings
<1>2. CASE Next
  BY <1>2, TakeKeeps, OpenKeeps, AlreadyThereKeeps, WriteKeeps, EndOfBodyKeeps, UploadKeeps,
     RaisesKeeps, HeadObjectKeeps, CompleteKeeps, UnlinkKeeps, RestKeeps DEF Next, Step
<1> QED
  BY <1>1, <1>2

\* Every variable keeps its type.
THEOREM Typed == Spec => []TypeOK
<1>1. IInv => TypeOK
  BY DEF IInv
<1> QED
  BY Initial, Invariance, <1>1, PTL DEF Spec

\* The object of a completed job keeps the size of its source.
THEOREM SizeKept == Spec => []TargetComplete
<1>1. IInv => TargetComplete
  BY DEF IInv, Sizes, TargetComplete
<1> QED
  BY Initial, Invariance, <1>1, PTL DEF Spec

\* Where servers honour Range it has the bytes of its source.
THEOREM TargetIsSource == Spec => []TargetWhole
<1>1. IInv => TargetWhole
  <2> SUFFICES ASSUME IInv, recorded, ~ignored PROVE target = Whole
    BY DEF TargetWhole
  <2>1. target \in Content /\ target.len = Size /\ target.right = TRUE
    BY DEF IInv, TypeOK, Content, Sizes, Beginnings
  <2> QED
    BY <2>1 DEF Content, Whole
<1> QED
  BY Initial, Invariance, <1>1, PTL DEF Spec

=============================================================================
