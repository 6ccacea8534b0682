-------------------------- MODULE RunStoreAlone_proofs --------------------------
(***************************************************************************)
(* What a handler may rely on while no other one works: the startup, which *)
(* runs before the first request is served, for every number of threads;   *)
(* and every handler of a service that takes one request at a time.        *)
(***************************************************************************)
EXTENDS RunStoreClosed_proofs

-----------------------------------------------------------------------------
(* Stacks that tend to the stores.                                         *)

Clearing(t) == t.op = "clear" \/ (t.op = "clear_terminal" /\ t.st.status \in Terminal)
Closing(t, r) == t.op = "save" /\ t.run = r /\ t.st.status # "waiting_hitl"

(* A checkpoint is cleared once its run waits no more: it does not, or its *)
(* closing save comes first.                                               *)
Ordered(s, waits) ==
  \A i \in 1 .. Len(s) : Clearing(s[i]) /\ s[i].run \in waits =>
    \E j \in 1 .. i - 1 : Closing(s[j], s[i].run)

(* The runs the housekeeping has failed, or may yet fail.                  *)
Sinking == {r \in Runs : row[r].status \in {"waiting_hitl", "failed"}}

Plain == {t \in Tasks : t.op \in {"scan", "clear", "clear_terminal"}}

TidyTasks(sinking) ==
  Plain \cup {t \in Tasks : t.op \in {"startup", "audit_rows"}}
        \cup {t \in Tasks : /\ t.op \in {"save", "expire", "give_up"} /\ t.run \in sinking
                            /\ t.op = "save" => t.st.status = "failed"}

(* An audit between its two databases: the rows are still what it read.    *)
Audits(ex, waits) ==
  {t \in Tasks : t.op = "audit_checkpoints" /\ t.seen = ex /\ t.waiting = waits}

Tended(s) ==
  /\ Piled(s, TidyTasks(Sinking), Audits(Existing, Waiting))
  /\ Ordered(s, Waiting)

-----------------------------------------------------------------------------
(* The startup.                                                            *)

(* An audit will come, or is at work, or has left what remains to do.      *)
Mended(s) ==
  /\ \A r \in WithCheckpoint \ Existing : \E t \in ToSet(s) : t.op = "clear" /\ t.run = r
  /\ \A r \in Waiting \ WithCheckpoint : \E t \in ToSet(s) : t.op \in {"give_up", "save"} /\ t.run = r

Mending(s) ==
  \/ \E t \in ToSet(s) : t.op \in {"startup", "audit_rows", "audit_checkpoints"}
  \/ Mended(s)

StartupInv ==
  todo["startup"] # <<>> =>
    /\ \A h \in Threads : todo[h] = <<>>
    /\ Tended(todo["startup"]) /\ Mending(todo["startup"])

-----------------------------------------------------------------------------
(* One request at a time.                                                  *)

OneThread == \A g, h \in Threads : g = h

Open(rows, r) == rows[r].status \in {"none", "waiting_hitl"}

(* What the handler that takes a run along knows of it.                    *)
Leads(op, r, st, rows, cps, boxes) ==
  /\ op # "save" => Open(rows, r)
  /\ op = "begin" => boxes[r] = "none"
  /\ op = "decided" => AtChief(cps, r)
  /\ op \in Writing \cup {"filed"} => cps[r].at = "run"
  /\ op \in Writing => st.status = "running"
  /\ op = "write" => boxes[r] = "none"
  /\ op = "close" => boxes[r] = "cut"
  /\ op = "filed" => st.status \in {"succeeded", "failed"}
  /\ op = "snapshot" => cps[r].at \in {"human", "end"}
  /\ op = "save" => \/ Open(rows, r) /\ st.status \in {"succeeded", "failed", "rejected"}
                    \/ rows[r].status = "none" /\ st.status = "waiting_hitl" /\ AtChief(cps, r)
                    \/ rows[r].status # "none" /\ st.status = "cancelled"
  /\ op = "save" /\ st.status = "rejected" => boxes[r] = "none"

Lead ==
  {t \in Tasks : /\ t.op \in Acting /\ t.run \in Runs
                 /\ Leads(t.op, t.run, t.st, row, checkpoint, outbox)}

Led(s) ==
  /\ s # <<>> /\ Head(s) \in Lead
  /\ Head(s).op \in GraphOps => Tail(s) = <<>>
  /\ Tail(s) \in Seq(Plain)
  /\ Head(s).op = "save" /\ Head(s).st.status = "waiting_hitl" => \A t \in ToSet(Tail(s)) : ~Clearing(t)
  /\ Ordered(s, Waiting)

(* Who says that a run is filed has seen its whole file.                   *)
SeenWhole(t, boxes) == t.st.filed \/ t.base.filed => t.run \in Runs /\ boxes[t.run] = "whole"
WholeTasks(boxes) == {t \in Tasks : SeenWhole(t, boxes)}

(* What the stores say of a run fits together.                             *)
Fits(r) ==
  /\ row[r].status # "running"
  /\ row[r].status = "waiting_hitl" => checkpoint[r].at # "none"
  /\ row[r].status = "rejected" => outbox[r] = "none"
  /\ AtChief(checkpoint, r) => outbox[r] = "none"
  /\ checkpoint[r].at = "run" => checkpoint[r].st.status = "running"
  /\ checkpoint[r].at = "end" => checkpoint[r].st.status \in {"succeeded", "failed", "rejected"}
  /\ checkpoint[r].at = "end" /\ checkpoint[r].st.status = "rejected" => outbox[r] = "none"
  /\ checkpoint[r].st.filed \/ row[r].filed => outbox[r] = "whole"
  /\ r \notin used => outbox[r] = "none"

AloneInv ==
  /\ \A g, h \in Handlers : todo[g] # <<>> /\ todo[h] # <<>> => g = h
  /\ \A h \in Handlers : todo[h] # <<>> =>
       /\ Tended(todo[h]) \/ Led(todo[h])
       /\ todo[h] \in Seq(WholeTasks(outbox))
  /\ \A r \in Runs : Fits(r)

-----------------------------------------------------------------------------
(* What lies on a stack.                                                   *)

(* The tasks of two stacks, one on the other, are those of both.           *)
LEMMA OnStack ==
  ASSUME NEW S, NEW s \in Seq(S)
  PROVE  /\ ToSet(s) \subseteq S /\ ToSet(<<>>) = {}
         /\ \A t \in Seq(S) : ToSet(s \o t) = ToSet(s) \cup ToSet(t)
         /\ s # <<>> => ToSet(s) = {Head(s)} \cup ToSet(Tail(s))
<1>1. ToSet(s) \subseteq S /\ ToSet(<<>>) = {}
  BY LenProperties DEF ToSet
<1>2. ASSUME NEW t \in Seq(S)
      PROVE  ToSet(s \o t) = ToSet(s) \cup ToSet(t)
  <2>1. /\ Len(s) \in Nat /\ Len(t) \in Nat /\ DOMAIN s = 1 .. Len(s) /\ DOMAIN t = 1 .. Len(t)
        /\ s \o t \in Seq(S) /\ Len(s \o t) = Len(s) + Len(t)
        /\ \A i \in 1 .. Len(s) + Len(t) : (s \o t)[i] = IF i <= Len(s) THEN s[i] ELSE t[i - Len(s)]
    BY ConcatProperties, LenProperties
  <2>2. DOMAIN (s \o t) = 1 .. Len(s) + Len(t)
    BY <2>1, LenProperties
  <2>3. \A i \in 1 .. Len(s) + Len(t) : (s \o t)[i] \in ToSet(s) \cup ToSet(t)
    BY <2>1 DEF ToSet
  <2>4. \A i \in 1 .. Len(s) : s[i] \in ToSet(s \o t)
    <3>1. \A i \in 1 .. Len(s) : i \in 1 .. Len(s) + Len(t) /\ (s \o t)[i] = s[i]
      BY <2>1
    <3> QED BY <2>2, <3>1 DEF ToSet
  <2>5. \A i \in 1 .. Len(t) : t[i] \in ToSet(s \o t)
    <3>1. \A i \in 1 .. Len(t) : /\ i + Len(s) \in 1 .. Len(s) + Len(t)
                                 /\ (s \o t)[i + Len(s)] = t[i]
      BY <2>1
    <3> QED BY <2>2, <3>1 DEF ToSet
  <2>6. ToSet(s \o t) \subseteq ToSet(s) \cup ToSet(t)
    BY <2>2, <2>3 DEF ToSet
  <2>7. ToSet(s) \subseteq ToSet(s \o t) /\ ToSet(t) \subseteq ToSet(s \o t)
    BY <2>1, <2>4, <2>5 DEF ToSet
  <2> QED BY <2>6, <2>7
<1>3. ASSUME s # <<>>
      PROVE  ToSet(s) = {Head(s)} \cup ToSet(Tail(s))
  <2>1. /\ Len(s) \in Nat \ {0} /\ DOMAIN s = 1 .. Len(s) /\ Head(s) = s[1]
        /\ Tail(s) \in Seq(S) /\ Len(Tail(s)) = Len(s) - 1
        /\ \A i \in 1 .. Len(s) - 1 : Tail(s)[i] = s[i + 1]
    BY <1>3, EmptySeq, LenProperties, HeadTailProperties
  <2>2. DOMAIN Tail(s) = 1 .. Len(s) - 1
    BY <2>1, LenProperties
  <2>3. \A i \in 1 .. Len(s) : i = 1 \/ (i - 1 \in 1 .. Len(s) - 1 /\ s[i] = Tail(s)[i - 1])
    BY <2>1
  <2>4. ToSet(s) \subseteq {Head(s)} \cup ToSet(Tail(s))
    <3>1. \A i \in 1 .. Len(s) - 1 : Tail(s)[i] \in ToSet(Tail(s))
      BY <2>2 DEF ToSet
    <3>2. \A i \in 1 .. Len(s) : s[i] \in {Head(s)} \cup ToSet(Tail(s))
      BY <2>1, <2>3, <3>1
    <3> QED BY <2>1, <3>2 DEF ToSet
  <2>5. \A i \in 1 .. Len(s) - 1 : i + 1 \in 1 .. Len(s) /\ Tail(s)[i] = s[i + 1]
    BY <2>1
  <2>6. ToSet(Tail(s)) \subseteq ToSet(s) /\ Head(s) \in ToSet(s)
    BY <2>1, <2>2, <2>5 DEF ToSet
  <2> QED BY <2>4, <2>6
<1> QED BY <1>1, <1>2, <1>3

(* A stack of certain tasks.                                               *)
LEMMA StackOf ==
  ASSUME NEW S, NEW T, NEW s \in Seq(S), ToSet(s) \subseteq T
  PROVE  s \in Seq(T)
<1>1. /\ Len(s) \in Nat /\ s \in [1 .. Len(s) -> S] /\ \A i \in 1 .. Len(s) : s[i] \in T
  BY LenProperties DEF ToSet
<1> QED BY <1>1, AsSequence

(* One task for each of some runs, and for each of these runs.             *)
LEMMA EachIsThere ==
  ASSUME NEW op, NEW R \in SUBSET Runs
  PROVE  /\ \A t \in ToSet(Each(R, op)) : \E r \in R : t = Task(op, r, Fresh)
         /\ \A r \in R : Task(op, r, Fresh) \in ToSet(Each(R, op))
<1> DEFINE n == Cardinality(R)
           rs == SetToSeq(R)
<1>1. IsFiniteSet(R)
  BY FS_Subset, StoreAssumption
<1>2. n \in Nat /\ ExistsBijection(1 .. n, R)
  BY <1>1, FS_CardinalityType
<1>3. \E f \in [1 .. n -> R] : IsInjective(f)
  BY <1>2 DEF ExistsBijection, Bijection, Injection
<1>4. rs \in [1 .. n -> R] /\ IsInjective(rs)
  BY <1>3 DEF SetToSeq
<1>5. IsFiniteSet(1 .. n) /\ Cardinality(1 .. n) = n
  BY <1>2, FS_Interval
<1>6. rs \in Surjection(1 .. n, R)
  <2>1. rs \in Injection(1 .. n, R)
    BY <1>4 DEF Injection
  <2> QED BY <1>1, <1>5, <2>1, FS_Injection
<1>7. \A r \in R : \E i \in 1 .. n : rs[i] = r
  BY <1>6 DEF Surjection
<1> HIDE DEF n, rs
<1>8. rs \in Seq(R) /\ Len(rs) = n
  BY <1>2, <1>4, AsSequence
<1>9. Each(R, op) = [i \in 1 .. n |-> Task(op, rs[i], Fresh)]
  BY <1>8 DEF Each, rs
<1> QED BY <1>4, <1>7, <1>9 DEF ToSet

(* Closing saves come first in a stack if they do in both of its parts,    *)
(* or the upper part has them.                                             *)
LEMMA OrderedPile ==
  ASSUME NEW S, NEW s \in Seq(S), NEW t \in Seq(S), NEW waits, Ordered(s, waits),
         \A i \in 1 .. Len(t) : Clearing(t[i]) /\ t[i].run \in waits =>
           \/ \E j \in 1 .. i - 1 : Closing(t[j], t[i].run)
           \/ \E j \in 1 .. Len(s) : Closing(s[j], t[i].run)
  PROVE  Ordered(s \o t, waits)
<1>1. /\ Len(s) \in Nat /\ Len(t) \in Nat /\ Len(s \o t) = Len(s) + Len(t)
      /\ \A i \in 1 .. Len(s) + Len(t) : (s \o t)[i] = IF i <= Len(s) THEN s[i] ELSE t[i - Len(s)]
  BY ConcatProperties, LenProperties
<1> SUFFICES ASSUME NEW i \in 1 .. Len(s) + Len(t),
                    Clearing((s \o t)[i]), (s \o t)[i].run \in waits
             PROVE  \E j \in 1 .. i - 1 : Closing((s \o t)[j], (s \o t)[i].run)
  BY <1>1 DEF Ordered
<1> DEFINE r == (s \o t)[i].run
<1>2. CASE i <= Len(s)
  <2>1. i \in 1 .. Len(s) /\ (s \o t)[i] = s[i]
    BY <1>1, <1>2
  <2>2. PICK j \in 1 .. i - 1 : Closing(s[j], r)
    BY <2>1 DEF Ordered
  <2>3. j \in 1 .. Len(s) + Len(t) /\ j <= Len(s)
    BY <1>1, <1>2
  <2> QED BY <1>1, <2>2, <2>3
<1>3. CASE ~(i <= Len(s))
  <2>1. i - Len(s) \in 1 .. Len(t) /\ (s \o t)[i] = t[i - Len(s)]
    BY <1>1, <1>3
  <2>2. CASE \E j \in 1 .. i - Len(s) - 1 : Closing(t[j], r)
    <3>1. PICK j \in 1 .. i - Len(s) - 1 : Closing(t[j], r)
      BY <2>2
    <3>2. j + Len(s) \in 1 .. i - 1 /\ (s \o t)[j + Len(s)] = t[j]
      BY <1>1, <1>3
    <3> QED BY <3>1, <3>2
  <2>3. CASE \E j \in 1 .. Len(s) : Closing(s[j], r)
    <3>1. PICK j \in 1 .. Len(s) : Closing(s[j], r)
      BY <2>3
    <3>2. j \in 1 .. i - 1 /\ (s \o t)[j] = s[j]
      BY <1>1, <1>3
    <3> QED BY <3>1, <3>2
  <2> QED BY <2>1, <2>2, <2>3
<1> QED BY <1>2, <1>3

(* Two orderly stacks make one.                                            *)
LEMMA OrderedTwice ==
  ASSUME NEW S, NEW s \in Seq(S), NEW t \in Seq(S), NEW waits, Ordered(s, waits), Ordered(t, waits)
  PROVE  Ordered(s \o t, waits)
<1>1. \A i \in 1 .. Len(t) : Clearing(t[i]) /\ t[i].run \in waits =>
        \E j \in 1 .. i - 1 : Closing(t[j], t[i].run)
  BY DEF Ordered
<1> QED BY <1>1, OrderedPile

(* Nothing is cleared too early where nothing is cleared, or no wait is.   *)
LEMMA OrderedHarmless ==
  ASSUME NEW S, NEW s \in Seq(S), NEW waits,
         \A t \in ToSet(s) : Clearing(t) => t.run \notin waits
  PROVE  Ordered(s, waits)
<1>1. \A i \in 1 .. Len(s) : s[i] \in ToSet(s)
  BY LenProperties DEF ToSet
<1> QED BY <1>1 DEF Ordered

(* When its top is done a stack stays orderly: a save at the top has       *)
(* closed its run, anything else was no closing save.                      *)
LEMMA OrderedRest ==
  ASSUME NEW S, NEW s \in Seq(S), s # <<>>, NEW waits, Ordered(s, waits), NEW later,
         \A t \in ToSet(Tail(s)) : Clearing(t) => t.run \notin later \ waits,
         \A r \in later : ~Closing(Head(s), r)
  PROVE  Ordered(Tail(s), later)
<1>1. /\ Len(s) \in Nat \ {0} /\ Head(s) = s[1]
      /\ Tail(s) \in Seq(S) /\ Len(Tail(s)) = Len(s) - 1
      /\ \A i \in 1 .. Len(s) - 1 : Tail(s)[i] = s[i + 1]
  BY EmptySeq, HeadTailProperties
<1>2. \A i \in 1 .. Len(Tail(s)) : Tail(s)[i] \in ToSet(Tail(s))
  BY <1>1, LenProperties DEF ToSet
<1> SUFFICES ASSUME NEW i \in 1 .. Len(Tail(s)), Clearing(Tail(s)[i]), Tail(s)[i].run \in later
             PROVE  \E j \in 1 .. i - 1 : Closing(Tail(s)[j], Tail(s)[i].run)
  BY DEF Ordered
<1> DEFINE r == Tail(s)[i].run
<1>3. r \in waits
  BY <1>2
<1>4. i + 1 \in 1 .. Len(s) /\ s[i + 1] = Tail(s)[i]
  BY <1>1
<1>5. PICK j \in 1 .. i : Closing(s[j], r)
  <2>1. \E j \in 1 .. (i + 1) - 1 : Closing(s[j], s[i + 1].run)
    BY <1>3, <1>4 DEF Ordered
  <2> QED BY <1>1, <1>4, <2>1
<1>6. j # 1
  BY <1>1, <1>5
<1>7. j - 1 \in 1 .. i - 1 /\ Tail(s)[j - 1] = s[j]
  BY <1>1, <1>6
<1> QED BY <1>5, <1>7

(* What is next to be cleared waits no more.                               *)
LEMMA OrderedTop ==
  ASSUME NEW S, NEW s \in Seq(S), s # <<>>, NEW waits, Ordered(s, waits), Clearing(Head(s))
  PROVE  Head(s).run \notin waits
<1>1. Len(s) \in Nat \ {0} /\ Head(s) = s[1]
  BY EmptySeq
<1> QED BY <1>1 DEF Ordered

-----------------------------------------------------------------------------
(* The housekeeping at work.                                               *)

(* What it has to do.                                                      *)
LEMMA TidyFacts ==
  ASSUME NEW sinking, NEW r \in Runs, NEW st \in States
  PROVE  /\ StoreTask("scan") \in Plain
         /\ Task("clear", r, st) \in Plain /\ Task("clear_terminal", r, st) \in Plain
         /\ Plain \subseteq TidyTasks(sinking) /\ TidyTasks(sinking) \subseteq Tasks
         /\ r \in sinking => /\ Task("expire", r, Fresh) \in TidyTasks(sinking)
                             /\ Task("give_up", r, Fresh) \in TidyTasks(sinking)
         /\ r \in sinking /\ st.status = "failed" => Task("save", r, st) \in TidyTasks(sinking)
<1>1. \A op \in Ops, x \in Runs \cup {"all"}, u \in States :
        /\ Task(op, x, u) \in Tasks /\ Task(op, x, u).op = op /\ Task(op, x, u).run = x
        /\ Task(op, x, u).st = u
  BY DEF Task, Tasks
<1>2. {"scan", "audit_rows", "startup", "clear", "clear_terminal", "expire", "give_up", "save"} \subseteq Ops
  BY DEF Ops
<1>3. /\ StoreTask("scan") \in Plain
      /\ Task("clear", r, st) \in Plain /\ Task("clear_terminal", r, st) \in Plain
  BY <1>1, <1>2, FreshFacts DEF Plain, StoreTask
<1>4. r \in sinking => Task("expire", r, Fresh) \in TidyTasks(sinking)
                       /\ Task("give_up", r, Fresh) \in TidyTasks(sinking)
  BY <1>1, <1>2, FreshFacts DEF TidyTasks
<1>5. r \in sinking /\ st.status = "failed" => Task("save", r, st) \in TidyTasks(sinking)
  BY <1>1, <1>2 DEF TidyTasks
<1>6. Plain \subseteq TidyTasks(sinking) /\ TidyTasks(sinking) \subseteq Tasks
  BY DEF TidyTasks, Plain
<1> QED BY <1>3, <1>4, <1>5, <1>6

(* Audits and startups are tidy.                                           *)
LEMMA RepairIsTidy ==
  ASSUME NEW sinking, NEW waits
  PROVE  /\ Repair \in Seq(TidyTasks(sinking)) /\ Ordered(Repair, waits)
         /\ <<>> \in Seq(TidyTasks(sinking)) /\ Ordered(<<>>, waits)
         /\ \E t \in ToSet(Repair) : t.op = "audit_rows"
<1> DEFINE scan == StoreTask("scan")
           audit == StoreTask("audit_rows")
<1>1. \A op \in {"scan", "audit_rows"} : StoreTask(op) \in Tasks /\ StoreTask(op).op = op
  BY FreshFacts DEF StoreTask, Task, Tasks, Ops
<1>2. /\ scan \in TidyTasks(sinking) /\ audit \in TidyTasks(sinking)
      /\ ~Clearing(scan) /\ ~Clearing(audit) /\ audit.op = "audit_rows"
  BY <1>1 DEF TidyTasks, Plain, Clearing
<1>3. Repair = <<scan, audit>>
  BY DEF Repair
<1> HIDE DEF scan, audit
<1>4. Repair \in Seq(TidyTasks(sinking)) /\ <<>> \in Seq(TidyTasks(sinking))
  BY <1>2, <1>3, EmptySeq
<1>5. ToSet(Repair) = {scan, audit} /\ ToSet(<<>>) = {}
  BY <1>3 DEF ToSet
<1> QED BY <1>2, <1>4, <1>5, OrderedHarmless

(* A save and what follows it.                                             *)
LEMMA SnapshotFacts ==
  ASSUME NEW r \in Runs, NEW st \in States, NEW waits
  PROVE  /\ Snapshot(r, st) \in Seq(Tasks) /\ Ordered(Snapshot(r, st), waits)
         /\ ToSet(Snapshot(r, st)) = {Task("save", r, st), StoreTask("scan")}
         /\ Snapshot(r, st) # <<>> /\ Head(Snapshot(r, st)) = Task("save", r, st)
         /\ Tail(Snapshot(r, st)) \in Seq(Plain)
         /\ \A t \in ToSet(Tail(Snapshot(r, st))) : ~Clearing(t)
<1> DEFINE save == Task("save", r, st)
           scan == StoreTask("scan")
<1>1. save \in Tasks /\ save.op = "save" /\ scan \in Plain /\ scan \in Tasks /\ scan.op = "scan"
  BY FreshFacts DEF StoreTask, Task, Tasks, Ops, Plain
<1>2. ~Clearing(save) /\ ~Clearing(scan)
  BY <1>1 DEF Clearing
<1>3. Snapshot(r, st) = <<save, scan>>
  BY DEF Snapshot
<1> HIDE DEF save, scan
<1>4. /\ Snapshot(r, st) \in Seq(Tasks) /\ ToSet(Snapshot(r, st)) = {save, scan}
      /\ Snapshot(r, st) # <<>> /\ Head(Snapshot(r, st)) = save
      /\ Tail(Snapshot(r, st)) = <<scan>>
  BY <1>1, <1>3 DEF ToSet
<1>5. <<scan>> \in Seq(Plain) /\ ToSet(<<scan>>) = {scan}
  BY <1>1 DEF ToSet
<1>6. Ordered(Snapshot(r, st), waits)
  BY <1>2, <1>4, OrderedHarmless
<1> QED BY <1>2, <1>4, <1>5, <1>6 DEF save, scan

(* With the clearing of the checkpoint after it.                           *)
LEMMA SnapshotThenClear ==
  ASSUME NEW r \in Runs, NEW st \in States, NEW waits, NEW clear \in Plain, clear.run = r,
         Clearing(clear) => st.status # "waiting_hitl"
  PROVE  /\ Snapshot(r, st) \o <<clear>> \in Seq(Tasks)
         /\ Ordered(Snapshot(r, st) \o <<clear>>, waits)
         /\ ToSet(Snapshot(r, st) \o <<clear>>) = {Task("save", r, st), StoreTask("scan"), clear}
         /\ Snapshot(r, st) \o <<clear>> # <<>>
         /\ Head(Snapshot(r, st) \o <<clear>>) = Task("save", r, st)
         /\ Tail(Snapshot(r, st) \o <<clear>>) \in Seq(Plain)
         /\ st.status = "waiting_hitl" =>
              \A t \in ToSet(Tail(Snapshot(r, st) \o <<clear>>)) : ~Clearing(t)
<1> DEFINE s == Snapshot(r, st)
           t == <<clear>>
           save == Task("save", r, st)
<1>1. /\ s \in Seq(Tasks) /\ Ordered(s, waits) /\ ToSet(s) = {save, StoreTask("scan")}
      /\ s # <<>> /\ Head(s) = save /\ Tail(s) \in Seq(Plain)
      /\ \A x \in ToSet(Tail(s)) : ~Clearing(x)
  BY SnapshotFacts
<1>2. save.op = "save" /\ save.run = r /\ save.st = st
  BY DEF Task
<1>3. t \in Seq(Tasks) /\ t \in Seq(Plain) /\ ToSet(t) = {clear} /\ Len(t) = 1 /\ t[1] = clear
  BY DEF ToSet, Plain
<1> HIDE DEF s, t, save
<1>4. Len(s) \in Nat \ {0} /\ s[1] = save
  BY <1>1, EmptySeq
<1>5. \A i \in 1 .. Len(t) : Clearing(t[i]) /\ t[i].run \in waits =>
        \E j \in 1 .. Len(s) : Closing(s[j], t[i].run)
  BY <1>2, <1>3, <1>4 DEF Closing
<1>6. s \o t \in Seq(Tasks) /\ Ordered(s \o t, waits) /\ ToSet(s \o t) = ToSet(s) \cup ToSet(t)
  BY <1>1, <1>3, <1>5, OrderedPile, OnStack, ConcatProperties
<1>7. s \o t # <<>> /\ Head(s \o t) = save /\ Tail(s \o t) = Tail(s) \o t
  BY <1>1, <1>3, PiledUp
<1>8. Tail(s) \o t \in Seq(Plain) /\ ToSet(Tail(s) \o t) = ToSet(Tail(s)) \cup ToSet(t)
  <2> DEFINE rest == Tail(s)
  <2>1. rest \in Seq(Plain) /\ t \in Seq(Plain)
    BY <1>1, <1>3
  <2> HIDE DEF rest
  <2>2. rest \o t \in Seq(Plain) /\ ToSet(rest \o t) = ToSet(rest) \cup ToSet(t)
    BY <2>1, ConcatProperties, OnStack
  <2> QED BY <2>2 DEF rest
<1>9. st.status = "waiting_hitl" => \A x \in ToSet(Tail(s \o t)) : ~Clearing(x)
  BY <1>1, <1>3, <1>7, <1>8
<1>10. ToSet(s \o t) = {save, StoreTask("scan"), clear}
  BY <1>1, <1>3, <1>6
<1> QED BY <1>6, <1>7, <1>8, <1>9, <1>10 DEF s, t, save

(* Tidy tasks on a tended stack, whatever is done to the rows meanwhile,   *)
(* as long as no run comes to wait and none that sinks is saved.           *)
LEMMA TendedStep ==
  ASSUME StoreInv, NEW h \in Handlers, todo[h] # <<>>, Tended(todo[h]), NEW tasks, Instead(h, tasks),
         Piled(tasks, TidyTasks(Sinking'), Audits(Existing', Waiting')), Ordered(tasks, Waiting'),
         Sinking \subseteq Sinking', Waiting' \subseteq Waiting,
         \A r \in Waiting' : ~Closing(Top(h), r)
  PROVE  /\ Tended(todo[h])'
         /\ ToSet(todo'[h]) = ToSet(tasks) \cup ToSet(Tail(todo[h]))
         /\ \A g \in Handlers \ {h} : todo'[g] = todo[g]
<1> DEFINE s == todo[h]
           rest == Tail(s)
           S == TidyTasks(Sinking')
           F == Audits(Existing', Waiting')
<1>1. /\ todo'[h] = tasks \o rest
      /\ \A g \in Handlers \ {h} : todo'[g] = todo[g]
  BY DEF Instead, StoreInv
<1>2. TidyTasks(Sinking) \subseteq S
  BY DEF TidyTasks
<1>3. /\ s # <<>> /\ s \in Seq(TidyTasks(Sinking) \cup Audits(Existing, Waiting))
      /\ rest \in Seq(TidyTasks(Sinking)) /\ Ordered(s, Waiting)
  BY DEF Tended, Piled
<1>4. rest \in Seq(S)
  BY <1>2, <1>3, SeqMonotonic
<1>5. tasks \in Seq(S \cup F) /\ rest \in Seq(S \cup F) /\ Piled(tasks, S, F)
  BY <1>4, SeqMonotonic DEF Piled
<1>6. Ordered(rest, Waiting')
  <2>1. \A r \in Waiting' : ~Closing(Head(s), r)
    BY DEF Top
  <2>2. \A t \in ToSet(Tail(s)) : Clearing(t) => t.run \notin Waiting' \ Waiting
    OBVIOUS
  <2> QED BY <1>3, <2>1, <2>2, OrderedRest
<1> HIDE DEF rest, S, F
<1>7. Piled(tasks \o rest, S, F)
  BY <1>4, <1>5, PileOn
<1>8. Ordered(tasks \o rest, Waiting') /\ ToSet(tasks \o rest) = ToSet(tasks) \cup ToSet(rest)
  BY <1>5, <1>6, OrderedTwice, OnStack
<1> QED BY <1>1, <1>7, <1>8 DEF Tended, S, F, rest

(* Where the rows stay as they are.                                        *)
LEMMA LooksOnly ==
  ASSUME StoreInv, NEW h \in Handlers, todo[h] # <<>>, Tended(todo[h]), Top(h).op # "save",
         NEW tasks, Instead(h, tasks), Piled(tasks, TidyTasks(Sinking), Audits(Existing, Waiting)),
         Ordered(tasks, Waiting), row' = row
  PROVE  /\ Tended(todo[h])'
         /\ ToSet(todo'[h]) = ToSet(tasks) \cup ToSet(Tail(todo[h]))
         /\ \A g \in Handlers \ {h} : todo'[g] = todo[g]
<1>1. Sinking' = Sinking /\ Waiting' = Waiting /\ Existing' = Existing
  BY DEF Sinking, Waiting, Existing
<1>2. \A r \in Waiting' : ~Closing(Top(h), r)
  BY DEF Closing
<1> QED BY <1>1, <1>2, TendedStep

AuditOps == {"startup", "audit_rows", "audit_checkpoints"}

(* What a handler's stack says of its top.                                 *)
LEMMA TendedTop ==
  ASSUME StoreInv, NEW h \in Handlers, todo[h] # <<>>
  PROVE  /\ todo[h] \in Seq(Tasks) /\ Top(h) \in Tasks /\ Tail(todo[h]) \in Seq(Tasks)
         /\ ToSet(todo[h]) = {Top(h)} \cup ToSet(Tail(todo[h]))
         /\ Tended(todo[h]) =>
              /\ Top(h) \in TidyTasks(Sinking) \cup Audits(Existing, Waiting)
              /\ Tail(todo[h]) \in Seq(TidyTasks(Sinking))
<1>1. SafeTasks(approved, outbox) \subseteq Tasks
  BY DEF SafeTasks
<1>2. todo[h] \in Seq(Tasks)
  BY <1>1, SeqMonotonic DEF StoreInv
<1>3. Top(h) \in Tasks /\ Tail(todo[h]) \in Seq(Tasks)
  BY <1>2, HeadTailProperties DEF Top
<1>4. ToSet(todo[h]) = {Top(h)} \cup ToSet(Tail(todo[h]))
  BY <1>2, OnStack DEF Top
<1>5. Tended(todo[h]) =>
              /\ Top(h) \in TidyTasks(Sinking) \cup Audits(Existing, Waiting)
              /\ Tail(todo[h]) \in Seq(TidyTasks(Sinking))
  BY HeadTailProperties DEF Tended, Piled, Top
<1> QED BY <1>2, <1>3, <1>4, <1>5

(* What is still to be mended stays on the stack while the stores do not   *)
(* change; a wait that is given up is saved.                               *)
LEMMA MendsOn ==
  ASSUME StoreInv, NEW h \in Handlers, todo[h] # <<>>, UNCHANGED <<row, checkpoint>>,
         Mending(todo[h]), ToSet(Tail(todo[h])) \subseteq ToSet(todo'[h]),
         Top(h).op \notin AuditOps \cup {"clear", "save"},
         Top(h).op = "give_up" =>
           \E t \in ToSet(todo'[h]) : t.op \in {"give_up", "save"} /\ t.run = Run(h)
  PROVE  Mending(todo[h])'
<1>1. ToSet(todo[h]) = {Top(h)} \cup ToSet(Tail(todo[h]))
  BY TendedTop
<1>2. /\ (WithCheckpoint \ Existing)' = WithCheckpoint \ Existing
      /\ (Waiting \ WithCheckpoint)' = Waiting \ WithCheckpoint
  BY DEF WithCheckpoint, Existing, Waiting
<1>3. CASE \E t \in ToSet(todo[h]) : t.op \in AuditOps
  BY <1>1, <1>3 DEF Mending, AuditOps
<1>4. CASE Mended(todo[h])
  <2>1. \A r \in WithCheckpoint \ Existing : \E t \in ToSet(todo'[h]) : t.op = "clear" /\ t.run = r
    BY <1>1, <1>4 DEF Mended
  <2>2. ASSUME NEW r \in Waiting \ WithCheckpoint
        PROVE  \E t \in ToSet(todo'[h]) : t.op \in {"give_up", "save"} /\ t.run = r
    <3>1. PICK t \in ToSet(todo[h]) : t.op \in {"give_up", "save"} /\ t.run = r
      BY <1>4, <2>2 DEF Mended
    <3>2. CASE t = Top(h)
      BY <3>1, <3>2 DEF Run
    <3> QED BY <1>1, <3>1, <3>2
  <2> QED BY <1>2, <2>1, <2>2 DEF Mending, Mended
<1> QED BY <1>3, <1>4 DEF Mending, AuditOps

(* The step of a handler that tends to the stores.                         *)
Tends(h) ==
  /\ Tended(todo[h])'
  /\ Mending(todo[h]) => Mending(todo[h])'
  /\ \A g \in Handlers \ {h} : todo'[g] = todo[g]

(* A look for overdue waits: they sink.                                    *)
LEMMA ScansTends ==
  ASSUME StoreInv, NEW h \in Handlers, Tended(todo[h]), Scans(h)
  PROVE  Tends(h)
<1> DEFINE tasks == Each(Overdue, "expire")
<1>1. todo[h] # <<>> /\ Top(h).op = "scan" /\ UNCHANGED <<row, checkpoint>> /\ Instead(h, tasks)
  BY DEF Scans, Doing, Top, stores
<1>2. Overdue \in SUBSET Runs /\ Overdue \subseteq Sinking
  BY DEF Overdue, Waiting, Sinking
<1>3. \A r \in Overdue : /\ Task("expire", r, Fresh) \in TidyTasks(Sinking)
                         /\ ~Clearing(Task("expire", r, Fresh))
  BY <1>2, FreshFacts, TidyFacts DEF Clearing, Task
<1>4. tasks \in Seq(TidyTasks(Sinking))
  BY <1>2, <1>3, EachIsASequence
<1>5. \A t \in ToSet(tasks) : ~Clearing(t)
  BY <1>2, <1>3, EachIsThere
<1> HIDE DEF tasks
<1>6. Piled(tasks, TidyTasks(Sinking), Audits(Existing, Waiting)) /\ Ordered(tasks, Waiting)
  BY <1>4, <1>5, HeadTailProperties, SeqMonotonic, OrderedHarmless DEF Piled
<1>7. /\ Tended(todo[h])' /\ ToSet(Tail(todo[h])) \subseteq ToSet(todo'[h])
      /\ \A g \in Handlers \ {h} : todo'[g] = todo[g]
  BY <1>1, <1>6, LooksOnly
<1> QED BY <1>1, <1>7, MendsOn DEF Tends, AuditOps

(* What the housekeeping fails.                                            *)
LEMMA FailsTends ==
  ASSUME StoreInv, NEW h \in Handlers, Tended(todo[h]), Expires(h) \/ GivesUp(h)
  PROVE  Tends(h)
<1> DEFINE r == Run(h)
           st == [Loaded(r) EXCEPT !.status = "failed"]
           clear == Task("clear", r, Fresh)
           save == Task("save", r, st)
<1>1. /\ todo[h] # <<>> /\ Top(h).op \in {"expire", "give_up"} /\ UNCHANGED <<row, checkpoint>>
      /\ \/ Instead(h, Snapshot(r, st) \o <<clear>>) /\ Top(h).op = "expire"
         \/ Instead(h, Snapshot(r, st))
  BY DEF Expires, GivesUp, Doing, Top, stores
<1>2. r \in Sinking /\ r \in Runs
  BY <1>1, TendedTop DEF TidyTasks, Plain, Audits, Run, Sinking
<1>3. st \in States /\ st.status = "failed"
  BY <1>2, LoadedFacts DEF Loaded, Terminal
<1>4. /\ clear.run = r /\ clear \in Plain /\ StoreTask("scan") \in TidyTasks(Sinking)
      /\ clear \in TidyTasks(Sinking) /\ save \in TidyTasks(Sinking)
      /\ save.op = "save" /\ save.run = r
  <2>1. clear.run = r /\ save.op = "save" /\ save.run = r
    BY DEF Task
  <2> HIDE DEF st
  <2> QED BY <1>2, <1>3, <2>1, FreshFacts, TidyFacts
<1> HIDE DEF st, clear, r
<1>5. ASSUME NEW tasks, tasks = Snapshot(r, st) \o <<clear>> \/ tasks = Snapshot(r, st),
             Instead(h, tasks)
      PROVE  Tends(h)
  <2>1. /\ tasks \in Seq(Tasks) /\ Ordered(tasks, Waiting)
        /\ ToSet(tasks) \subseteq {save, StoreTask("scan"), clear} /\ save \in ToSet(tasks)
    <3>1. Clearing(clear) => st.status # "waiting_hitl"
      BY <1>3
    <3>2. CASE tasks = Snapshot(r, st)
      BY <1>2, <1>3, <3>2, SnapshotFacts
    <3>3. CASE tasks = Snapshot(r, st) \o <<clear>>
      BY <1>2, <1>3, <1>4, <3>1, <3>3, SnapshotThenClear
    <3> QED BY <1>5, <3>2, <3>3
  <2>2. tasks \in Seq(TidyTasks(Sinking))
    BY <1>4, <2>1, StackOf
  <2>3. Piled(tasks, TidyTasks(Sinking), Audits(Existing, Waiting))
    BY <2>2, HeadTailProperties, SeqMonotonic DEF Piled
  <2>4. /\ Tended(todo[h])' /\ ToSet(todo'[h]) = ToSet(tasks) \cup ToSet(Tail(todo[h]))
        /\ \A g \in Handlers \ {h} : todo'[g] = todo[g]
    BY <1>1, <1>5, <2>1, <2>3, LooksOnly
  <2>5. save \in ToSet(todo'[h]) /\ ToSet(Tail(todo[h])) \subseteq ToSet(todo'[h])
    BY <2>1, <2>4
  <2>6. Mending(todo[h]) => Mending(todo[h])'
    BY <1>1, <1>4, <2>5, MendsOn DEF AuditOps, r
  <2> QED BY <2>4, <2>6 DEF Tends
<1> QED BY <1>1, <1>5

(* A sinking run is saved as failed: it waits no more.                     *)
LEMMA SavesTends ==
  ASSUME StoreInv, ClosedInv, NEW h \in Handlers, Tended(todo[h]), Saves(h)
  PROVE  Tends(h)
<1> DEFINE r == Run(h)
           tasks == <<>>
<1>1. /\ todo[h] # <<>> /\ Top(h).op = "save" /\ Instead(h, tasks) /\ checkpoint' = checkpoint
  BY DEF Saves, Doing, Top
<1>2. r \in Sinking /\ r \in Runs /\ Top(h).st.status = "failed"
  BY <1>1, TendedTop DEF TidyTasks, Plain, Audits, Run, Sinking
<1>3. /\ row'[r].status = "failed" /\ Existing' = Existing \cup {r}
      /\ \A q \in Runs \ {r} : row'[q] = row[q]
  BY <1>2, SavesFacts
<1>4. /\ Sinking' = Sinking /\ Waiting' = Waiting \ {r} /\ r \in Existing
  BY <1>2, <1>3 DEF Sinking, Waiting, Existing
<1>5. \A q \in Waiting' : ~Closing(Top(h), q)
  BY <1>4 DEF Closing, Run
<1>6. tasks \in Seq(TidyTasks(Sinking')) /\ Ordered(tasks, Waiting') /\ ToSet(tasks) = {}
  BY EmptySeq, RepairIsTidy, OnStack
<1>7. Piled(tasks, TidyTasks(Sinking'), Audits(Existing', Waiting'))
  BY EmptySeq DEF Piled
<1> HIDE DEF tasks
<1>8. /\ Tended(todo[h])' /\ ToSet(todo'[h]) = ToSet(Tail(todo[h]))
      /\ \A g \in Handlers \ {h} : todo'[g] = todo[g]
  BY <1>1, <1>4, <1>5, <1>6, <1>7, TendedStep
<1>9. ToSet(todo[h]) = {Top(h)} \cup ToSet(todo'[h])
  BY <1>1, <1>8, TendedTop
<1>10. /\ (WithCheckpoint \ Existing)' \subseteq WithCheckpoint \ Existing
       /\ (Waiting \ WithCheckpoint)' \subseteq (Waiting \ WithCheckpoint) \ {r}
  BY <1>1, <1>3, <1>4 DEF WithCheckpoint
<1>11. Mending(todo[h]) => Mending(todo[h])'
  <2>1. CASE \E t \in ToSet(todo[h]) : t.op \in AuditOps
    BY <1>1, <1>9, <2>1 DEF Mending, AuditOps
  <2>2. CASE Mended(todo[h])
    <3>1. \A q \in (WithCheckpoint \ Existing)' : \E t \in ToSet(todo'[h]) : t.op = "clear" /\ t.run = q
      BY <1>1, <1>9, <1>10, <2>2 DEF Mended
    <3>2. \A q \in (Waiting \ WithCheckpoint)' :
            \E t \in ToSet(todo'[h]) : t.op \in {"give_up", "save"} /\ t.run = q
      BY <1>9, <1>10, <2>2 DEF Mended, Run
    <3> QED BY <3>1, <3>2 DEF Mending, Mended
  <2> QED BY <2>1, <2>2 DEF Mending, AuditOps
<1> QED BY <1>8, <1>11 DEF Tends

(* No wait loses its checkpoint.                                           *)
LEMMA ClearsTends ==
  ASSUME StoreInv, ClosedInv, NEW h \in Handlers, Tended(todo[h]), Clears(h)
  PROVE  Tends(h)
<1> DEFINE r == Run(h)
           tasks == <<>>
<1>1. /\ todo[h] # <<>> /\ Top(h).op \in {"clear", "clear_terminal"} /\ Instead(h, tasks) /\ row' = row
      /\ checkpoint' = IF Clearing(Top(h)) THEN [checkpoint EXCEPT ![r] = NoCheckpoint] ELSE checkpoint
  BY DEF Clears, Doing, Top, Clearing
<1>2. Clearing(Top(h)) => r \notin Waiting
  BY <1>1, TendedTop, OrderedTop DEF Tended, Top, Run
<1>3. Existing' = Existing /\ Waiting' = Waiting
  BY <1>1 DEF Existing, Waiting
<1>4. WithCheckpoint' = IF Clearing(Top(h)) THEN WithCheckpoint \ {r} ELSE WithCheckpoint
  BY <1>1 DEF WithCheckpoint, StoreInv, NoCheckpoint
<1>5. tasks \in Seq(TidyTasks(Sinking)) /\ Ordered(tasks, Waiting) /\ ToSet(tasks) = {}
      /\ Piled(tasks, TidyTasks(Sinking), Audits(Existing, Waiting))
  BY EmptySeq, RepairIsTidy, OnStack DEF Piled
<1> HIDE DEF tasks
<1>6. /\ Tended(todo[h])' /\ ToSet(todo'[h]) = ToSet(Tail(todo[h]))
      /\ \A g \in Handlers \ {h} : todo'[g] = todo[g]
  BY <1>1, <1>5, LooksOnly
<1>7. ToSet(todo[h]) = {Top(h)} \cup ToSet(todo'[h])
  BY <1>1, <1>6, TendedTop
<1>8. Mending(todo[h]) => Mending(todo[h])'
  <2>1. CASE \E t \in ToSet(todo[h]) : t.op \in AuditOps
    BY <1>1, <1>7, <2>1 DEF Mending, AuditOps
  <2>2. CASE Mended(todo[h])
    <3>1. ASSUME NEW q \in (WithCheckpoint \ Existing)'
          PROVE  \E t \in ToSet(todo'[h]) : t.op = "clear" /\ t.run = q
      <4>1. PICK t \in ToSet(todo[h]) : t.op = "clear" /\ t.run = q
        BY <1>3, <1>4, <2>2 DEF Mended
      <4>2. t # Top(h)
        BY <1>3, <1>4, <4>1 DEF Clearing, Run
      <4> QED BY <1>7, <4>1, <4>2
    <3>2. \A q \in (Waiting \ WithCheckpoint)' :
            \E t \in ToSet(todo'[h]) : t.op \in {"give_up", "save"} /\ t.run = q
      BY <1>1, <1>2, <1>3, <1>4, <1>7, <2>2 DEF Mended
    <3> QED BY <3>1, <3>2 DEF Mending, Mended
  <2> QED BY <2>1, <2>2 DEF Mending, AuditOps
<1> QED BY <1>6, <1>8 DEF Tends

(* The audit goes on to the checkpoints with what it read of the rows.     *)
LEMMA AuditsRowsTends ==
  ASSUME StoreInv, NEW h \in Handlers, Tended(todo[h]), AuditsRows(h)
  PROVE  Tends(h)
<1> DEFINE t == [Top(h) EXCEPT !.op = "audit_checkpoints", !.seen = Existing, !.waiting = Waiting]
           tasks == <<t>>
<1>1. todo[h] # <<>> /\ Top(h).op = "audit_rows" /\ row' = row /\ Instead(h, tasks)
  BY DEF AuditsRows, Doing, Top, stores
<1>2. Existing \in SUBSET Runs /\ Waiting \in SUBSET Runs /\ Top(h) \in Tasks
  BY <1>1, TendedTop DEF Existing, Waiting
<1>3. t \in Tasks /\ t.op = "audit_checkpoints" /\ t.seen = Existing /\ t.waiting = Waiting
  BY <1>2 DEF Tasks, Ops
<1> HIDE DEF t
<1>4. t \in Audits(Existing, Waiting) /\ ~Clearing(t)
  BY <1>3 DEF Audits, Clearing
<1>5. Piled(tasks, TidyTasks(Sinking), Audits(Existing, Waiting)) /\ ToSet(tasks) = {t}
      /\ tasks \in Seq(Tasks)
  BY <1>3, <1>4, ShortPiles DEF ToSet
<1> HIDE DEF tasks
<1>6. Ordered(tasks, Waiting)
  BY <1>4, <1>5, OrderedHarmless
<1>7. /\ Tended(todo[h])' /\ t \in ToSet(todo'[h])
      /\ \A g \in Handlers \ {h} : todo'[g] = todo[g]
  BY <1>1, <1>5, <1>6, LooksOnly
<1> QED BY <1>3, <1>7 DEF Tends, Mending

(* It leaves what remains to be done, and clears the checkpoint of no wait. *)
LEMMA AuditsCheckpointsTends ==
  ASSUME StoreInv, NEW h \in Handlers, Tended(todo[h]), AuditsCheckpoints(h)
  PROVE  Tends(h)
<1> DEFINE orphans  == WithCheckpoint \ Existing
           ended    == (WithCheckpoint \cap Existing) \ Waiting
           hopeless == Waiting \ WithCheckpoint
           a == Each(orphans, "clear")
           b == Each(ended, "clear")
           c == Each(hopeless, "give_up")
           ab == a \o b
           tasks == ab \o c
<1>1. todo[h] # <<>> /\ Top(h).op = "audit_checkpoints" /\ row' = row /\ checkpoint' = checkpoint
  BY DEF AuditsCheckpoints, Doing, Top, stores
<1>2. Top(h).seen = Existing /\ Top(h).waiting = Waiting
  BY <1>1, TendedTop DEF TidyTasks, Plain, Audits
<1>3. Instead(h, tasks)
  BY <1>2 DEF AuditsCheckpoints
<1>4. /\ orphans \in SUBSET Runs /\ ended \in SUBSET Runs /\ hopeless \in SUBSET Runs
      /\ (orphans \cup ended) \cap Waiting = {} /\ hopeless \subseteq Sinking
      /\ orphans' = orphans /\ hopeless' = hopeless
  BY <1>1 DEF WithCheckpoint, Existing, Waiting, Sinking
<1>5. \A r \in Runs : /\ Task("clear", r, Fresh) \in TidyTasks(Sinking)
                      /\ r \in Sinking => Task("give_up", r, Fresh) \in TidyTasks(Sinking)
                      /\ Task("clear", r, Fresh).run = r /\ Task("clear", r, Fresh).op = "clear"
                      /\ Task("give_up", r, Fresh).run = r /\ Task("give_up", r, Fresh).op = "give_up"
                      /\ ~Clearing(Task("give_up", r, Fresh))
  BY FreshFacts, TidyFacts DEF Task, Clearing
<1> HIDE DEF orphans, ended, hopeless
<1>6. a \in Seq(TidyTasks(Sinking)) /\ b \in Seq(TidyTasks(Sinking)) /\ c \in Seq(TidyTasks(Sinking))
  BY <1>4, <1>5, EachIsASequence
<1>7. \A t \in ToSet(a) \cup ToSet(b) \cup ToSet(c) : Clearing(t) => t.run \notin Waiting
  BY <1>4, <1>5, EachIsThere
<1>8. /\ \A r \in orphans : Task("clear", r, Fresh) \in ToSet(a)
      /\ \A r \in hopeless : Task("give_up", r, Fresh) \in ToSet(c)
  BY <1>4, EachIsThere
<1> HIDE DEF a, b, c
<1>9. ab \in Seq(TidyTasks(Sinking)) /\ ToSet(ab) = ToSet(a) \cup ToSet(b)
  BY <1>6, ConcatProperties, OnStack
<1> HIDE DEF ab
<1>10. tasks \in Seq(TidyTasks(Sinking)) /\ ToSet(tasks) = ToSet(a) \cup ToSet(b) \cup ToSet(c)
  BY <1>6, <1>9, ConcatProperties, OnStack
<1> HIDE DEF tasks
<1>11. Piled(tasks, TidyTasks(Sinking), Audits(Existing, Waiting)) /\ Ordered(tasks, Waiting)
  BY <1>7, <1>10, HeadTailProperties, SeqMonotonic, OrderedHarmless DEF Piled
<1>12. /\ Tended(todo[h])' /\ ToSet(todo'[h]) = ToSet(tasks) \cup ToSet(Tail(todo[h]))
       /\ \A g \in Handlers \ {h} : todo'[g] = todo[g]
  BY <1>1, <1>3, <1>11, LooksOnly
<1>13. /\ \A r \in orphans' : \E t \in ToSet(todo'[h]) : t.op = "clear" /\ t.run = r
       /\ \A r \in hopeless' : \E t \in ToSet(todo'[h]) : t.op \in {"give_up", "save"} /\ t.run = r
  <2>1. orphans \subseteq Runs /\ hopeless \subseteq Runs /\ orphans' = orphans /\ hopeless' = hopeless
    BY <1>4
  <2> QED BY <1>5, <1>8, <1>10, <1>12, <2>1
<1>14. Mended(todo[h])'
  BY <1>13 DEF Mended, orphans, hopeless
<1> QED BY <1>12, <1>14 DEF Tends, Mending

(* Every access to a store keeps to it.                                    *)
LEMMA StoreTends ==
  ASSUME StoreInv, ClosedInv, NEW h \in Handlers, Tended(todo[h]), Store(h)
  PROVE  Tends(h)
BY ScansTends, FailsTends, SavesTends, ClearsTends, AuditsRowsTends, AuditsCheckpointsTends DEF Store

(* So does the startup: it is healthy, or audits.                          *)
LEMMA StartsUpTends ==
  ASSUME StoreInv, Tended(todo["startup"]), StartsUp
  PROVE  Tends("startup")
<1> DEFINE h == "startup"
           tasks == IF Healthy THEN <<>> ELSE Repair
<1>1. /\ h \in Handlers /\ todo[h] # <<>> /\ Top(h).op = "startup" /\ Instead(h, tasks)
      /\ row' = row /\ checkpoint' = checkpoint
  BY DEF Handlers, StartsUp, Doing, Top, stores
<1>2. tasks \in Seq(TidyTasks(Sinking)) /\ Ordered(tasks, Waiting)
  BY RepairIsTidy
<1>3. Healthy \/ \E t \in ToSet(tasks) : t.op = "audit_rows"
  BY RepairIsTidy
<1> HIDE DEF tasks
<1>4. Piled(tasks, TidyTasks(Sinking), Audits(Existing, Waiting))
  BY <1>2, HeadTailProperties, SeqMonotonic DEF Piled
<1>5. /\ Tended(todo[h])' /\ ToSet(todo'[h]) = ToSet(tasks) \cup ToSet(Tail(todo[h]))
      /\ \A g \in Handlers \ {h} : todo'[g] = todo[g]
  BY <1>1, <1>2, <1>4, LooksOnly
<1>6. CASE Healthy
  <2>1. (WithCheckpoint \ Existing)' = {} /\ (Waiting \ WithCheckpoint)' = {}
    BY <1>1, <1>6 DEF Healthy, HardUnhealthy, WithCheckpoint, Existing, Waiting
  <2> QED BY <1>5, <2>1 DEF Tends, Mending, Mended
<1>7. CASE \E t \in ToSet(tasks) : t.op = "audit_rows"
  BY <1>5, <1>7 DEF Tends, Mending
<1> QED BY <1>3, <1>6, <1>7

-----------------------------------------------------------------------------
(* The startup, with any number of threads waiting for it.                 *)

(* A handler works on its own stack, and has nothing to do without one.    *)
LEMMA WorkIsOwn ==
  ASSUME StoreInv, NEW h \in Handlers, Work(h) \/ (h = "startup" /\ StartsUp)
  PROVE  todo[h] # <<>> /\ \A g \in Handlers \ {h} : todo'[g] = todo[g]
<1>1. \A tasks : Instead(h, tasks) => \A g \in Handlers \ {h} : todo'[g] = todo[g]
  BY DEF Instead, StoreInv
<1>2. \A op : Doing(h, op) => todo[h] # <<>>
  BY DEF Doing
<1>3. ASSUME Graph(h) PROVE todo[h] # <<>> /\ \E tasks : Instead(h, tasks)
  BY <1>2, <1>3 DEF Graph, GraphBegins, ChecksCheckpoint, GraphResumes, GraphDecides, GraphReplays,
     GraphFindsNoFile, GraphOpensFile, GraphFiles, SubmitFails, GraphFiled, GraphReturns, GraphRaises,
     Reaches, Ticket
<1>4. ASSUME Store(h) PROVE todo[h] # <<>> /\ \E tasks : Instead(h, tasks)
  BY <1>2, <1>4 DEF Store, Saves, Scans, Expires, Clears, AuditsRows, AuditsCheckpoints, GivesUp
<1>5. ASSUME h = "startup", StartsUp PROVE todo[h] # <<>> /\ \E tasks : Instead(h, tasks)
  BY <1>2, <1>5 DEF StartsUp
<1> QED BY <1>1, <1>3, <1>4, <1>5 DEF Work

(* The stack a crash leaves to the startup.                                *)
LEMMA CrashTends ==
  ASSUME StoreInv, Crashes
  PROVE  /\ Tended(todo["startup"])' /\ Mending(todo["startup"])'
         /\ todo'["startup"] = <<StoreTask("startup")>> /\ todo'["startup"] # <<>>
         /\ \A h \in Handlers \ {"startup"} : todo'[h] = <<>>
<1> DEFINE t == StoreTask("startup")
           s == <<t>>
<1>1. /\ todo'["startup"] = s
      /\ \A h \in Handlers \ {"startup"} : todo'[h] = <<>>
  BY DEF Crashes, Handlers
<1>2. t \in Tasks /\ t.op = "startup"
  BY FreshFacts DEF StoreTask, Task, Tasks, Ops
<1>3. t \in TidyTasks(Sinking') /\ ~Clearing(t)
  BY <1>2 DEF TidyTasks, Clearing
<1> HIDE DEF t
<1>4. Piled(s, TidyTasks(Sinking'), Audits(Existing', Waiting')) /\ s \in Seq(Tasks) /\ ToSet(s) = {t}
      /\ s # <<>>
  BY <1>2, <1>3, ShortPiles DEF ToSet
<1> HIDE DEF s
<1>5. Ordered(s, Waiting')
  BY <1>3, <1>4, OrderedHarmless
<1> QED BY <1>1, <1>2, <1>4, <1>5 DEF Tended, Mending, s, t

(* What the stacks hold is not touched by a wait that grows too old.       *)
LEMMA AgesTends ==
  ASSUME StoreInv, ClosedInv, Ages, NEW h \in Handlers
  PROVE  /\ Tended(todo[h]) => Tended(todo[h])'
         /\ Mending(todo[h]) => Mending(todo[h])'
<1>1. /\ \A r \in Runs : row'[r].status = row[r].status
      /\ UNCHANGED <<checkpoint, todo>>
  BY AgesIsQuiet DEF Ages
<1>2. Sinking' = Sinking /\ Existing' = Existing /\ Waiting' = Waiting /\ WithCheckpoint' = WithCheckpoint
  BY <1>1 DEF Sinking, Existing, Waiting, WithCheckpoint
<1> QED BY <1>1, <1>2 DEF Tended, Mending, Mended

(* No request is served, and nothing else works, while it starts up.       *)
LEMMA OnlyStartup ==
  ASSUME StoreInv, StartupInv, todo["startup"] # <<>>, Next
  PROVE  StartsUp \/ Store("startup") \/ Ages \/ Crashes
<1>1. ASSUME NEW h \in Threads, Request(h) PROVE FALSE
  BY <1>1 DEF Request, CreateRun, ValidatePlaybook, DecideHitl, CancelRun, PersistenceRepair, Accepts, Serving
<1>2. ASSUME NEW h \in Threads, Work(h) PROVE FALSE
  BY <1>2, WorkIsOwn DEF StartupInv, Handlers
<1> QED BY <1>1, <1>2 DEF Next

(* The startup is alone and mends the stores, in every step.               *)
LEMMA StepIsMending == StoreInv /\ ClosedInv /\ StartupInv /\ [Next]_vars => StartupInv'
<1> SUFFICES ASSUME StoreInv, ClosedInv, StartupInv, [Next]_vars PROVE StartupInv'
  OBVIOUS
<1> DEFINE h == "startup"
<1>1. h \in Handlers /\ Threads = Handlers \ {h}
  BY StoreAssumption DEF Handlers
<1>2. CASE UNCHANGED vars
  BY <1>2 DEF vars, StartupInv, Tended, Mending, Mended, Sinking, Existing, Waiting, WithCheckpoint
<1>3. CASE Next /\ todo[h] # <<>>
  <2>1. CASE StartsUp \/ Store(h)
    <3>1. Tends(h)
      BY <1>1, <1>3, <2>1, StoreTends, StartsUpTends DEF StartupInv
    <3> QED BY <1>1, <1>3, <3>1 DEF Tends, StartupInv
  <2>2. CASE Ages
    BY <1>1, <1>3, <2>2, AgesTends DEF StartupInv, Ages
  <2>3. CASE Crashes
    BY <1>1, <2>3, CrashTends DEF StartupInv
  <2> QED BY <1>3, <2>1, <2>2, <2>3, OnlyStartup
<1>4. CASE Next /\ todo[h] = <<>>
  <2>1. ASSUME NEW g \in Threads, Request(g) PROVE todo'[h] = <<>>
    BY <1>1, <1>4, <2>1 DEF Request, CreateRun, ValidatePlaybook, DecideHitl, CancelRun,
       PersistenceRepair, Accepts, StoreInv
  <2>2. ASSUME NEW g \in Threads, Work(g) PROVE todo'[h] = <<>>
    BY <1>1, <1>4, <2>2, WorkIsOwn
  <2>3. ASSUME StartsUp \/ Store(h) PROVE FALSE
    BY <1>1, <1>4, <2>3, WorkIsOwn DEF Work
  <2>4. CASE Ages
    BY <1>4, <2>4 DEF Ages, StartupInv
  <2>5. CASE Crashes
    BY <1>1, <2>5, CrashTends DEF StartupInv
  <2> QED BY <1>4, <2>1, <2>2, <2>3, <2>4, <2>5 DEF Next, StartupInv
<1> QED BY <1>2, <1>3, <1>4

(* The startup has the stores to itself; an audit is still to come, or has *)
(* left a task for every orphan and every hopeless wait, and none of its   *)
(* clears comes before the save that ends the wait (main.py lifespan).     *)
THEOREM StartupIsAlone == Spec => []StartupInv
<1>1. Init => StartupInv
  BY DEF Init, StartupInv, Handlers
<1> QED BY <1>1, StepIsMending, StoresAreSafe, GraphsOfClosedRunsAreDone, PTL DEF Spec

(* What the startup leaves behind can be worked with, wherever the crash   *)
(* before it hit, a second crash while it repaired included (main.py       *)
(* lifespan, tracing/store.py repair_persistence).                         *)
THEOREM StartupLeavesNoOrphans == Spec => HealthyStart
<1>1. StoreInv /\ ClosedInv /\ StartupInv /\ [Next]_vars =>
        (todo["startup"] # <<>> /\ todo'["startup"] = <<>> => ~HardUnhealthy')
  <2> SUFFICES ASSUME StoreInv, ClosedInv, StartupInv, [Next]_vars,
                      todo["startup"] # <<>>, todo'["startup"] = <<>>
               PROVE  ~HardUnhealthy'
    OBVIOUS
  <2>1. "startup" \in Handlers
    BY DEF Handlers
  <2>2. StartsUp \/ Store("startup")
    <3>1. Next
      BY DEF vars
    <3>2. ~Ages /\ ~Crashes
      BY CrashTends DEF Ages
    <3> QED BY <3>1, <3>2, OnlyStartup
  <2>3. Tends("startup")
    BY <2>1, <2>2, StoreTends, StartsUpTends DEF StartupInv
  <2>4. Mending(<<>>)'
    BY <2>3 DEF Tends, StartupInv, Mending, Mended
  <2>5. ToSet(<<>>) = {}
    BY OnStack, EmptySeq
  <2> QED BY <2>4, <2>5 DEF Mending, Mended, HardUnhealthy
<1> QED BY <1>1, StoresAreSafe, GraphsOfClosedRunsAreDone, StartupIsAlone, PTL DEF Spec, HealthyStart

-----------------------------------------------------------------------------
(* One handler at a time.                                                  *)

(* A run whose stores do not change goes on to fit.                        *)
LEMMA StillFits ==
  ASSUME NEW r \in Runs, Fits(r), row'[r].status = row[r].status, row'[r].filed = row[r].filed,
         checkpoint'[r] = checkpoint[r], outbox'[r] = outbox[r], used \subseteq used'
  PROVE  Fits(r)'
BY DEF Fits, AtChief

(* The step of the one handler: what it leaves on its stack, and what it   *)
(* does to the stores.                                                     *)
LEMMA AloneStep ==
  ASSUME StoreInv, AloneInv, NEW h \in Handlers, todo[h] # <<>>, NEW tasks \in Seq(WholeTasks(outbox')),
         Instead(h, tasks), Tended(todo[h])' \/ Led(todo[h])',
         \A r \in Runs : outbox[r] = "whole" => outbox'[r] = "whole",
         \A r \in Runs : Fits(r)'
  PROVE  AloneInv'
<1> DEFINE T == WholeTasks(outbox')
           rest == Tail(todo[h])
<1>1. /\ todo'[h] = tasks \o rest
      /\ \A g \in Handlers \ {h} : todo'[g] = todo[g] /\ todo[g] = <<>>
  BY DEF Instead, StoreInv, AloneInv
<1>2. rest \in Seq(WholeTasks(outbox))
  BY HeadTailProperties DEF AloneInv
<1>3. WholeTasks(outbox) \subseteq T
  <2> SUFFICES ASSUME NEW t \in Tasks, SeenWhole(t, outbox) PROVE SeenWhole(t, outbox')
    BY DEF WholeTasks
  <2> QED BY DEF SeenWhole
<1>4. rest \in Seq(T) /\ tasks \in Seq(T)
  BY <1>2, <1>3, SeqMonotonic
<1> HIDE DEF T, rest
<1>5. tasks \o rest \in Seq(T)
  BY <1>4, ConcatProperties
<1>6. (\A f, g \in Handlers : todo[f] # <<>> /\ todo[g] # <<>> => f = g)'
  BY <1>1
<1>7. ASSUME NEW g \in Handlers, todo'[g] # <<>>
      PROVE  (Tended(todo[g]) \/ Led(todo[g]))' /\ todo'[g] \in Seq(WholeTasks(outbox'))
  <2>1. g = h
    BY <1>1, <1>7
  <2>2. todo'[h] \in Seq(WholeTasks(outbox'))
    BY <1>1, <1>5 DEF T
  <2> QED BY <2>1, <2>2
<1> QED BY <1>6, <1>7 DEF AloneInv

(* What a graph at work knows of its run: its task is all there is.        *)
LEMMA LedFacts ==
  ASSUME StoreInv, ClosedInv, AloneInv, NEW h \in Handlers, NEW op \in GraphOps, Doing(h, op)
  PROVE  /\ todo[h] # <<>> /\ Tail(todo[h]) = <<>>
         /\ Top(h) \in Tasks /\ Top(h).op = op /\ Top(h).st \in States /\ Top(h).base \in States
         /\ Run(h) \in Runs /\ Run(h) \in used /\ Top(h).run = Run(h)
         /\ Leads(op, Run(h), Top(h).st, row, checkpoint, outbox) /\ Open(row, Run(h)) /\ Fits(Run(h))
         /\ Top(h).st.filed \/ Top(h).base.filed => outbox[Run(h)] = "whole"
         /\ ~Top(h).keep => Run(h) \notin Existing
<1>1. /\ todo[h] # <<>> /\ Top(h) \in Tasks /\ Top(h).op = op /\ Top(h).st \in States
      /\ Top(h).base \in States /\ Run(h) \in Runs /\ Run(h) \in used
      /\ ~Top(h).keep => Run(h) \notin Existing
  BY ActorFacts
<1>2. ~Tended(todo[h])
  <2>1. Top(h) \notin TidyTasks(Sinking) /\ Top(h) \notin Audits(Existing, Waiting)
    BY <1>1 DEF TidyTasks, Plain, Audits, GraphOps
  <2> QED BY <1>1, <2>1, TendedTop
<1>3. Led(todo[h]) /\ todo[h] \in Seq(WholeTasks(outbox)) /\ Fits(Run(h))
  BY <1>1, <1>2 DEF AloneInv
<1>4. Tail(todo[h]) = <<>> /\ Top(h) \in Lead
  BY <1>1, <1>3 DEF Led, Top
<1>5. Leads(op, Run(h), Top(h).st, row, checkpoint, outbox)
  BY <1>1, <1>4 DEF Lead, Run
<1>6. Top(h) \in WholeTasks(outbox)
  BY <1>1, <1>3, HeadTailProperties DEF Top
<1>7. Open(row, Run(h))
  BY <1>5 DEF Leads, GraphOps
<1> QED BY <1>1, <1>3, <1>4, <1>5, <1>6, <1>7 DEF WholeTasks, SeenWhole, Run

(* The graph goes on: it still leads its run.                              *)
LEMMA GoesOnAlone ==
  ASSUME StoreInv, ClosedInv, AloneInv, NEW h \in Handlers, NEW now \in GraphOps, Doing(h, now),
         NEW op \in GraphOps, NEW st \in States, Instead(h, <<GraphTask(h, op, st)>>),
         Leads(op, Run(h), st, row', checkpoint', outbox'),
         st.filed => outbox'[Run(h)] = "whole",
         \A r \in Runs : outbox[r] = "whole" => outbox'[r] = "whole",
         \A r \in Runs : Fits(r)'
  PROVE  AloneInv'
<1> DEFINE u == GraphTask(h, op, st)
           tasks == <<u>>
<1>1. /\ todo[h] # <<>> /\ Tail(todo[h]) = <<>> /\ Top(h) \in Tasks /\ Run(h) \in Runs
      /\ Top(h).run = Run(h) /\ (Top(h).base.filed => outbox[Run(h)] = "whole")
  BY LedFacts
<1>2. op \in Ops
  BY DEF GraphOps, Ops
<1>3. u \in Tasks /\ u.op = op /\ u.st = st /\ u.run = Run(h) /\ u.base = Top(h).base
  BY <1>1, <1>2 DEF GraphTask, Tasks
<1>4. Instead(h, tasks)
  OBVIOUS
<1> HIDE DEF u
<1>5. u \in Lead' /\ ~Clearing(u) /\ u.op \in GraphOps
  BY <1>1, <1>3 DEF Lead, Acting, Clearing, GraphOps
<1>6. u \in WholeTasks(outbox')
  BY <1>1, <1>3 DEF WholeTasks, SeenWhole
<1>7. /\ tasks \in Seq(WholeTasks(outbox')) /\ tasks # <<>> /\ Head(tasks) = u /\ Tail(tasks) = <<>>
      /\ ToSet(tasks) = {u} /\ tasks \in Seq(Tasks) /\ <<>> \in Seq(Plain)
  BY <1>3, <1>6, EmptySeq DEF ToSet
<1> HIDE DEF tasks
<1>8. todo'[h] = tasks
  <2>1. tasks \o <<>> = tasks
    BY <1>7, ConcatEmptySeq
  <2> QED BY <1>1, <1>4, <2>1 DEF Instead, StoreInv
<1>9. Ordered(tasks, Waiting')
  BY <1>5, <1>7, OrderedHarmless
<1>10. Led(todo[h])'
  BY <1>5, <1>7, <1>8, <1>9, OnStack DEF Led, GraphOps
<1> QED BY <1>1, <1>4, <1>7, <1>10, AloneStep

(* A run that comes back is saved by the one who led it.                   *)
LEMMA PersistAlone ==
  ASSUME StoreInv, ClosedInv, AloneInv, NEW h \in Handlers, NEW now \in GraphOps, Doing(h, now),
         NEW st \in States, Instead(h, Persist(Top(h), st)), UNCHANGED <<row, checkpoint, outbox, used>>,
         Leads("save", Run(h), st, row, checkpoint, outbox),
         st.filed => outbox[Run(h)] = "whole"
  PROVE  AloneInv'
<1> DEFINE r == Run(h)
           save == Task("save", r, st)
           clear == Task("clear_terminal", r, st)
           tasks == Persist(Top(h), st)
<1>1. /\ todo[h] # <<>> /\ Tail(todo[h]) = <<>> /\ Top(h) \in Tasks /\ r \in Runs
      /\ Top(h).run = r /\ (~Top(h).keep => r \notin Existing)
  BY LedFacts
<1>2. /\ Sinking' = Sinking /\ Existing' = Existing /\ Waiting' = Waiting /\ Lead' = Lead
      /\ Waiting \subseteq Existing
  BY DEF Sinking, Existing, Waiting, Lead
<1>3. /\ save \in Tasks /\ save.op = "save" /\ save.run = r /\ save.st = st /\ save.base = st
      /\ clear \in Tasks /\ clear.op = "clear_terminal" /\ clear.run = r /\ clear.st = st /\ clear.base = st
  BY <1>1 DEF Task, Tasks, Ops
<1>4. tasks = (IF Top(h).keep THEN Snapshot(r, st) ELSE <<>>) \o <<clear>>
  BY <1>1 DEF Persist
<1>5. Instead(h, tasks)
  OBVIOUS
<1> HIDE DEF save, clear, r, tasks
<1>6. clear \in Plain /\ (Clearing(clear) => st.status # "waiting_hitl")
  BY <1>3 DEF Plain, Clearing, Terminal
<1>7. save \in Lead
  BY <1>1, <1>3 DEF Lead, Acting, r
<1>8. /\ save \in WholeTasks(outbox) /\ clear \in WholeTasks(outbox)
      /\ StoreTask("scan") \in WholeTasks(outbox)
  <2>1. StoreTask("scan") \in Tasks /\ StoreTask("scan").st = Fresh /\ StoreTask("scan").base = Fresh
    BY FreshFacts DEF StoreTask, Task, Tasks, Ops
  <2> QED BY <1>1, <1>3, <2>1, StateFacts DEF WholeTasks, SeenWhole, r
<1>9. \A q \in Runs : Fits(q)'
  BY StillFits DEF AloneInv
<1>10. CASE Top(h).keep
  <2>1. tasks = Snapshot(r, st) \o <<clear>>
    BY <1>4, <1>10
  <2>2. /\ tasks \in Seq(Tasks) /\ Ordered(tasks, Waiting)
        /\ ToSet(tasks) = {save, StoreTask("scan"), clear}
        /\ tasks # <<>> /\ Head(tasks) = save /\ Tail(tasks) \in Seq(Plain)
        /\ st.status = "waiting_hitl" => \A t \in ToSet(Tail(tasks)) : ~Clearing(t)
    BY <1>1, <1>3, <1>6, <2>1, SnapshotThenClear DEF save
  <2>3. todo'[h] = tasks
    <3>1. tasks \o <<>> = tasks
      BY <2>2, ConcatEmptySeq
    <3> QED BY <1>1, <1>5, <3>1 DEF Instead, StoreInv
  <2>4. tasks \in Seq(WholeTasks(outbox'))
    BY <1>8, <2>2, StackOf
  <2>5. Led(todo[h])'
    BY <1>2, <1>3, <1>7, <2>2, <2>3 DEF Led, GraphOps
  <2> QED BY <1>1, <1>5, <1>9, <2>4, <2>5, AloneStep
<1>11. CASE ~Top(h).keep
  <2>1. tasks = <<clear>>
    <3>1. <<>> \o <<clear>> = <<clear>>
      OBVIOUS
    <3> QED BY <1>4, <1>11, <3>1
  <2>2. /\ tasks \in Seq(Tasks) /\ ToSet(tasks) = {clear} /\ tasks \in Seq(WholeTasks(outbox'))
        /\ tasks \in Seq(TidyTasks(Sinking))
    BY <1>3, <1>6, <1>8, <2>1 DEF ToSet, TidyTasks
  <2>3. Ordered(tasks, Waiting)
    BY <1>1, <1>2, <1>3, <1>11, <2>2, OrderedHarmless
  <2>4. Piled(tasks, TidyTasks(Sinking), Audits(Existing, Waiting))
    BY <2>2, HeadTailProperties, SeqMonotonic DEF Piled
  <2>5. todo'[h] = tasks
    <3>1. tasks \o <<>> = tasks
      BY <2>2, ConcatEmptySeq
    <3> QED BY <1>1, <1>5, <3>1 DEF Instead, StoreInv
  <2>6. Tended(todo[h])'
    BY <1>2, <2>3, <2>4, <2>5 DEF Tended
  <2> QED BY <1>1, <1>5, <1>9, <2>2, <2>6, AloneStep
<1> QED BY <1>10, <1>11

(* The graph writes a checkpoint and goes on.                              *)
LEMMA ReachesAlone ==
  ASSUME StoreInv, ClosedInv, AloneInv, NEW h \in Handlers, NEW now \in GraphOps, Doing(h, now),
         NEW at \in {"human", "run", "end"}, NEW st \in States, NEW op \in Onward,
         Reaches(h, at, st, op), UNCHANGED <<row, outbox, used>>,
         at = "human" => op = "snapshot" /\ outbox[Run(h)] = "none",
         at = "run" => op = "file" /\ st.status = "running",
         at = "end" => op = "snapshot" /\ st.status \in {"succeeded", "failed", "rejected"},
         at = "end" /\ st.status = "rejected" => outbox[Run(h)] = "none",
         st.filed => outbox[Run(h)] = "whole"
  PROVE  AloneInv'
<1> DEFINE r == Run(h)
           cp == [at |-> at, st |-> st]
<1>1. r \in Runs /\ Open(row, r) /\ Fits(r) /\ r \in used
  BY LedFacts
<1>2. checkpoint' = [checkpoint EXCEPT ![r] = cp] /\ Instead(h, <<GraphTask(h, op, st)>>)
  BY DEF Reaches
<1>3. checkpoint'[r] = cp /\ cp.at = at /\ cp.st = st
      /\ \A q \in Runs \ {r} : checkpoint'[q] = checkpoint[q]
  BY <1>1, <1>2 DEF StoreInv
<1>4. row' = row /\ outbox' = outbox /\ used' = used
  OBVIOUS
<1> HIDE DEF cp, r
<1>5. Leads(op, r, st, row', checkpoint', outbox')
  BY <1>1, <1>3, <1>4 DEF Leads, Onward, Writing, Open, r
<1>6. ASSUME NEW q \in Runs PROVE Fits(q)'
  <2>1. CASE q # r
    BY <1>3, <1>4, <2>1, StillFits DEF AloneInv
  <2>2. CASE q = r
    BY <1>1, <1>3, <1>4, <2>2 DEF Fits, AtChief, r
  <2> QED BY <2>1, <2>2
<1>7. op \in GraphOps
  BY DEF Onward, GraphOps
<1> QED BY <1>1, <1>2, <1>4, <1>5, <1>6, <1>7, GoesOnAlone DEF r

(* The graph goes on and the stores stay as they are.                      *)
LEMMA MovesAlone ==
  ASSUME StoreInv, ClosedInv, AloneInv, NEW h \in Handlers, NEW now \in GraphOps, Doing(h, now),
         NEW op \in GraphOps, NEW st \in States, Instead(h, <<GraphTask(h, op, st)>>),
         UNCHANGED <<row, checkpoint, outbox, used>>,
         Leads(op, Run(h), st, row, checkpoint, outbox), st.filed => outbox[Run(h)] = "whole"
  PROVE  AloneInv'
<1>1. \A q \in Runs : Fits(q)'
  BY StillFits DEF AloneInv
<1>2. row' = row /\ checkpoint' = checkpoint /\ outbox' = outbox
  OBVIOUS
<1> QED BY <1>1, <1>2, GoesOnAlone

(* A new run has no file.                                                  *)
LEMMA BeginsAlone ==
  ASSUME StoreInv, ClosedInv, AloneInv, NEW h \in Handlers, GraphBegins(h)
  PROVE  AloneInv'
<1>1. Doing(h, "begin") /\ "begin" \in GraphOps /\ UNCHANGED <<row, outbox, used>>
  BY DEF GraphBegins, GraphOps
<1>2. outbox[Run(h)] = "none"
  BY <1>1, LedFacts DEF Leads
<1>3. \A how \in Terminal \cup {"running", "waiting_hitl"} :
        /\ [Fresh EXCEPT !.status = how] \in States /\ ~[Fresh EXCEPT !.status = how].filed
        /\ [Fresh EXCEPT !.status = how].status = how
  BY StateFacts DEF Fresh, States
<1>4. CASE Reaches(h, "human", [Fresh EXCEPT !.status = "waiting_hitl"], "snapshot")
  BY <1>1, <1>2, <1>3, <1>4, ReachesAlone DEF Onward
<1>5. CASE Reaches(h, "run", Fresh, "file")
  <2>1. Fresh \in States /\ ~Fresh.filed /\ Fresh.status = "running"
    BY StateFacts DEF Fresh
  <2> QED BY <1>1, <1>5, <2>1, ReachesAlone DEF Onward
<1>6. ASSUME NEW how \in {"succeeded", "failed", "rejected"},
             Reaches(h, "end", [Fresh EXCEPT !.status = how], "snapshot")
      PROVE  AloneInv'
  <2>1. how \in Terminal \cup {"running", "waiting_hitl"}
    BY DEF Terminal
  <2> QED BY <1>1, <1>2, <1>3, <1>6, <2>1, ReachesAlone DEF Onward
<1> QED BY <1>4, <1>5, <1>6 DEF GraphBegins

(* A decision is carried on, or the run failed as it is.                   *)
LEMMA ChecksAlone ==
  ASSUME StoreInv, ClosedInv, AloneInv, NEW h \in Handlers, ChecksCheckpoint(h)
  PROVE  AloneInv'
<1>1. Doing(h, "check") /\ "check" \in GraphOps /\ UNCHANGED <<row, checkpoint, outbox, used>>
  BY DEF ChecksCheckpoint, GraphOps, stores
<1>2. /\ Top(h).st \in States /\ Open(row, Run(h)) /\ (Top(h).st.filed => outbox[Run(h)] = "whole")
  BY <1>1, LedFacts
<1>3. CASE Instead(h, <<GraphTask(h, "resume", Top(h).st)>>)
  <2>1. "resume" \in GraphOps /\ Leads("resume", Run(h), Top(h).st, row, checkpoint, outbox)
    BY <1>2 DEF GraphOps, Leads, Writing
  <2> QED BY <1>1, <1>2, <1>3, <2>1, MovesAlone
<1>4. CASE Instead(h, Persist(Top(h), [Top(h).st EXCEPT !.status = "failed", !.decision = "none"]))
  <2> DEFINE st == [Top(h).st EXCEPT !.status = "failed", !.decision = "none"]
  <2>1. st \in States /\ st.status = "failed" /\ st.filed = Top(h).st.filed
    BY <1>2 DEF States, Terminal
  <2> HIDE DEF st
  <2>2. Leads("save", Run(h), st, row, checkpoint, outbox)
    BY <1>2, <2>1 DEF Leads, Writing
  <2>3. Instead(h, Persist(Top(h), st)) /\ (st.filed => outbox[Run(h)] = "whole")
    BY <1>2, <1>4, <2>1 DEF st
  <2> QED BY <1>1, <2>1, <2>2, <2>3, PersistAlone
<1> QED BY <1>3, <1>4 DEF ChecksCheckpoint

(* The checkpoint says where to go on.                                     *)
LEMMA ResumesAlone ==
  ASSUME StoreInv, ClosedInv, AloneInv, NEW h \in Handlers, GraphResumes(h)
  PROVE  AloneInv'
<1> DEFINE cp == checkpoint[Run(h)]
<1>1. Doing(h, "resume") /\ "resume" \in GraphOps /\ UNCHANGED <<row, checkpoint, outbox, used>>
  BY DEF GraphResumes, GraphOps, stores
<1>2. /\ Run(h) \in Runs /\ Top(h).st \in States /\ Open(row, Run(h)) /\ Fits(Run(h))
      /\ Top(h).st.filed => outbox[Run(h)] = "whole"
  BY <1>1, LedFacts
<1>3. cp.at # "none" => cp.st \in States
  BY <1>2, CheckpointFacts
<1>4. cp.st.filed => outbox[Run(h)] = "whole"
  BY <1>2 DEF Fits
<1>5. CASE cp.at = "human" /\ Instead(h, <<GraphTask(h, "decided", Top(h).st)>>)
  <2>1. "decided" \in GraphOps /\ Leads("decided", Run(h), Top(h).st, row, checkpoint, outbox)
    BY <1>2, <1>5 DEF GraphOps, Leads, Writing, AtChief
  <2> QED BY <1>1, <1>2, <1>5, <2>1, MovesAlone
<1>6. CASE cp.at = "run" /\ Instead(h, <<GraphTask(h, "file", cp.st)>>)
  <2>1. "file" \in GraphOps /\ Leads("file", Run(h), cp.st, row, checkpoint, outbox)
    BY <1>2, <1>6 DEF GraphOps, Leads, Writing, Fits
  <2> QED BY <1>1, <1>3, <1>4, <1>6, <2>1, MovesAlone
<1>7. CASE cp.at = "end" /\ Instead(h, <<GraphTask(h, "snapshot", cp.st)>>)
  <2>1. "snapshot" \in GraphOps /\ Leads("snapshot", Run(h), cp.st, row, checkpoint, outbox)
    BY <1>2, <1>7 DEF GraphOps, Leads, Writing
  <2> QED BY <1>1, <1>3, <1>4, <1>7, <2>1, MovesAlone
<1> QED BY <1>5, <1>6, <1>7 DEF GraphResumes

(* The chief is asked before there is a file.                              *)
LEMMA DecidesAlone ==
  ASSUME StoreInv, ClosedInv, AloneInv, NEW h \in Handlers, GraphDecides(h)
  PROVE  AloneInv'
<1>1. Doing(h, "decided") /\ "decided" \in GraphOps /\ UNCHANGED <<row, outbox, used>>
  BY DEF GraphDecides, GraphOps
<1>2. /\ Top(h).st \in States /\ (Top(h).st.filed => outbox[Run(h)] = "whole")
      /\ outbox[Run(h)] = "none"
  BY <1>1, LedFacts DEF Leads, Fits
<1>3. \A how \in {"running", "succeeded", "failed", "rejected"} :
        /\ Decided(h, how) \in States /\ Decided(h, how).filed = Top(h).st.filed
        /\ Decided(h, how).status = how
  BY <1>2 DEF Decided, States, Terminal
<1>4. CASE Reaches(h, "run", Decided(h, "running"), "file")
  BY <1>1, <1>2, <1>3, <1>4, ReachesAlone DEF Onward
<1>5. ASSUME NEW how \in {"succeeded", "failed", "rejected"}, Reaches(h, "end", Decided(h, how), "snapshot")
      PROVE  AloneInv'
  BY <1>1, <1>2, <1>3, <1>5, ReachesAlone DEF Onward
<1> QED BY <1>4, <1>5 DEF GraphDecides

(* The submit node writes a file only where there is none.                 *)
LEMMA SubmitAlone ==
  ASSUME StoreInv, ClosedInv, AloneInv, NEW h \in Handlers,
         GraphReplays(h) \/ GraphFindsNoFile(h) \/ GraphOpensFile(h) \/ GraphFiles(h) \/ SubmitFails(h)
  PROVE  AloneInv'
<1> DEFINE r == Run(h)
<1>1. PICK now \in Writing : Doing(h, now)
  BY DEF GraphReplays, GraphFindsNoFile, GraphOpensFile, GraphFiles, SubmitFails, Writing
<1>2. /\ now \in GraphOps /\ todo[h] # <<>> /\ Top(h).op = now
      /\ row' = row /\ checkpoint' = checkpoint /\ used' = used
  BY <1>1 DEF GraphReplays, GraphFindsNoFile, GraphOpensFile, GraphFiles, SubmitFails, Ticket, stores,
     GraphOps, Writing, Doing, Top
<1>3. /\ r \in Runs /\ Top(h).st \in States /\ Open(row, r) /\ Fits(r) /\ r \in used
      /\ Top(h).st.filed => outbox[r] = "whole"
      /\ Leads(now, r, Top(h).st, row, checkpoint, outbox)
  BY <1>1, <1>2, LedFacts
<1>4. /\ checkpoint[r].at = "run" /\ Top(h).st.status = "running"
      /\ now = "write" => outbox[r] = "none"
      /\ now = "close" => outbox[r] = "cut"
  BY <1>1, <1>3 DEF Leads
<1>5. /\ HasTicket(h) \in States /\ HasTicket(h).status = "succeeded"
      /\ [Top(h).st EXCEPT !.status = "failed"] \in States
      /\ [Top(h).st EXCEPT !.status = "failed"].status = "failed"
      /\ [Top(h).st EXCEPT !.status = "failed"].filed = Top(h).st.filed
  BY <1>3 DEF HasTicket, States, Terminal
<1>6. {"filed", "write", "close"} \subseteq GraphOps
  BY DEF GraphOps
<1>7. /\ Leads("filed", r, HasTicket(h), row, checkpoint, outbox')
      /\ Leads("filed", r, [Top(h).st EXCEPT !.status = "failed"], row, checkpoint, outbox)
      /\ outbox[r] = "none" => Leads("write", r, Top(h).st, row, checkpoint, outbox)
      /\ outbox'[r] = "cut" => Leads("close", r, Top(h).st, row, checkpoint, outbox')
  BY <1>3, <1>4, <1>5 DEF Leads, Writing
<1>8. CASE GraphReplays(h)
  <2>1. Instead(h, <<GraphTask(h, "filed", HasTicket(h))>>) /\ outbox' = outbox /\ outbox[r] = "whole"
    BY <1>8 DEF GraphReplays, Ticket
  <2> QED BY <1>1, <1>2, <1>5, <1>6, <1>7, <2>1, MovesAlone
<1>9. CASE GraphFindsNoFile(h)
  <2>1. Instead(h, <<GraphTask(h, "write", Top(h).st)>>) /\ outbox' = outbox /\ outbox[r] = "none"
    BY <1>9 DEF GraphFindsNoFile, Ticket
  <2> QED BY <1>1, <1>2, <1>3, <1>6, <1>7, <2>1, MovesAlone
<1>10. CASE GraphOpensFile(h)
  <2>1. /\ Instead(h, <<GraphTask(h, "close", Top(h).st)>>) /\ now = "write"
        /\ outbox' = [outbox EXCEPT ![r] = "cut"]
    BY <1>2, <1>10 DEF GraphOpensFile, Ticket, Doing, Top
  <2>2. outbox'[r] = "cut" /\ outbox[r] = "none" /\ \A q \in Runs \ {r} : outbox'[q] = outbox[q]
    BY <1>3, <1>4, <2>1 DEF StoreInv
  <2>3. ASSUME NEW q \in Runs PROVE Fits(q)'
    <3>1. CASE q # r
      BY <1>2, <2>2, <3>1, StillFits DEF AloneInv
    <3>2. CASE q = r
      BY <1>2, <1>3, <1>4, <2>2, <3>2 DEF Fits, AtChief, Open
    <3> QED BY <3>1, <3>2
  <2>4. Top(h).st.filed => outbox'[r] = "whole"
    BY <1>3, <2>2
  <2> QED BY <1>1, <1>2, <1>3, <1>6, <1>7, <2>1, <2>2, <2>3, <2>4, GoesOnAlone
<1>11. CASE GraphFiles(h)
  <2>1. /\ Instead(h, <<GraphTask(h, "filed", HasTicket(h))>>) /\ now = "close"
        /\ outbox' = [outbox EXCEPT ![r] = "whole"]
    BY <1>2, <1>11 DEF GraphFiles, Ticket, Doing, Top
  <2>2. outbox'[r] = "whole" /\ \A q \in Runs \ {r} : outbox'[q] = outbox[q]
    BY <1>3, <2>1 DEF StoreInv
  <2>3. ASSUME NEW q \in Runs PROVE Fits(q)'
    <3>1. CASE q # r
      BY <1>2, <2>2, <3>1, StillFits DEF AloneInv
    <3>2. CASE q = r
      BY <1>2, <1>3, <1>4, <2>2, <3>2 DEF Fits, AtChief, Open
    <3> QED BY <3>1, <3>2
  <2> QED BY <1>1, <1>2, <1>5, <1>6, <1>7, <2>1, <2>2, <2>3, GoesOnAlone
<1>12. CASE SubmitFails(h)
  <2>1. Instead(h, <<GraphTask(h, "filed", [Top(h).st EXCEPT !.status = "failed"])>>) /\ outbox' = outbox
    BY <1>12 DEF SubmitFails, stores
  <2> QED BY <1>1, <1>2, <1>3, <1>5, <1>6, <1>7, <2>1, MovesAlone
<1> QED BY <1>8, <1>9, <1>10, <1>11, <1>12

(* A run that went to submit ends as succeeded or failed.                  *)
LEMMA FiledAlone ==
  ASSUME StoreInv, ClosedInv, AloneInv, NEW h \in Handlers, GraphFiled(h)
  PROVE  AloneInv'
<1>1. Doing(h, "filed") /\ "filed" \in GraphOps /\ UNCHANGED <<row, outbox, used>>
  BY DEF GraphFiled, GraphOps
<1>2. PICK how \in {Top(h).st.status, "failed"} :
        Reaches(h, "end", [Top(h).st EXCEPT !.status = how], "snapshot")
  BY DEF GraphFiled
<1>3. /\ Top(h).st \in States /\ (Top(h).st.filed => outbox[Run(h)] = "whole")
      /\ how \in {"succeeded", "failed"}
  BY <1>1, LedFacts DEF Leads
<1> DEFINE st == [Top(h).st EXCEPT !.status = how]
<1>4. st \in States /\ st.status = how /\ st.filed = Top(h).st.filed
  BY <1>3 DEF States, Terminal
<1> HIDE DEF st
<1>5. Reaches(h, "end", st, "snapshot")
  BY <1>2 DEF st
<1> QED BY <1>1, <1>3, <1>4, <1>5, ReachesAlone DEF Onward

(* The run comes back as its checkpoint has it.                            *)
LEMMA ReturnsAlone ==
  ASSUME StoreInv, ClosedInv, AloneInv, NEW h \in Handlers, GraphReturns(h)
  PROVE  AloneInv'
<1> DEFINE cp == checkpoint[Run(h)]
           waits == [cp.st EXCEPT !.status = "waiting_hitl"]
<1>1. Doing(h, "snapshot") /\ "snapshot" \in GraphOps /\ UNCHANGED <<row, checkpoint, outbox, used>>
  BY DEF GraphReturns, GraphOps, stores
<1>2. /\ Run(h) \in Runs /\ Open(row, Run(h)) /\ Fits(Run(h)) /\ cp.at \in {"human", "end"}
      /\ cp.at = "human" => Run(h) \notin Existing
  BY <1>1, LedFacts, ActorFacts DEF Leads
<1>3. cp.st \in States /\ (cp.st.filed => outbox[Run(h)] = "whole")
  BY <1>2, CheckpointFacts DEF Fits
<1>4. waits \in States /\ waits.status = "waiting_hitl" /\ waits.filed = cp.st.filed
  BY <1>3 DEF States
<1>5. CASE cp.at = "human"
  <2>1. Instead(h, Persist(Top(h), waits))
    BY <1>5 DEF GraphReturns
  <2>2. row[Run(h)].status = "none"
    BY <1>2, <1>5 DEF Existing
  <2> HIDE DEF waits
  <2>3. Leads("save", Run(h), waits, row, checkpoint, outbox)
    BY <1>4, <1>5, <2>2 DEF Leads, Writing, AtChief
  <2> QED BY <1>1, <1>3, <1>4, <2>1, <2>3, PersistAlone
<1>6. CASE cp.at = "end"
  <2>1. Instead(h, Persist(Top(h), cp.st))
    BY <1>6 DEF GraphReturns
  <2>2. Leads("save", Run(h), cp.st, row, checkpoint, outbox)
    BY <1>2, <1>6 DEF Leads, Writing, Fits
  <2> QED BY <1>1, <1>3, <2>1, <2>2, PersistAlone
<1> QED BY <1>2, <1>5, <1>6

(* A run whose graph raises is failed as it was handed to the engine.      *)
LEMMA RaisesAlone ==
  ASSUME StoreInv, ClosedInv, AloneInv, NEW h \in Handlers, GraphRaises(h)
  PROVE  AloneInv'
<1> DEFINE st == [Top(h).base EXCEPT !.status = "failed"]
<1>1. PICK now \in GraphOps : Doing(h, now)
  BY DEF GraphRaises, GraphOps
<1>2. UNCHANGED <<row, checkpoint, outbox, used>> /\ Instead(h, Persist(Top(h), st))
  BY DEF GraphRaises, stores
<1>3. Top(h).base \in States /\ Open(row, Run(h)) /\ (Top(h).base.filed => outbox[Run(h)] = "whole")
  BY <1>1, LedFacts
<1>4. st \in States /\ st.status = "failed" /\ st.filed = Top(h).base.filed
  BY <1>3 DEF States, Terminal
<1> HIDE DEF st
<1>5. Leads("save", Run(h), st, row, checkpoint, outbox)
  BY <1>3, <1>4 DEF Leads, Writing
<1> QED BY <1>1, <1>2, <1>3, <1>4, <1>5, PersistAlone

(* Every step of the graph.                                                *)
LEMMA GraphAlone ==
  ASSUME StoreInv, ClosedInv, AloneInv, NEW h \in Handlers, Graph(h)
  PROVE  AloneInv'
BY BeginsAlone, ChecksAlone, ResumesAlone, DecidesAlone, SubmitAlone, FiledAlone, ReturnsAlone,
   RaisesAlone DEF Graph

-----------------------------------------------------------------------------
(* The stores of one handler.                                              *)

(* A task made from a state whose ticket, if known, is whole.              *)
LEMMA WholeFacts ==
  ASSUME NEW boxes, NEW r \in Runs, NEW st \in States, st.filed => boxes[r] = "whole"
  PROVE  /\ \A op \in Ops : /\ Task(op, r, st) \in WholeTasks(boxes)
                            /\ Task(op, r, Fresh) \in WholeTasks(boxes)
                            /\ StoreTask(op) \in WholeTasks(boxes)
         /\ Snapshot(r, st) \in Seq(WholeTasks(boxes))
<1>1. \A op \in Ops, x \in Runs \cup {"all"}, u \in States :
        /\ Task(op, x, u) \in Tasks /\ Task(op, x, u).run = x
        /\ Task(op, x, u).st = u /\ Task(op, x, u).base = u
  BY DEF Task, Tasks
<1>2. \A op \in Ops : /\ Task(op, r, st) \in WholeTasks(boxes)
                      /\ Task(op, r, Fresh) \in WholeTasks(boxes)
                      /\ StoreTask(op) \in WholeTasks(boxes)
  BY <1>1, StateFacts DEF WholeTasks, SeenWhole, StoreTask
<1>3. Task("save", r, st) \in WholeTasks(boxes) /\ StoreTask("scan") \in WholeTasks(boxes)
  BY <1>2 DEF Ops
<1> QED BY <1>2, <1>3, Stacks DEF Snapshot

(* The housekeeping knows of no ticket but by its row.                     *)
LEMMA StoreIsWhole ==
  ASSUME StoreInv, ClosedInv, AloneInv, NEW h \in Handlers, Store(h) \/ (h = "startup" /\ StartsUp)
  PROVE  \E tasks \in Seq(WholeTasks(outbox)) : Instead(h, tasks)
<1> DEFINE S == WholeTasks(outbox)
<1>1. /\ \A R \in SUBSET Runs, op \in {"expire", "clear", "give_up"} : Each(R, op) \in Seq(S)
      /\ \A r \in Runs : Task("clear", r, Fresh) \in S
      /\ <<>> \in Seq(S)
  <2>1. \A r \in Runs, op \in Ops : Task(op, r, Fresh) \in S
    BY StateFacts, WholeFacts
  <2>2. {"expire", "clear", "give_up"} \subseteq Ops
    BY DEF Ops
  <2>3. \A R \in SUBSET Runs, op \in {"expire", "clear", "give_up"} : Each(R, op) \in Seq(S)
    BY <2>1, <2>2, EachIsASequence
  <2> QED BY <2>1, <2>2, <2>3, EmptySeq
<1>2. Repair \in Seq(S)
  <2>1. \A op \in {"scan", "audit_rows"} : StoreTask(op) \in Tasks /\ StoreTask(op).st = Fresh
                                           /\ StoreTask(op).base = Fresh
    BY FreshFacts DEF StoreTask, Task, Tasks, Ops
  <2>2. StoreTask("scan") \in S /\ StoreTask("audit_rows") \in S
    BY <2>1, StateFacts DEF WholeTasks, SeenWhole
  <2> QED BY <2>2 DEF Repair
<1>3. ASSUME Saves(h) \/ Clears(h) \/ (h = "startup" /\ StartsUp)
      PROVE  \E tasks \in Seq(S) : Instead(h, tasks)
  BY <1>1, <1>2, <1>3 DEF Saves, Clears, StartsUp
<1>4. CASE Scans(h)
  <2>1. Overdue \in SUBSET Runs
    BY DEF Overdue, Waiting
  <2> QED BY <1>1, <1>4, <2>1 DEF Scans
<1>5. CASE Expires(h) \/ GivesUp(h)
  <2> DEFINE st == [Loaded(Run(h)) EXCEPT !.status = "failed"]
  <2>1. PICK op \in {"expire", "give_up"} : Doing(h, op)
    BY <1>5 DEF Expires, GivesUp
  <2>2. Run(h) \in Runs
    BY <2>1, RunFacts DEF OfNoRun
  <2>3. st \in States /\ (st.filed => outbox[Run(h)] = "whole")
    <3>1. st \in States
      BY <2>2, LoadedFacts DEF Terminal
    <3>2. st.filed = row[Run(h)].filed
      BY DEF Loaded
    <3> QED BY <2>2, <3>1, <3>2 DEF AloneInv, Fits
  <2>4. \/ Instead(h, Snapshot(Run(h), st) \o <<Task("clear", Run(h), Fresh)>>)
        \/ Instead(h, Snapshot(Run(h), st))
    BY <1>5 DEF Expires, GivesUp
  <2> HIDE DEF st, S
  <2>5. Snapshot(Run(h), st) \in Seq(S)
    BY <2>2, <2>3, WholeFacts DEF S
  <2>6. <<Task("clear", Run(h), Fresh)>> \in Seq(S)
    BY <1>1, <2>2, Stacks
  <2>7. Snapshot(Run(h), st) \o <<Task("clear", Run(h), Fresh)>> \in Seq(S)
    BY <2>5, <2>6, ConcatProperties
  <2> QED BY <2>4, <2>5, <2>7 DEF S
<1>6. CASE AuditsRows(h)
  <2> DEFINE t == [Top(h) EXCEPT !.op = "audit_checkpoints", !.seen = Existing, !.waiting = Waiting]
  <2>1. todo[h] # <<>> /\ Instead(h, <<t>>)
    BY <1>6 DEF AuditsRows, Doing
  <2>2. Top(h) \in S
    BY <2>1, HeadTailProperties DEF AloneInv, Top
  <2>3. t \in S
    <3>1. Existing \in SUBSET Runs /\ Waiting \in SUBSET Runs /\ "audit_checkpoints" \in Ops
      BY DEF Existing, Waiting, Ops
    <3>2. t \in Tasks /\ t.st = Top(h).st /\ t.base = Top(h).base /\ t.run = Top(h).run
      BY <2>2, <3>1 DEF WholeTasks, Tasks
    <3> QED BY <2>2, <3>2 DEF WholeTasks, SeenWhole
  <2> HIDE DEF t
  <2> QED BY <2>1, <2>3, Stacks
<1>7. CASE AuditsCheckpoints(h)
  <2> DEFINE orphans  == WithCheckpoint \ Top(h).seen
             ended    == (WithCheckpoint \cap Top(h).seen) \ Top(h).waiting
             hopeless == Top(h).waiting \ WithCheckpoint
             a == Each(orphans, "clear")
             b == Each(ended, "clear")
             c == Each(hopeless, "give_up")
             ab == a \o b
  <2>1. Instead(h, ab \o c)
    BY <1>7 DEF AuditsCheckpoints
  <2>2. Top(h).waiting \in SUBSET Runs
    <3>1. Top(h) \in Tasks
      BY <1>7, TopFacts DEF AuditsCheckpoints
    <3> QED BY <3>1 DEF Tasks
  <2>3. orphans \in SUBSET Runs /\ ended \in SUBSET Runs /\ hopeless \in SUBSET Runs
    BY <2>2 DEF WithCheckpoint
  <2> HIDE DEF orphans, ended, hopeless
  <2>4. a \in Seq(S) /\ b \in Seq(S) /\ c \in Seq(S)
    BY <1>1, <2>3
  <2> HIDE DEF a, b, c, S
  <2>5. ab \in Seq(S)
    BY <2>4, ConcatProperties
  <2> HIDE DEF ab
  <2>6. ab \o c \in Seq(S)
    BY <2>4, <2>5, ConcatProperties
  <2> QED BY <2>1, <2>6 DEF S
<1> QED BY <1>3, <1>4, <1>5, <1>6, <1>7 DEF Store

(* A save makes its run fit, and the stack below it is tended.             *)
LEMMA SavesAlone ==
  ASSUME StoreInv, ClosedInv, AloneInv, NEW h \in Handlers, Saves(h)
  PROVE  AloneInv'
<1> DEFINE r == Run(h)
           st == Top(h).st
           tasks == <<>>
<1>1. /\ todo[h] # <<>> /\ Top(h).op = "save" /\ Instead(h, tasks)
      /\ checkpoint' = checkpoint /\ outbox' = outbox /\ used' = used
  BY DEF Saves, Doing, Top
<1>2. /\ r \in Runs /\ r \in used /\ row'[r].status = st.status /\ row'[r].filed = st.filed
      /\ Existing' = Existing \cup {r} /\ \A q \in Runs \ {r} : row'[q] = row[q]
  <2>1. r \in Runs
    BY SavesFacts
  <2>2. row'[r].filed = st.filed
    BY <2>1 DEF Saves, StoreInv
  <2> QED BY <2>2, SavesFacts
<1>3. Top(h) \in WholeTasks(outbox)
  BY <1>1, HeadTailProperties DEF AloneInv, Top
<1>4. st.filed => outbox[r] = "whole"
  BY <1>3 DEF WholeTasks, SeenWhole, Run
<1>5. tasks \in Seq(WholeTasks(outbox'))
  BY EmptySeq
<1>6. ASSUME st.status # "running", st.status = "waiting_hitl" => AtChief(checkpoint, r),
             st.status = "rejected" => outbox[r] = "none"
      PROVE  \A q \in Runs : Fits(q)'
  <2> SUFFICES ASSUME NEW q \in Runs PROVE Fits(q)'
    OBVIOUS
  <2>1. CASE q # r
    BY <1>1, <1>2, <2>1, StillFits DEF AloneInv
  <2>2. CASE q = r
    <3>1. Fits(r)
      BY <1>2 DEF AloneInv
    <3> QED BY <1>1, <1>2, <1>4, <1>6, <2>2, <3>1 DEF Fits, AtChief
  <2> QED BY <2>1, <2>2
<1> HIDE DEF tasks
<1>7. CASE Tended(todo[h])
  <2>1. Tended(todo[h])'
    BY <1>7, SavesTends DEF Tends
  <2>2. st.status = "failed"
    BY <1>1, <1>7, TendedTop DEF TidyTasks, Plain, Audits
  <2>3. \A q \in Runs : Fits(q)'
    BY <1>6, <2>2
  <2> QED BY <1>1, <1>5, <2>1, <2>3, AloneStep
<1>8. CASE Led(todo[h])
  <2> DEFINE s == todo[h]
             rest == Tail(s)
  <2>1. /\ s \in Seq(Tasks) /\ s # <<>> /\ Head(s) = Top(h) /\ Ordered(s, Waiting) /\ rest \in Seq(Plain)
        /\ st.status = "waiting_hitl" => \A t \in ToSet(rest) : ~Clearing(t)
    BY <1>1, <1>8, TendedTop DEF Led, Top
  <2>2. Leads("save", r, st, row, checkpoint, outbox)
    BY <1>1, <1>8 DEF Led, Lead, Top, Run
  <2>3. \A q \in Runs : Fits(q)'
    <3>1. /\ st.status # "running" /\ (st.status = "waiting_hitl" => AtChief(checkpoint, r))
          /\ st.status = "rejected" => outbox[r] = "none"
      BY <2>2 DEF Leads
    <3> QED BY <1>6, <3>1
  <2>4. /\ Waiting' \ Waiting \subseteq {r}
        /\ st.status # "waiting_hitl" => r \notin Waiting' /\ Waiting' \subseteq Waiting
    BY <1>2 DEF Waiting
  <2>5. \A q \in Waiting' : ~Closing(Head(s), q)
    BY <2>1, <2>4 DEF Closing, Run
  <2>6. \A t \in ToSet(rest) : Clearing(t) => t.run \notin Waiting' \ Waiting
    BY <2>1, <2>4
  <2>7. Ordered(rest, Waiting')
    BY <2>1, <2>5, <2>6, OrderedRest
  <2>8. rest \in Seq(TidyTasks(Sinking'))
    <3>1. Plain \subseteq TidyTasks(Sinking')
      BY DEF TidyTasks
    <3> QED BY <2>1, <3>1, SeqMonotonic
  <2>9. Piled(rest, TidyTasks(Sinking'), Audits(Existing', Waiting'))
    BY <2>8, HeadTailProperties, SeqMonotonic DEF Piled
  <2>10. todo'[h] = rest
    <3>1. <<>> \o rest = rest
      BY <2>8, ConcatEmptySeq
    <3> QED BY <1>1, <3>1 DEF Instead, StoreInv, tasks
  <2>11. Tended(todo[h])'
    BY <2>7, <2>9, <2>10 DEF Tended
  <2> QED BY <1>1, <1>5, <2>3, <2>11, AloneStep
<1> QED BY <1>1, <1>7, <1>8 DEF AloneInv

(* What is cleared waits no more; the rest of the housekeeping only looks. *)
LEMMA StoreAlone ==
  ASSUME StoreInv, ClosedInv, AloneInv, NEW h \in Handlers, Store(h) \/ (h = "startup" /\ StartsUp)
  PROVE  AloneInv'
<1>1. CASE Saves(h)
  BY <1>1, SavesAlone
<1>2. CASE ~Saves(h)
  <2>1. /\ todo[h] # <<>> /\ Top(h).op \notin Acting /\ row' = row /\ outbox' = outbox /\ used' = used
        /\ checkpoint' = checkpoint \/ Clears(h)
    BY <1>2 DEF Store, Scans, Expires, Clears, AuditsRows, AuditsCheckpoints, GivesUp, StartsUp, Doing,
       Top, stores, Acting, GraphOps
  <2>2. Tended(todo[h])
    BY <2>1 DEF AloneInv, Led, Lead, Top
  <2>3. Tended(todo[h])'
    BY <2>2, StoreTends, StartsUpTends DEF Tends
  <2>4. PICK tasks \in Seq(WholeTasks(outbox)) : Instead(h, tasks)
    BY StoreIsWhole
  <2>5. ASSUME NEW q \in Runs PROVE Fits(q)'
    <3>1. Fits(q)
      BY DEF AloneInv
    <3>2. CASE checkpoint'[q] = checkpoint[q]
      BY <2>1, <3>1, <3>2, StillFits
    <3>3. CASE checkpoint'[q] # checkpoint[q]
      <4>1. Clears(h) /\ checkpoint' = [checkpoint EXCEPT ![Run(h)] = NoCheckpoint] /\ Clearing(Top(h))
        BY <2>1, <3>3 DEF Clears, Doing, Top, Clearing
      <4>2. Run(h) \notin Waiting
        BY <2>1, <2>2, <4>1, TendedTop, OrderedTop DEF Tended, Top, Run
      <4>3. q = Run(h) /\ checkpoint'[q] = NoCheckpoint
        BY <3>3, <4>1 DEF StoreInv
      <4>4. NoCheckpoint.at = "none" /\ ~NoCheckpoint.st.filed
        BY StateFacts DEF NoCheckpoint
      <4> QED BY <2>1, <3>1, <4>2, <4>3, <4>4 DEF Fits, AtChief, Waiting
    <3> QED BY <3>2, <3>3
  <2> QED BY <2>1, <2>3, <2>4, <2>5, AloneStep
<1> QED BY <1>1, <1>2

-----------------------------------------------------------------------------
(* Requests, one at a time.                                                *)

(* A request that is taken finds every stack empty, and starts its own.    *)
LEMMA AcceptsAlone ==
  ASSUME OneThread, StoreInv, AloneInv, NEW h \in Threads, NEW tasks \in Seq(WholeTasks(outbox)),
         Accepts(h, tasks), UNCHANGED stores, used \subseteq used',
         \/ tasks \in Seq(TidyTasks(Sinking)) /\ Ordered(tasks, Waiting)
         \/ Led(tasks)
  PROVE  AloneInv'
<1>1. /\ h \in Handlers /\ \A g \in Handlers : g = h \/ g = "startup"
      /\ todo'[h] = tasks /\ \A g \in Handlers \ {h} : todo'[g] = todo[g] /\ todo[g] = <<>>
  BY DEF Handlers, OneThread, Accepts, Serving, StoreInv
<1>2. row' = row /\ checkpoint' = checkpoint /\ outbox' = outbox
  BY DEF stores
<1>3. \A q \in Runs : Fits(q)'
  BY <1>2, StillFits DEF AloneInv
<1>4. /\ Sinking' = Sinking /\ Waiting' = Waiting /\ Existing' = Existing /\ Lead' = Lead
  BY <1>2 DEF Sinking, Waiting, Existing, Lead
<1>5. (Tended(todo[h]) \/ Led(todo[h]))'
  <2>1. CASE tasks \in Seq(TidyTasks(Sinking)) /\ Ordered(tasks, Waiting)
    <3>1. Piled(tasks, TidyTasks(Sinking), Audits(Existing, Waiting))
      BY <2>1, HeadTailProperties, SeqMonotonic DEF Piled
    <3> QED BY <1>1, <1>4, <2>1, <3>1 DEF Tended
  <2>2. CASE Led(tasks)
    BY <1>1, <1>4, <2>2 DEF Led
  <2> QED BY <2>1, <2>2
<1>6. (\A f, g \in Handlers : todo[f] # <<>> /\ todo[g] # <<>> => f = g)'
  BY <1>1
<1>7. ASSUME NEW g \in Handlers, todo'[g] # <<>>
      PROVE  (Tended(todo[g]) \/ Led(todo[g]))' /\ todo'[g] \in Seq(WholeTasks(outbox'))
  <2>1. g = h
    BY <1>1, <1>7
  <2> QED BY <1>1, <1>2, <1>5, <2>1
<1> QED BY <1>3, <1>6, <1>7 DEF AloneInv

(* The one task of a new request leads its run.                            *)
LEMMA LedAlone ==
  ASSUME NEW t \in Tasks, t.op \in GraphOps, t.run \in Runs, SeenWhole(t, outbox),
         Leads(t.op, t.run, t.st, row, checkpoint, outbox)
  PROVE  <<t>> \in Seq(WholeTasks(outbox)) /\ Led(<<t>>)
<1> DEFINE s == <<t>>
<1>1. t \in Lead /\ ~Clearing(t) /\ t \in WholeTasks(outbox)
  BY DEF Lead, Acting, Clearing, GraphOps, WholeTasks
<1>2. /\ s # <<>> /\ Head(s) = t /\ Tail(s) = <<>> /\ s \in Seq(Tasks) /\ ToSet(s) = {t}
      /\ s \in Seq(WholeTasks(outbox)) /\ <<>> \in Seq(Plain) /\ ToSet(<<>>) = {}
  BY <1>1, EmptySeq DEF ToSet
<1> HIDE DEF s
<1>3. Ordered(s, Waiting)
  BY <1>1, <1>2, OrderedHarmless
<1>4. Led(s)
  BY <1>1, <1>2, <1>3 DEF Led
<1> QED BY <1>2, <1>4 DEF s

(* Every request.                                                          *)
LEMMA RequestAlone ==
  ASSUME OneThread, StoreInv, ClosedInv, AloneInv, NEW h \in Threads, Request(h)
  PROVE  AloneInv'
<1>1. ASSUME NEW r \in Runs \ used, used' = used \cup {r}, UNCHANGED stores,
             NEW t \in Tasks, t.op = "begin", t.run = r, ~t.st.filed, ~t.base.filed, Accepts(h, <<t>>)
      PROVE  AloneInv'
  <2>1. row[r].status = "none" /\ outbox[r] = "none"
    BY DEF ClosedInv, Existing, AloneInv, Fits
  <2>2. Leads(t.op, t.run, t.st, row, checkpoint, outbox)
    BY <1>1, <2>1 DEF Leads, Open, Writing
  <2> DEFINE tasks == <<t>>
  <2>3. tasks \in Seq(WholeTasks(outbox)) /\ Led(tasks)
    BY <1>1, <2>2, LedAlone DEF SeenWhole, GraphOps
  <2>4. Accepts(h, tasks)
    BY <1>1
  <2> HIDE DEF tasks
  <2> QED BY <1>1, <2>3, <2>4, AcceptsAlone
<1>2. CASE CreateRun(h)
  <2>1. PICK r \in Runs \ used : used' = used \cup {r} /\ Accepts(h, <<Task("begin", r, Fresh)>>)
    BY <1>2 DEF CreateRun
  <2>2. UNCHANGED stores
    BY <1>2 DEF CreateRun
  <2> DEFINE t == Task("begin", r, Fresh)
  <2>3. t \in Tasks /\ t.op = "begin" /\ t.run = r /\ ~t.st.filed /\ ~t.base.filed
    BY StateFacts DEF Task, Tasks, Ops
  <2> HIDE DEF t
  <2> QED BY <1>1, <2>1, <2>2, <2>3 DEF t
<1>3. CASE ValidatePlaybook(h)
  <2>1. PICK r \in Runs \ used :
          used' = used \cup {r} /\ Accepts(h, <<[Task("begin", r, Fresh) EXCEPT !.keep = FALSE]>>)
    BY <1>3 DEF ValidatePlaybook
  <2>2. UNCHANGED stores
    BY <1>3 DEF ValidatePlaybook
  <2> DEFINE t == [Task("begin", r, Fresh) EXCEPT !.keep = FALSE]
  <2>3. t \in Tasks /\ t.op = "begin" /\ t.run = r /\ ~t.st.filed /\ ~t.base.filed
    BY StateFacts DEF Task, Tasks, Ops
  <2> HIDE DEF t
  <2> QED BY <1>1, <2>1, <2>2, <2>3 DEF t
<1>4. CASE DecideHitl(h)
  <2>1. PICK r \in Waiting, d \in {"approve", "reject", "return"} :
          Accepts(h, <<Task("check", r, [Loaded(r) EXCEPT !.decision = d])>>)
    BY <1>4 DEF DecideHitl
  <2> DEFINE st == [Loaded(r) EXCEPT !.decision = d]
             t == Task("check", r, st)
             tasks == <<t>>
  <2>2. UNCHANGED stores /\ used' = used
    BY <1>4 DEF DecideHitl
  <2>3. r \in Runs /\ row[r].status = "waiting_hitl" /\ Fits(r)
    BY DEF Waiting, AloneInv
  <2>4. st \in States /\ st.filed = row[r].filed
    <3>1. Loaded(r) \in States /\ d \in {"none", "approve", "reject", "return"}
      BY <2>3, LoadedFacts
    <3>2. Loaded(r).filed = row[r].filed
      BY DEF Loaded
    <3> QED BY <3>1, <3>2, StateFacts
  <2>5. Accepts(h, tasks)
    BY <2>1
  <2> HIDE DEF st
  <2>6. t \in Tasks /\ t.op = "check" /\ t.run = r /\ t.st = st /\ t.base = st
    BY <2>3, <2>4 DEF Task, Tasks, Ops
  <2> HIDE DEF t
  <2>7. Leads(t.op, t.run, t.st, row, checkpoint, outbox) /\ SeenWhole(t, outbox)
    BY <2>3, <2>4, <2>6 DEF Leads, Open, Writing, SeenWhole, Fits
  <2>8. tasks \in Seq(WholeTasks(outbox)) /\ Led(tasks)
    BY <2>3, <2>6, <2>7, LedAlone DEF GraphOps
  <2> HIDE DEF tasks
  <2> QED BY <2>2, <2>5, <2>8, AcceptsAlone
<1>5. CASE CancelRun(h)
  <2>1. PICK r \in Existing :
          Accepts(h, Snapshot(r, [Loaded(r) EXCEPT !.status = "cancelled"]) \o <<Task("clear", r, Fresh)>>)
    BY <1>5 DEF CancelRun
  <2> DEFINE st == [Loaded(r) EXCEPT !.status = "cancelled"]
             save == Task("save", r, st)
             clear == Task("clear", r, Fresh)
             tasks == Snapshot(r, st) \o <<clear>>
  <2>2. UNCHANGED stores /\ used' = used /\ Accepts(h, tasks)
    BY <1>5, <2>1 DEF CancelRun
  <2>3. r \in Runs /\ row[r].status # "none" /\ Fits(r)
    BY DEF Existing, AloneInv
  <2>4. st \in States /\ st.status = "cancelled" /\ (st.filed => outbox[r] = "whole")
    <3>1. st \in States
      BY <2>3, LoadedFacts DEF Terminal
    <3>2. st.filed = row[r].filed /\ st.status = "cancelled"
      BY DEF Loaded
    <3> QED BY <2>3, <3>1, <3>2 DEF Fits
  <2> HIDE DEF st
  <2>5. /\ save \in Tasks /\ save.op = "save" /\ save.run = r /\ save.st = st
        /\ clear.run = r /\ clear \in Plain
    BY <2>3, <2>4, FreshFacts, TidyFacts DEF Task, Tasks, Ops
  <2>6. save \in Lead
    BY <2>3, <2>4, <2>5 DEF Lead, Leads, Acting, Writing
  <2>7. save \in WholeTasks(outbox) /\ clear \in WholeTasks(outbox) /\ StoreTask("scan") \in WholeTasks(outbox)
    BY <2>3, <2>4, WholeFacts DEF Ops
  <2> HIDE DEF clear
  <2>8. /\ tasks \in Seq(Tasks) /\ Ordered(tasks, Waiting)
        /\ ToSet(tasks) = {save, StoreTask("scan"), clear}
        /\ tasks # <<>> /\ Head(tasks) = save /\ Tail(tasks) \in Seq(Plain)
    BY <2>3, <2>4, <2>5, SnapshotThenClear
  <2> HIDE DEF tasks, save
  <2>9. tasks \in Seq(WholeTasks(outbox))
    BY <2>7, <2>8, StackOf
  <2>10. Led(tasks)
    BY <2>4, <2>5, <2>6, <2>8 DEF Led, GraphOps
  <2> QED BY <2>2, <2>9, <2>10, AcceptsAlone
<1>6. CASE PersistenceRepair(h)
  <2>1. Accepts(h, Repair) /\ UNCHANGED stores /\ used' = used
    BY <1>6 DEF PersistenceRepair
  <2>2. Repair \in Seq(WholeTasks(outbox))
    <3>1. \A op \in {"scan", "audit_rows"} : StoreTask(op) \in Tasks /\ StoreTask(op).st = Fresh
                                             /\ StoreTask(op).base = Fresh
      BY FreshFacts DEF StoreTask, Task, Tasks, Ops
    <3>2. StoreTask("scan") \in WholeTasks(outbox) /\ StoreTask("audit_rows") \in WholeTasks(outbox)
      BY <3>1, StateFacts DEF WholeTasks, SeenWhole
    <3> QED BY <3>2 DEF Repair
  <2> QED BY <2>1, <2>2, RepairIsTidy, AcceptsAlone
<1> QED BY <1>2, <1>3, <1>4, <1>5, <1>6 DEF Request

(* A wait that grows too old is still a wait, and a crash leaves only the  *)
(* startup.                                                                *)
LEMMA WorldAlone ==
  ASSUME StoreInv, ClosedInv, AloneInv, Ages \/ Crashes
  PROVE  AloneInv'
<1>1. CASE Ages
  <2>1. PICK r \in Waiting : row' = [row EXCEPT ![r].overdue = TRUE]
    BY <1>1 DEF Ages
  <2>2. \A q \in Runs : row'[q].status = row[q].status /\ row'[q].filed = row[q].filed
    BY <2>1 DEF StoreInv, Waiting
  <2>3. checkpoint' = checkpoint /\ outbox' = outbox /\ todo' = todo /\ used' = used
    BY <1>1 DEF Ages
  <2>4. \A q \in Runs : Fits(q)'
    BY <2>2, <2>3, StillFits DEF AloneInv
  <2>5. /\ Sinking' = Sinking /\ Waiting' = Waiting /\ Existing' = Existing
        /\ \A q \in Runs : Open(row', q) = Open(row, q)
    BY <2>2 DEF Sinking, Waiting, Existing, Open
  <2>6. Lead' = Lead
    BY <2>2, <2>3, <2>5 DEF Lead, Leads
  <2> QED BY <2>3, <2>4, <2>5, <2>6 DEF AloneInv, Tended, Led
<1>2. CASE Crashes
  <2>1. /\ Tended(todo["startup"])' /\ todo'["startup"] = <<StoreTask("startup")>>
        /\ \A h \in Handlers \ {"startup"} : todo'[h] = <<>>
    BY <1>2, CrashTends
  <2>2. row' = row /\ checkpoint' = checkpoint /\ outbox' = outbox /\ used' = used
    BY <1>2 DEF Crashes, stores
  <2>3. \A q \in Runs : Fits(q)'
    BY <2>2, StillFits DEF AloneInv
  <2>4. StoreTask("startup") \in WholeTasks(outbox')
    <3>1. StoreTask("startup") \in Tasks /\ StoreTask("startup").st = Fresh
          /\ StoreTask("startup").base = Fresh
      BY FreshFacts DEF StoreTask, Task, Tasks, Ops
    <3> QED BY <3>1, StateFacts DEF WholeTasks, SeenWhole
  <2>5. todo'["startup"] \in Seq(WholeTasks(outbox'))
    BY <2>1, <2>4, Stacks
  <2>6. \A h \in Handlers : todo'[h] # <<>> => h = "startup"
    BY <2>1
  <2> QED BY <2>1, <2>3, <2>5, <2>6 DEF AloneInv
<1> QED BY <1>1, <1>2

(* All of the steps together.                                              *)
LEMMA StepAlone == OneThread /\ StoreInv /\ ClosedInv /\ AloneInv /\ [Next]_vars => AloneInv'
<1> SUFFICES ASSUME OneThread, StoreInv, ClosedInv, AloneInv, [Next]_vars PROVE AloneInv'
  OBVIOUS
<1>1. Threads \subseteq Handlers /\ "startup" \in Handlers
  BY DEF Handlers
<1>2. ASSUME NEW h \in Threads, Request(h) \/ Work(h) PROVE AloneInv'
  BY <1>1, <1>2, RequestAlone, GraphAlone, StoreAlone DEF Work
<1>3. CASE StartsUp \/ Store("startup") \/ Ages \/ Crashes
  BY <1>1, <1>3, StoreAlone, WorldAlone
<1>4. CASE UNCHANGED vars
  <2>1. UNCHANGED <<row, checkpoint, outbox, todo, used>>
    BY <1>4 DEF vars
  <2>2. UNCHANGED <<Sinking, Existing, Waiting>>
    BY <2>1 DEF Sinking, Existing, Waiting
  <2>3. UNCHANGED Lead
    BY <2>1 DEF Lead, Leads, Open, AtChief
  <2>4. ASSUME NEW h \in Handlers
        PROVE  (Tended(todo[h]) \/ Led(todo[h]))' <=> (Tended(todo[h]) \/ Led(todo[h]))
    BY <2>1, <2>2, <2>3 DEF Tended, Led
  <2>5. ASSUME NEW r \in Runs PROVE Fits(r)' <=> Fits(r)
    BY <2>1 DEF Fits, AtChief
  <2> QED BY <2>1, <2>4, <2>5 DEF AloneInv
<1> QED BY <1>2, <1>3, <1>4 DEF Next

(* At first nothing works and nothing is stored.                           *)
LEMMA InitAlone == Init => AloneInv
<1> SUFFICES ASSUME Init PROVE AloneInv
  OBVIOUS
<1>1. \A h \in Handlers : todo[h] = <<>>
  BY DEF Init
<1>2. ASSUME NEW r \in Runs PROVE Fits(r)
  <2>1. /\ row[r].status = "none" /\ ~row[r].filed
        /\ checkpoint[r].at = "none" /\ ~checkpoint[r].st.filed /\ outbox[r] = "none"
    BY StateFacts DEF Init, NoRow, NoCheckpoint
  <2> QED BY <2>1 DEF Fits, AtChief
<1> QED BY <1>1, <1>2 DEF AloneInv

-----------------------------------------------------------------------------
(* What the one handler can rely on.  These theorems are about a service   *)
(* with one request thread, as the run store_crash checks it: with two,    *)
(* the runs that expect a violation refute the first two of them.          *)

(* While one request is served at a time, whoever works tends to the       *)
(* stores or leads one run and knows how it stands in all three of them    *)
(* (main.py, runner.py, tracing/store.py).                                 *)
THEOREM OneAtATime ==
  ASSUME OneThread
  PROVE  Spec => []AloneInv
<1>1. StoreInv /\ ClosedInv /\ AloneInv /\ [Next]_vars => AloneInv'
  BY StepAlone
<1> QED BY <1>1, InitAlone, StoresAreSafe, GraphsOfClosedRunsAreDone, PTL DEF Spec

(* A rejected run has no file in the outbox, wherever the process crashed  *)
(* between the file, the checkpoint and the row (policy/gates.py           *)
(* POL-HITL-REJECT).                                                       *)
THEOREM RejectedRunsAreNotFiled ==
  ASSUME OneThread
  PROVE  Spec => []RejectedIsNotFiled
<1>1. AloneInv => RejectedIsNotFiled
  BY DEF AloneInv, Fits, RejectedIsNotFiled, Filed
<1> QED BY <1>1, OneAtATime, PTL

(* A run that waits for the chief can be resumed: its checkpoint is there, *)
(* whatever was repaired, expired or cancelled, and wherever the process   *)
(* crashed (ARCHITECTURE.md, the chief's confirmation).                    *)
THEOREM WaitsAreResumable ==
  ASSUME OneThread
  PROVE  Spec => []WaitingIsResumable
<1>1. AloneInv => WaitingIsResumable
  BY DEF AloneInv, Fits, WaitingIsResumable, Waiting, WithCheckpoint
<1> QED BY <1>1, OneAtATime, PTL

(* A row that names a ticket has a file that can be read, although the     *)
(* file is opened, filled and noted in three steps and the process may     *)
(* die between any two (FileOutboxDestination.submit, runner._persist).    *)
THEOREM TicketsAreWhole ==
  ASSUME OneThread
  PROVE  Spec => []NoPhantomTicket
<1>1. AloneInv => NoPhantomTicket
  BY DEF AloneInv, Fits, NoPhantomTicket
<1> QED BY <1>1, OneAtATime, PTL

-----------------------------------------------------------------------------
(* The life of a run as its callers see it (RunLifecycle).                 *)

(* A save closes an open run, lets a new one wait, cancels a run that has  *)
(* a row, or says again that it failed.                                    *)
LEMMA SavesLive ==
  ASSUME StoreInv, ClosedInv, AloneInv, NEW h \in Handlers, Saves(h)
  PROVE  [Lifecycle!Next]_Lifecycle!lifecycle
<1>1. PICK r \in Runs : r = Run(h)
  BY SavesFacts
<1> DEFINE st == Top(h).st
           S == [q \in Runs |-> row[q].status]
           how == st.status
<1>2. todo[h] # <<>> /\ Top(h).op = "save" /\ outbox' = outbox
  BY DEF Saves, Doing, Top
<1>3. /\ row'[r].status = how /\ Fits(r)
      /\ \A q \in Runs \ {r} : row'[q] = row[q]
  BY <1>1, SavesFacts DEF AloneInv
<1>4. Filed' = Filed
  BY <1>2 DEF Filed
<1>5. S' = [S EXCEPT ![r] = how] /\ S[r] = row[r].status
  BY <1>3
<1>6. r \in Filed <=> outbox[r] # "none"
  BY <1>3 DEF Filed
<1>7. CASE Tended(todo[h])
  <2>1. r \in Sinking /\ how = "failed"
    BY <1>2, <1>1, <1>7, TendedTop DEF TidyTasks, Plain, Audits, Run
  <2>2. CASE S[r] = "waiting_hitl"
    <3>1. Lifecycle!Close(r)
      BY <1>4, <1>5, <2>1, <2>2 DEF Lifecycle!Close, Lifecycle!Closed
    <3> QED BY <3>1 DEF Lifecycle!Next
  <2>3. CASE S[r] = "failed"
    BY <1>3, <1>4, <1>5, <2>1, <2>3 DEF Lifecycle!lifecycle
  <2> QED BY <1>5, <2>1, <2>2, <2>3 DEF Sinking
<1>8. CASE Led(todo[h])
  <2>1. Leads("save", r, st, row, checkpoint, outbox)
    BY <1>2, <1>1, <1>8 DEF Led, Lead, Top, Run
  <2>2. CASE Open(row, r) /\ how \in {"succeeded", "failed", "rejected"}
    <3>1. how = "rejected" => r \notin Filed
      BY <1>6, <2>1 DEF Leads
    <3>2. Lifecycle!Close(r)
      BY <1>4, <1>5, <2>2, <3>1 DEF Lifecycle!Close, Lifecycle!Closed, Open
    <3> QED BY <3>2 DEF Lifecycle!Next
  <2>3. CASE row[r].status = "none" /\ how = "waiting_hitl" /\ AtChief(checkpoint, r)
    <3>1. r \notin Filed
      BY <1>3, <1>6, <2>3 DEF Fits
    <3>2. Lifecycle!Wait(r)
      BY <1>4, <1>5, <2>3, <3>1 DEF Lifecycle!Wait
    <3> QED BY <3>2 DEF Lifecycle!Next
  <2>4. CASE row[r].status # "none" /\ how = "cancelled"
    <3>1. Lifecycle!Cancel(r)
      BY <1>4, <1>5, <2>4 DEF Lifecycle!Cancel
    <3> QED BY <3>1 DEF Lifecycle!Next
  <2> QED BY <2>1, <2>2, <2>3, <2>4 DEF Leads
<1> QED BY <1>2, <1>7, <1>8 DEF AloneInv

(* The submit node files an open run that has no ticket yet; that the text *)
(* follows changes nothing for the caller.                                 *)
LEMMA FilesLive ==
  ASSUME StoreInv, ClosedInv, AloneInv, NEW h \in Handlers, GraphOpensFile(h) \/ GraphFiles(h), row' = row
  PROVE  [Lifecycle!Next]_Lifecycle!lifecycle
<1> DEFINE r == Run(h)
           S == [q \in Runs |-> row[q].status]
<1>1. S' = S
  OBVIOUS
<1>2. CASE GraphOpensFile(h)
  <2>1. Doing(h, "write") /\ "write" \in GraphOps /\ outbox' = [outbox EXCEPT ![r] = "cut"]
    BY <1>2 DEF GraphOpensFile, GraphOps
  <2>2. r \in Runs /\ Open(row, r) /\ outbox[r] = "none"
    BY <2>1, LedFacts DEF Leads
  <2>3. Filed' = Filed \cup {r} /\ r \notin Filed
    BY <2>1, <2>2 DEF Filed, StoreInv
  <2>4. Lifecycle!File(r)
    BY <1>1, <2>2, <2>3 DEF Lifecycle!File, Open
  <2> QED BY <2>2, <2>4 DEF Lifecycle!Next
<1>3. CASE GraphFiles(h)
  <2>1. Doing(h, "close") /\ "close" \in GraphOps /\ outbox' = [outbox EXCEPT ![r] = "whole"]
    BY <1>3 DEF GraphFiles, GraphOps
  <2>2. r \in Runs /\ outbox[r] = "cut"
    BY <2>1, LedFacts DEF Leads
  <2>3. Filed' = Filed
    BY <2>1, <2>2 DEF Filed, StoreInv
  <2> QED BY <1>1, <2>3 DEF Lifecycle!lifecycle
<1> QED BY <1>2, <1>3

(* The three stores, written one after the other by a handler that may die *)
(* in between, implement the life of a run that a caller is promised: it   *)
(* waits at most once, is filed at most once and only while it is open, is *)
(* not filed when it is rejected, and once closed is only ever cancelled.  *)
THEOREM RunsLiveAsPromised ==
  ASSUME OneThread
  PROVE  Spec => ImplementsLifecycle
<1>1. Init => Lifecycle!Init
  BY DEF Init, Lifecycle!Init, NoRow, Filed
<1>2. StoreInv /\ ClosedInv /\ AloneInv /\ [Next]_vars => [Lifecycle!Next]_Lifecycle!lifecycle
  <2> SUFFICES ASSUME StoreInv, ClosedInv, AloneInv, [Next]_vars
               PROVE  [Lifecycle!Next]_Lifecycle!lifecycle
    OBVIOUS
  <2>1. CASE row' = row /\ outbox' = outbox
    BY <2>1 DEF Lifecycle!lifecycle, Filed
  <2>2. CASE Ages
    <3>1. (\A r \in Runs : row'[r].status = row[r].status) /\ outbox' = outbox
      BY <2>2, AgesIsQuiet DEF Ages
    <3> QED BY <3>1 DEF Lifecycle!lifecycle, Filed
  <2> QED BY <2>1, <2>2, WhoWrites, SavesLive, FilesLive
<1> QED BY <1>1, <1>2, StoresAreSafe, GraphsOfClosedRunsAreDone, OneAtATime, PTL
        DEF Spec, ImplementsLifecycle, Lifecycle!Spec

=============================================================================
