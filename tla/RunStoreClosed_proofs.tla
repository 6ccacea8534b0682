------------------------- MODULE RunStoreClosed_proofs -------------------------
(***************************************************************************)
(* A run that has closed never asks the chief again, for every set of runs *)
(* and of threads, and however many requests, overdue waits, crashes and   *)
(* exceptions there are.                                                   *)
(***************************************************************************)
EXTENDS RunStore_proofs

-----------------------------------------------------------------------------
(* The tasks that can bring a run to its row.                              *)

GraphOps == {"begin", "check", "resume", "decided", "file", "write", "close", "filed", "snapshot"}
Acting == GraphOps \cup {"save"}

(* What may lie below the top of a stack: the work of no graph, and no     *)
(* save but of a closed or running state over a row that is there.         *)
QuietTasks(ex) ==
  {t \in Tasks :
     /\ t.op \notin GraphOps
     /\ t.op = "save" => t.run \in ex /\ t.st.status # "waiting_hitl"
     /\ t.op \in {"expire", "give_up"} => t.run \in ex
     /\ t.op = "audit_checkpoints" => t.waiting \subseteq ex}

(* The graph of the run stands before the chief's node.                    *)
AtChief(cps, r) == cps[r].at = "human"

(* What else may be on top of one: a graph, or the save that ends it.  It  *)
(* asks the chief only as long as its run has no row, and the run of a     *)
(* validation never gets one.                                              *)
FrontTasks(ex, cps, us) ==
  {t \in Tasks :
     /\ t.op \in Acting /\ t.run \in Runs /\ t.run \in us
     /\ t.op = "begin" \/ ~t.keep => t.run \notin ex
     /\ t.op \in Carrying => t.run \in ex
     /\ t.op \in Writing \cup {"filed"} => t.st.status # "waiting_hitl"
     /\ t.op = "snapshot" /\ (AtChief(cps, t.run) \/ t.st.status = "waiting_hitl") => t.run \notin ex
     /\ t.op = "save" /\ t.st.status = "waiting_hitl" => t.run \notin ex}

(* At most one handler works on a run without a row: the one that made it. *)
Creating(h, r) == todo[h] # <<>> /\ Top(h).op \in Acting /\ Run(h) = r /\ r \notin Existing

ClosedInv ==
  /\ \A h \in Handlers : todo[h] # <<>> =>
       /\ Top(h) \in QuietTasks(Existing) \cup FrontTasks(Existing, checkpoint, used)
       /\ Tail(todo[h]) \in Seq(QuietTasks(Existing))
  /\ Existing \subseteq used
  /\ \A r \in Runs : checkpoint[r].at \in {"run", "end"} => checkpoint[r].st.status # "waiting_hitl"
  /\ \A g, h \in Handlers, r \in Runs : Creating(g, r) /\ Creating(h, r) => g = h

-----------------------------------------------------------------------------
(* Piling tasks on a stack.                                                *)

(* The top of a pile is the top of what was put on it.                     *)
LEMMA PiledUp ==
  ASSUME NEW S, NEW s \in Seq(S), s # <<>>, NEW rest \in Seq(S)
  PROVE  /\ s \o rest # <<>>
         /\ Head(s \o rest) = Head(s)
         /\ Tail(s \o rest) = Tail(s) \o rest
<1>1. /\ Len(s) \in Nat \ {0} /\ Len(rest) \in Nat /\ Head(s) = s[1]
      /\ s \o rest \in Seq(S) /\ Len(s \o rest) = Len(s) + Len(rest)
      /\ \A i \in 1 .. Len(s) + Len(rest) :
           (s \o rest)[i] = IF i <= Len(s) THEN s[i] ELSE rest[i - Len(s)]
  BY EmptySeq, LenProperties, ConcatProperties
<1>2. s \o rest # <<>> /\ Head(s \o rest) = Head(s)
  BY <1>1
<1>3. /\ Tail(s) \in Seq(S) /\ Len(Tail(s)) = Len(s) - 1
      /\ \A i \in 1 .. Len(Tail(s)) : Tail(s)[i] = s[i + 1]
  BY HeadTailProperties
<1>4. /\ Tail(s \o rest) \in Seq(S) /\ Len(Tail(s \o rest)) = Len(s) + Len(rest) - 1
      /\ \A i \in 1 .. Len(Tail(s \o rest)) : Tail(s \o rest)[i] = (s \o rest)[i + 1]
  BY <1>1, <1>2, HeadTailProperties
<1>5. /\ Tail(s) \o rest \in Seq(S) /\ Len(Tail(s) \o rest) = Len(s) - 1 + Len(rest)
      /\ \A i \in 1 .. Len(s) - 1 + Len(rest) :
           (Tail(s) \o rest)[i] = IF i <= Len(s) - 1 THEN Tail(s)[i] ELSE rest[i - (Len(s) - 1)]
  BY <1>3, ConcatProperties
<1>6. Len(Tail(s \o rest)) = Len(Tail(s) \o rest)
  BY <1>1, <1>4, <1>5
<1>7. \A i \in 1 .. Len(Tail(s \o rest)) : Tail(s \o rest)[i] = (Tail(s) \o rest)[i]
  BY <1>1, <1>3, <1>4, <1>5
<1>8. Tail(s \o rest) = Tail(s) \o rest
  BY <1>4, <1>5, <1>6, <1>7, SeqEqual
<1> QED BY <1>2, <1>8

(* A stack whose tasks but the top one are in S.                           *)
Piled(s, S, F) == s \in Seq(S \cup F) /\ (s # <<>> => Tail(s) \in Seq(S))

(* One task, or two, make one;                                             *)
LEMMA ShortPiles ==
  ASSUME NEW S, NEW F, NEW a \in S \cup F
  PROVE  /\ Piled(<<>>, S, F)
         /\ Piled(<<a>>, S, F) /\ <<a>> # <<>> /\ Head(<<a>>) = a
         /\ \A b \in S : Piled(<<a, b>>, S, F) /\ <<a, b>> # <<>> /\ Head(<<a, b>>) = a
<1>1. /\ <<a>> \in Seq(S \cup F) /\ Tail(<<a>>) = <<>> /\ <<a>> # <<>> /\ Head(<<a>>) = a
      /\ \A b \in S : /\ <<a, b>> \in Seq(S \cup F) /\ <<a, b>> # <<>>
                      /\ Tail(<<a, b>>) = <<b>> /\ <<b>> \in Seq(S) /\ Head(<<a, b>>) = a
  OBVIOUS
<1> QED BY <1>1, EmptySeq DEF Piled

(* so do tasks that are all in S, and more of these below another stack.   *)
LEMMA PileOn ==
  ASSUME NEW S, NEW F, NEW s, Piled(s, S, F), NEW rest \in Seq(S)
  PROVE  /\ Piled(rest, S, F)
         /\ Piled(s \o rest, S, F)
         /\ s # <<>> => s \o rest # <<>> /\ Head(s \o rest) = Head(s)
         /\ s = <<>> => s \o rest = rest
<1>1. s \in Seq(S \cup F) /\ rest \in Seq(S \cup F)
  BY SeqMonotonic DEF Piled
<1>2. Piled(rest, S, F)
  BY <1>1, HeadTailProperties DEF Piled
<1>3. s \o rest \in Seq(S \cup F)
  BY <1>1, ConcatProperties
<1>4. ASSUME s # <<>>
      PROVE  Piled(s \o rest, S, F) /\ s \o rest # <<>> /\ Head(s \o rest) = Head(s)
  <2>1. s \o rest # <<>> /\ Head(s \o rest) = Head(s) /\ Tail(s \o rest) = Tail(s) \o rest
    BY <1>1, <1>4, PiledUp
  <2>2. Tail(s) \o rest \in Seq(S)
    BY <1>4, ConcatProperties DEF Piled
  <2> QED BY <1>3, <2>1, <2>2 DEF Piled
<1>5. s = <<>> => s \o rest = rest
  BY <1>1, ConcatEmptySeq
<1> QED BY <1>2, <1>4, <1>5

(* The tasks of the housekeeping may lie anywhere.                         *)
LEMMA QuietFacts ==
  ASSUME NEW ex, NEW r \in Runs, NEW st \in States
  PROVE  /\ StoreTask("scan") \in QuietTasks(ex) /\ StoreTask("audit_rows") \in QuietTasks(ex)
         /\ StoreTask("startup") \in QuietTasks(ex)
         /\ Task("clear", r, st) \in QuietTasks(ex) /\ Task("clear_terminal", r, st) \in QuietTasks(ex)
         /\ r \in ex => /\ Task("expire", r, st) \in QuietTasks(ex)
                        /\ Task("give_up", r, st) \in QuietTasks(ex)
         /\ r \in ex /\ st.status # "waiting_hitl" => Task("save", r, st) \in QuietTasks(ex)
<1>1. \A op \in Ops, x \in Runs \cup {"all"}, u \in States :
        /\ Task(op, x, u) \in Tasks /\ Task(op, x, u).op = op /\ Task(op, x, u).run = x
        /\ Task(op, x, u).st = u /\ Task(op, x, u).waiting = {}
  BY DEF Task, Tasks
<1>2. \A op \in Ops \ (Acting \cup {"expire", "give_up", "audit_checkpoints"}),
        x \in Runs \cup {"all"}, u \in States : Task(op, x, u) \in QuietTasks(ex)
  BY <1>1 DEF QuietTasks, Acting
<1>3. {"scan", "audit_rows", "startup", "clear", "clear_terminal"}
        \subseteq Ops \ (Acting \cup {"expire", "give_up", "audit_checkpoints"})
  BY DEF Ops, Acting, GraphOps
<1>4. Fresh \in States
  BY StateFacts
<1>5. /\ StoreTask("scan") \in QuietTasks(ex) /\ StoreTask("audit_rows") \in QuietTasks(ex)
      /\ StoreTask("startup") \in QuietTasks(ex)
      /\ Task("clear", r, st) \in QuietTasks(ex) /\ Task("clear_terminal", r, st) \in QuietTasks(ex)
  BY <1>2, <1>3, <1>4 DEF StoreTask
<1>6. {"expire", "give_up", "save"} \subseteq Ops \ (GraphOps \cup {"audit_checkpoints"})
  BY DEF Ops, GraphOps
<1>7. r \in ex => Task("expire", r, st) \in QuietTasks(ex) /\ Task("give_up", r, st) \in QuietTasks(ex)
  BY <1>1, <1>6 DEF QuietTasks
<1>8. r \in ex /\ st.status # "waiting_hitl" => Task("save", r, st) \in QuietTasks(ex)
  BY <1>1, <1>6 DEF QuietTasks
<1> QED BY <1>5, <1>7, <1>8

(* More rows only allow more of it.                                        *)
LEMMA QuietMonotone ==
  ASSUME NEW a, NEW b, a \subseteq b
  PROVE  QuietTasks(a) \subseteq QuietTasks(b)
BY DEF QuietTasks

(* What a run that came back leaves to do is about the run,                *)
LEMMA PersistFacts ==
  ASSUME NEW t \in Tasks, NEW st
  PROVE  Persist(t, st) # <<>> /\ Head(Persist(t, st)).run = t.run
<1> DEFINE save == Task("save", t.run, st)
           scan == StoreTask("scan")
           clear == Task("clear_terminal", t.run, st)
<1>1. save.run = t.run /\ clear.run = t.run
  BY DEF Task
<1>2. Persist(t, st) = (IF t.keep THEN <<save, scan>> ELSE <<>>) \o <<clear>>
  BY DEF Persist, Snapshot
<1> HIDE DEF save, scan, clear
<1> QED BY <1>1, <1>2

(* and its save is on top, unless the run is closed and has a row.         *)
LEMMA PersistPiled ==
  ASSUME NEW ex, NEW cps, NEW us, NEW t \in Tasks, t.run \in Runs, t.run \in us, NEW st \in States,
         st.status = "waiting_hitl" => t.run \notin ex
  PROVE  Piled(Persist(t, st), QuietTasks(ex), FrontTasks(ex, cps, us))
<1> DEFINE S == QuietTasks(ex)
           F == FrontTasks(ex, cps, us)
           save == Task("save", t.run, st)
           clear == Task("clear_terminal", t.run, st)
<1>1. save \in Tasks /\ save.op = "save" /\ save.run = t.run /\ save.st = st /\ save.keep
  BY DEF Task, Tasks, Ops
<1>2. save \in F
  BY <1>1 DEF FrontTasks, Acting, Carrying, Writing
<1>3. StoreTask("scan") \in S /\ clear \in S
  BY QuietFacts
<1> DEFINE both == <<save, StoreTask("scan")>>
           last == <<clear>>
<1>4. Persist(t, st) = (IF t.keep THEN both ELSE <<>>) \o last
  BY DEF Persist, Snapshot
<1> HIDE DEF S, F, save, clear
<1>5. last \in Seq(S)
  BY <1>3
<1>6. Piled(both, S, F) /\ Piled(<<>>, S, F)
  BY <1>2, <1>3, ShortPiles
<1> HIDE DEF both, last
<1>7. Piled(both \o last, S, F) /\ Piled(<<>> \o last, S, F)
  BY <1>5, <1>6, PileOn
<1> QED BY <1>4, <1>7 DEF S, F

-----------------------------------------------------------------------------
(* One handler's step.                                                     *)

Below == QuietTasks(Existing)
OnTop == FrontTasks(Existing, checkpoint, used)

(* The closed part of the invariant, stack by stack.                       *)
LEMMA StackFacts ==
  ASSUME StoreInv, ClosedInv, NEW h \in Handlers, todo[h] # <<>>
  PROVE  /\ Top(h) \in Below \cup OnTop /\ Top(h) \in Tasks
         /\ Tail(todo[h]) \in Seq(Below)
         /\ Top(h).op \in GraphOps => Top(h) \in OnTop
<1>1. Top(h) \in Below \cup OnTop /\ Tail(todo[h]) \in Seq(Below)
  BY DEF ClosedInv, Below, OnTop
<1>2. Top(h) \in Tasks
  BY <1>1 DEF Below, OnTop, QuietTasks, FrontTasks
<1>3. Top(h).op \in GraphOps => Top(h) \notin Below
  BY DEF Below, QuietTasks
<1> QED BY <1>1, <1>2, <1>3

(* A handler that puts tasks on its stack, and whatever it does to the     *)
(* stores meanwhile: the other handlers' graphs must not mind, and no      *)
(* second handler may come to work on a run without a row.                 *)
LEMMA HandlerStep ==
  ASSUME StoreInv, ClosedInv, NEW h \in Handlers, todo[h] # <<>>,
         NEW tasks, Instead(h, tasks), Piled(tasks, Below', OnTop'),
         Existing \subseteq Existing', Existing' \subseteq used, used' = used,
         \A g \in Handlers \ {h} : todo[g] # <<>> /\ Top(g) \in OnTop => Top(g) \in OnTop',
         tasks # <<>> /\ Head(tasks).op \in Acting /\ Head(tasks).run \notin Existing'
           => Creating(h, Head(tasks).run),
         \A r \in Runs : checkpoint'[r].at \in {"run", "end"} => checkpoint'[r].st.status # "waiting_hitl"
  PROVE  ClosedInv'
<1>1. todo \in [Handlers -> Seq(SafeTasks(approved, outbox))]
  BY DEF StoreInv
<1>2. todo'[h] = tasks \o Tail(todo[h]) /\ \A g \in Handlers \ {h} : todo'[g] = todo[g]
  BY <1>1 DEF Instead
<1>3. Below \subseteq Below'
  BY QuietMonotone DEF Below
<1>4. Tail(todo[h]) \in Seq(Below')
  BY <1>3, StackFacts, SeqMonotonic
<1> DEFINE rest == Tail(todo[h])
           S == Below'
           F == OnTop'
<1>5. /\ Piled(todo'[h], S, F)
      /\ tasks # <<>> => Head(todo'[h]) = Head(tasks)
      /\ tasks = <<>> => todo'[h] = rest
  <2>1. Piled(tasks, S, F) /\ rest \in Seq(S) /\ todo'[h] = tasks \o rest
    BY <1>2, <1>4
  <2> HIDE DEF rest, S, F
  <2> QED BY <2>1, PileOn
<1>6. todo'[h] # <<>> => Head(todo'[h]) \in Below' \cup OnTop' /\ Tail(todo'[h]) \in Seq(Below')
  BY <1>5, HeadTailProperties DEF Piled
<1>7. ASSUME NEW g \in Handlers \ {h}, todo'[g] # <<>>
      PROVE  Head(todo'[g]) \in Below' \cup OnTop' /\ Tail(todo'[g]) \in Seq(Below')
  <2>1. todo'[g] = todo[g] /\ todo[g] # <<>>
    BY <1>2, <1>7
  <2>2. Top(g) \in Below \cup OnTop /\ Tail(todo[g]) \in Seq(Below)
    BY <2>1, StackFacts
  <2>3. Tail(todo[g]) \in Seq(Below')
    BY <1>3, <2>2, SeqMonotonic
  <2>4. Top(g) \in Below' \cup OnTop'
    BY <1>3, <2>1, <2>2
  <2> QED BY <2>1, <2>3, <2>4 DEF Top
<1>8. ASSUME NEW g \in Handlers, NEW r \in Runs, Creating(g, r)'
      PROVE  Creating(g, r)
  <2>1. r \notin Existing' /\ r \notin Existing /\ todo'[g] # <<>>
        /\ Head(todo'[g]).op \in Acting /\ Head(todo'[g]).run = r
    BY <1>8 DEF Creating, Top, Run
  <2>2. CASE g # h
    BY <1>2, <2>1, <2>2 DEF Creating, Top, Run
  <2>3. CASE g = h /\ tasks # <<>>
    BY <1>5, <2>1, <2>3
  <2>4. CASE g = h /\ tasks = <<>>
    <3>1. Head(todo'[h]) \in Below'
      BY <1>4, <1>5, <2>1, <2>4, HeadTailProperties
    <3> QED BY <2>1, <2>4, <3>1 DEF Below, QuietTasks, Acting
  <2> QED BY <2>2, <2>3, <2>4
<1>9. \A f, g \in Handlers, r \in Runs : (Creating(f, r) /\ Creating(g, r))' => f = g
  BY <1>8 DEF ClosedInv
<1>10. (\A g \in Handlers : todo[g] # <<>> =>
          /\ Top(g) \in QuietTasks(Existing) \cup FrontTasks(Existing, checkpoint, used)
          /\ Tail(todo[g]) \in Seq(QuietTasks(Existing)))'
  BY <1>6, <1>7 DEF Top, Below, OnTop
<1> QED BY <1>9, <1>10 DEF ClosedInv

(* A handler that only changes its stack.                                  *)
LEMMA QuietStep ==
  ASSUME StoreInv, ClosedInv, NEW h \in Handlers, todo[h] # <<>>,
         NEW tasks, Instead(h, tasks), Piled(tasks, Below, OnTop),
         tasks # <<>> /\ Head(tasks).op \in Acting /\ Head(tasks).run \notin Existing
           => Creating(h, Head(tasks).run),
         UNCHANGED <<row, checkpoint, used>>
  PROVE  ClosedInv'
<1>1. row' = row /\ checkpoint' = checkpoint /\ used' = used
  OBVIOUS
<1>2. Existing' = Existing /\ Below' = Below /\ OnTop' = OnTop
  BY <1>1 DEF Existing, Below, OnTop
<1>3. /\ Existing \subseteq used
      /\ \A r \in Runs : checkpoint[r].at \in {"run", "end"} => checkpoint[r].st.status # "waiting_hitl"
  BY DEF ClosedInv
<1> QED BY <1>1, <1>2, <1>3, HandlerStep

(* What a graph at work says of its run.                                   *)
LEMMA ActorFacts ==
  ASSUME StoreInv, ClosedInv, NEW h \in Handlers, NEW op \in GraphOps, Doing(h, op)
  PROVE  /\ todo[h] # <<>> /\ Top(h) \in Tasks /\ Top(h) \in OnTop
         /\ Top(h).op = op /\ Top(h).st \in States /\ Top(h).base \in States
         /\ Run(h) \in Runs /\ Run(h) \in used
         /\ op = "begin" \/ ~Top(h).keep => Run(h) \notin Existing
         /\ op \in Carrying => Run(h) \in Existing
         /\ op \in Writing \cup {"filed"} => Top(h).st.status # "waiting_hitl"
         /\ op = "snapshot" /\ (checkpoint[Run(h)].at = "human" \/ Top(h).st.status = "waiting_hitl")
              => Run(h) \notin Existing
         /\ Run(h) \notin Existing => Creating(h, Run(h))
<1>1. todo[h] # <<>> /\ Top(h).op = op
  BY DEF Doing, Top
<1>2. Top(h) \in Tasks /\ Top(h) \in OnTop
  BY <1>1, StackFacts
<1>3. Top(h).st \in States /\ Top(h).base \in States
  BY <1>2 DEF Tasks
<1> QED BY <1>1, <1>2, <1>3 DEF OnTop, FrontTasks, AtChief, Run, Creating, Acting

(* The graph that goes on at op is all there is to put on the stack,       *)
GoesOnAs(t, op, st) == <<[t EXCEPT !.op = op, !.st = st]>>

(* it is one task about the same run,                                      *)
LEMMA GoesOnFacts ==
  ASSUME NEW t \in Tasks, NEW op, NEW st
  PROVE  /\ GoesOnAs(t, op, st) # <<>> /\ Head(GoesOnAs(t, op, st)).run = t.run
         /\ GoesOnAs(t, op, st) = <<[t EXCEPT !.op = op, !.st = st]>>
<1> DEFINE u == [t EXCEPT !.op = op, !.st = st]
<1>1. u.run = t.run
  BY DEF Tasks
<1> HIDE DEF u
<1>2. <<u>> # <<>> /\ Head(<<u>>) = u
  OBVIOUS
<1> QED BY <1>1, <1>2 DEF GoesOnAs, u

(* and may be there.                                                       *)
LEMMA GraphGoesOn ==
  ASSUME NEW ex, NEW cps, NEW us, NEW t \in Tasks, t.run \in Runs, t.run \in us,
         NEW op \in GraphOps \ {"begin"}, NEW st \in States,
         op \in Carrying => t.run \in ex,
         op \in Writing \cup {"filed"} => st.status # "waiting_hitl",
         op = "snapshot" /\ (AtChief(cps, t.run) \/ st.status = "waiting_hitl") => t.run \notin ex,
         ~t.keep => t.run \notin ex
  PROVE  Piled(GoesOnAs(t, op, st), QuietTasks(ex), FrontTasks(ex, cps, us))
<1> DEFINE u == [t EXCEPT !.op = op, !.st = st]
<1>1. u \in Tasks /\ u.op = op /\ u.st = st /\ u.run = t.run /\ u.keep = t.keep
  <2>1. op \in Ops
    BY DEF GraphOps, Ops
  <2> QED BY <2>1 DEF Tasks
<1> HIDE DEF u
<1>2. u \in FrontTasks(ex, cps, us)
  BY <1>1 DEF FrontTasks, Acting, GraphOps
<1>3. Piled(<<u>>, QuietTasks(ex), FrontTasks(ex, cps, us))
  BY <1>2, ShortPiles
<1> QED BY <1>3 DEF u, GoesOnAs

(* Where the graph goes on from a checkpoint.                              *)
Onward == {"file", "snapshot"}

(* The graph writes a checkpoint and goes on.                              *)
LEMMA ReachesIsQuiet ==
  ASSUME StoreInv, ClosedInv, NEW h \in Handlers, NEW now \in GraphOps, Doing(h, now),
         NEW at \in {"human", "run", "end"}, NEW st \in States, NEW op \in Onward,
         at = "human" => Run(h) \notin Existing /\ op = "snapshot",
         at # "human" => st.status # "waiting_hitl",
         Reaches(h, at, st, op), UNCHANGED <<row, used>>
  PROVE  ClosedInv'
<1>1. /\ todo[h] # <<>> /\ Top(h) \in Tasks /\ Run(h) \in Runs /\ Run(h) \in used
      /\ ~Top(h).keep => Run(h) \notin Existing
      /\ Run(h) \notin Existing => Creating(h, Run(h))
  BY ActorFacts
<1>2. /\ checkpoint' = [checkpoint EXCEPT ![Run(h)] = [at |-> at, st |-> st]]
      /\ Instead(h, GoesOnAs(Top(h), op, st))
  BY DEF Reaches, GraphTask, GoesOnAs
<1>3. \A r \in Runs : checkpoint'[r] = IF r = Run(h) THEN [at |-> at, st |-> st] ELSE checkpoint[r]
  BY <1>1, <1>2 DEF StoreInv
<1>4. Existing' = Existing /\ used' = used /\ Existing \subseteq used
  BY DEF Existing, ClosedInv
<1> DEFINE tasks == GoesOnAs(Top(h), op, st)
<1>5. /\ Piled(tasks, QuietTasks(Existing), FrontTasks(Existing, checkpoint', used))
      /\ tasks # <<>> /\ Head(tasks).run = Top(h).run
  <2>1. op \in GraphOps \ {"begin"} /\ op \notin Carrying /\ (op \in Writing \cup {"filed"} => op = "file")
    BY DEF GraphOps, Carrying, Writing, Onward
  <2>2. Top(h).run \in Runs /\ Top(h).run \in used /\ (~Top(h).keep => Top(h).run \notin Existing)
    BY <1>1 DEF Run
  <2>3. AtChief(checkpoint', Top(h).run) \/ st.status = "waiting_hitl" => Top(h).run \notin Existing
    BY <1>1, <1>3 DEF Run, AtChief
  <2>4. op \in Writing \cup {"filed"} => st.status # "waiting_hitl"
    BY <2>1
  <2>5. /\ Top(h) \in Tasks /\ op \notin Carrying /\ op \in GraphOps \ {"begin"}
    BY <1>1, <2>1
  <2>6. Piled(tasks, QuietTasks(Existing), FrontTasks(Existing, checkpoint', used))
    BY <2>2, <2>3, <2>4, <2>5, GraphGoesOn
  <2>7. tasks # <<>> /\ Head(tasks).run = Top(h).run
    BY <2>5, GoesOnFacts
  <2> QED BY <2>6, <2>7
<1> HIDE DEF tasks
<1>6. Piled(tasks, Below', OnTop') /\ Instead(h, tasks)
  BY <1>2, <1>4, <1>5 DEF Below, OnTop, tasks
<1>7. \A g \in Handlers \ {h} : todo[g] # <<>> /\ Top(g) \in OnTop => Top(g) \in OnTop'
  BY <1>1, <1>3, <1>4 DEF OnTop, FrontTasks, AtChief
<1>8. \A r \in Runs : checkpoint'[r].at \in {"run", "end"} => checkpoint'[r].st.status # "waiting_hitl"
  BY <1>3 DEF ClosedInv
<1>9. tasks # <<>> /\ Head(tasks).op \in Acting /\ Head(tasks).run \notin Existing'
        => Creating(h, Head(tasks).run)
  BY <1>1, <1>4, <1>5 DEF Run
<1> QED BY <1>1, <1>4, <1>6, <1>7, <1>8, <1>9, HandlerStep

-----------------------------------------------------------------------------
(* The graph of a run.                                                     *)

(* A run that comes back to its handler is persisted.                      *)
LEMMA PersistStep ==
  ASSUME StoreInv, ClosedInv, NEW h \in Handlers, NEW op \in GraphOps, Doing(h, op), NEW st \in States,
         st.status = "waiting_hitl" => Run(h) \notin Existing,
         Instead(h, Persist(Top(h), st)), UNCHANGED <<row, checkpoint, used>>
  PROVE  ClosedInv'
<1>1. /\ todo[h] # <<>> /\ Top(h) \in Tasks /\ Top(h).run \in Runs /\ Top(h).run \in used
      /\ Run(h) \notin Existing => Creating(h, Run(h))
  BY ActorFacts DEF Run
<1> DEFINE tasks == Persist(Top(h), st)
<1>2. st.status = "waiting_hitl" => Top(h).run \notin Existing
  BY DEF Run
<1>3. Piled(tasks, Below, OnTop)
  BY <1>1, <1>2, PersistPiled DEF Below, OnTop
<1>4. tasks # <<>> /\ Head(tasks).run = Run(h)
  BY <1>1, PersistFacts DEF Run
<1>5. Instead(h, tasks)
  OBVIOUS
<1> HIDE DEF tasks
<1> QED BY <1>1, <1>3, <1>4, <1>5, QuietStep

(* The graph goes on and the stores stay as they are.                      *)
LEMMA GoesOnStep ==
  ASSUME StoreInv, ClosedInv, NEW h \in Handlers, NEW now \in GraphOps, Doing(h, now),
         NEW op \in GraphOps \ {"begin"}, NEW st \in States,
         op \in Carrying => Run(h) \in Existing,
         op \in Writing \cup {"filed"} => st.status # "waiting_hitl",
         op = "snapshot" /\ (AtChief(checkpoint, Run(h)) \/ st.status = "waiting_hitl")
           => Run(h) \notin Existing,
         Instead(h, <<GraphTask(h, op, st)>>), UNCHANGED <<row, checkpoint, used>>
  PROVE  ClosedInv'
<1>1. /\ todo[h] # <<>> /\ Top(h) \in Tasks /\ Top(h).run \in Runs /\ Top(h).run \in used
      /\ ~Top(h).keep => Top(h).run \notin Existing
      /\ Run(h) \notin Existing => Creating(h, Run(h))
  BY ActorFacts DEF Run
<1> DEFINE tasks == GoesOnAs(Top(h), op, st)
<1>2. Piled(tasks, Below, OnTop)
  <2>1. /\ op \in Carrying => Top(h).run \in Existing
        /\ op = "snapshot" /\ (AtChief(checkpoint, Top(h).run) \/ st.status = "waiting_hitl")
             => Top(h).run \notin Existing
    BY DEF Run
  <2>2. Piled(tasks, QuietTasks(Existing), FrontTasks(Existing, checkpoint, used))
    BY <1>1, <2>1, GraphGoesOn
  <2> QED BY <2>2 DEF Below, OnTop
<1>3. tasks # <<>> /\ Head(tasks).run = Run(h)
  BY <1>1, GoesOnFacts DEF Run
<1>4. Instead(h, tasks)
  BY DEF GraphTask, GoesOnAs
<1> HIDE DEF tasks
<1> QED BY <1>1, <1>2, <1>3, <1>4, QuietStep

(* A new run asks for the chief while it has no row.                       *)
LEMMA BeginsIsQuiet ==
  ASSUME StoreInv, ClosedInv, NEW h \in Handlers, GraphBegins(h)
  PROVE  ClosedInv'
<1>1. Doing(h, "begin") /\ "begin" \in GraphOps
  BY DEF GraphBegins, GraphOps
<1>2. Run(h) \notin Existing /\ Fresh.status # "waiting_hitl" /\ Fresh \in States
  BY <1>1, ActorFacts, StateFacts DEF Fresh
<1>3. \A how \in Terminal \cup {"running", "waiting_hitl"} :
        [Fresh EXCEPT !.status = how] \in States /\ [Fresh EXCEPT !.status = how].status = how
  BY StateFacts DEF Fresh
<1>4. UNCHANGED <<row, used>> /\ "file" \in Onward /\ "snapshot" \in Onward
  BY DEF GraphBegins, Onward
<1>5. CASE Reaches(h, "human", [Fresh EXCEPT !.status = "waiting_hitl"], "snapshot")
  BY <1>1, <1>2, <1>3, <1>4, <1>5, ReachesIsQuiet
<1>6. CASE Reaches(h, "run", Fresh, "file")
  BY <1>1, <1>2, <1>4, <1>6, ReachesIsQuiet
<1>7. ASSUME NEW how \in {"succeeded", "failed", "rejected"},
             Reaches(h, "end", [Fresh EXCEPT !.status = how], "snapshot")
      PROVE  ClosedInv'
  <2>1. how \in Terminal /\ how # "waiting_hitl"
    BY DEF Terminal
  <2>2. [Fresh EXCEPT !.status = how] \in States /\ [Fresh EXCEPT !.status = how].status # "waiting_hitl"
    BY <1>3, <2>1
  <2> QED BY <1>1, <1>4, <1>7, <2>2, ReachesIsQuiet
<1> QED BY <1>5, <1>6, <1>7 DEF GraphBegins

(* A decision goes on, or fails the run.                                   *)
LEMMA ChecksIsQuiet ==
  ASSUME StoreInv, ClosedInv, NEW h \in Handlers, ChecksCheckpoint(h)
  PROVE  ClosedInv'
<1> DEFINE st == [Top(h).st EXCEPT !.status = "failed", !.decision = "none"]
<1>1. Doing(h, "check") /\ "check" \in GraphOps /\ "check" \in Carrying
  BY DEF ChecksCheckpoint, GraphOps, Carrying
<1>2. Top(h).st \in States /\ Run(h) \in Existing
  BY <1>1, ActorFacts
<1>3. st \in States /\ st.status # "waiting_hitl"
  BY <1>2 DEF States, Terminal
<1>4. UNCHANGED <<row, checkpoint, used>>
  BY DEF ChecksCheckpoint, stores
<1> HIDE DEF st
<1>5. CASE Instead(h, Persist(Top(h), st))
  BY <1>1, <1>3, <1>4, <1>5, PersistStep
<1>6. CASE Instead(h, <<GraphTask(h, "resume", Top(h).st)>>)
  <2>1. "resume" \in GraphOps \ {"begin"} /\ "resume" \notin Writing \cup {"filed"}
    BY DEF GraphOps, Writing
  <2> QED BY <1>1, <1>2, <1>4, <1>6, <2>1, GoesOnStep
<1> QED BY <1>5, <1>6 DEF ChecksCheckpoint, st

(* A graph that is resumed goes on from its checkpoint.                    *)
LEMMA ResumesIsQuiet ==
  ASSUME StoreInv, ClosedInv, NEW h \in Handlers, GraphResumes(h)
  PROVE  ClosedInv'
<1> DEFINE cp == checkpoint[Run(h)]
<1>1. Doing(h, "resume") /\ "resume" \in GraphOps /\ "resume" \in Carrying
  BY DEF GraphResumes, GraphOps, Carrying
<1>2. Top(h).st \in States /\ Run(h) \in Existing /\ Run(h) \in Runs
  BY <1>1, ActorFacts
<1>3. /\ cp.st \in States
      /\ cp.at \in {"run", "end"} => cp.st.status # "waiting_hitl"
  BY <1>2, CheckpointFacts DEF ClosedInv
<1>4. UNCHANGED <<row, checkpoint, used>>
  BY DEF GraphResumes, stores
<1>5. /\ {"decided", "file", "snapshot"} \subseteq GraphOps \ {"begin"}
      /\ "decided" \notin Writing \cup {"filed"} /\ "snapshot" \notin Writing \cup {"filed"}
      /\ "file" \notin Carrying /\ "snapshot" \notin Carrying
  BY DEF GraphOps, Writing, Carrying
<1>6. CASE cp.at = "human" /\ Instead(h, <<GraphTask(h, "decided", Top(h).st)>>)
  BY <1>1, <1>2, <1>4, <1>5, <1>6, GoesOnStep
<1>7. CASE cp.at = "run" /\ Instead(h, <<GraphTask(h, "file", cp.st)>>)
  <2> HIDE DEF cp
  <2> QED BY <1>1, <1>3, <1>4, <1>5, <1>7, GoesOnStep
<1>8. CASE cp.at = "end" /\ Instead(h, <<GraphTask(h, "snapshot", cp.st)>>)
  <2>1. ~AtChief(checkpoint, Run(h))
    BY <1>8 DEF AtChief
  <2> HIDE DEF cp
  <2> QED BY <1>1, <1>3, <1>4, <1>5, <1>8, <2>1, GoesOnStep
<1> QED BY <1>6, <1>7, <1>8 DEF GraphResumes

(* The chief's answer ends the run or sends it on to submit.               *)
LEMMA DecidesIsQuiet ==
  ASSUME StoreInv, ClosedInv, NEW h \in Handlers, GraphDecides(h)
  PROVE  ClosedInv'
<1>1. Doing(h, "decided") /\ "decided" \in GraphOps
  BY DEF GraphDecides, GraphOps
<1>2. Top(h).st \in States
  BY <1>1, ActorFacts
<1>3. \A how \in Terminal \cup {"running", "waiting_hitl"} :
        Decided(h, how) \in States /\ Decided(h, how).status = how
  BY <1>2 DEF Decided, States
<1>4. UNCHANGED <<row, used>> /\ "file" \in Onward /\ "snapshot" \in Onward
  BY DEF GraphDecides, Onward
<1>5. ASSUME NEW how \in Terminal, Reaches(h, "end", Decided(h, how), "snapshot")
      PROVE  ClosedInv'
  <2>1. Decided(h, how) \in States /\ Decided(h, how).status # "waiting_hitl"
    BY <1>3 DEF Terminal
  <2> QED BY <1>1, <1>4, <1>5, <2>1, ReachesIsQuiet
<1>6. CASE Reaches(h, "run", Decided(h, "running"), "file")
  <2>1. Decided(h, "running") \in States /\ Decided(h, "running").status # "waiting_hitl"
    BY <1>3
  <2> QED BY <1>1, <1>4, <1>6, <2>1, ReachesIsQuiet
<1> QED BY <1>5, <1>6 DEF GraphDecides, Terminal

(* Whatever happens at the destination, the run is not asked about.        *)
LEMMA SubmitIsQuiet ==
  ASSUME StoreInv, ClosedInv, NEW h \in Handlers,
         \/ GraphReplays(h) \/ GraphFindsNoFile(h) \/ GraphOpensFile(h)
         \/ GraphFiles(h) \/ SubmitFails(h)
  PROVE  ClosedInv'
<1>1. PICK now \in Writing : Doing(h, now)
  BY DEF GraphReplays, GraphFindsNoFile, GraphOpensFile, GraphFiles, SubmitFails, Writing
<1>2. now \in GraphOps
  BY DEF Writing, GraphOps
<1>3. Top(h).st \in States /\ Top(h).st.status # "waiting_hitl"
  BY <1>1, <1>2, ActorFacts
<1>4. /\ HasTicket(h) \in States /\ HasTicket(h).status # "waiting_hitl"
      /\ [Top(h).st EXCEPT !.status = "failed"] \in States
      /\ [Top(h).st EXCEPT !.status = "failed"].status # "waiting_hitl"
  BY <1>3 DEF HasTicket, States, Terminal
<1>5. UNCHANGED <<row, checkpoint, used>>
  BY DEF GraphReplays, GraphFindsNoFile, GraphOpensFile, GraphFiles, SubmitFails, Ticket, stores
<1>6. \E op \in {"filed", "write", "close"},
         st \in {HasTicket(h), Top(h).st, [Top(h).st EXCEPT !.status = "failed"]} :
        Instead(h, <<GraphTask(h, op, st)>>)
  BY DEF GraphReplays, GraphFindsNoFile, GraphOpensFile, GraphFiles, SubmitFails, Ticket
<1>7. \A op \in {"filed", "write", "close"} :
        op \in GraphOps \ {"begin"} /\ op \notin Carrying /\ op # "snapshot"
  BY DEF GraphOps, Carrying
<1> QED BY <1>1, <1>2, <1>3, <1>4, <1>5, <1>6, <1>7, GoesOnStep

(* Nor is it after the last pass of the supervisor.                        *)
LEMMA FiledIsQuiet ==
  ASSUME StoreInv, ClosedInv, NEW h \in Handlers, GraphFiled(h)
  PROVE  ClosedInv'
<1>1. Doing(h, "filed") /\ "filed" \in GraphOps
  BY DEF GraphFiled, GraphOps
<1>2. Top(h).st \in States /\ Top(h).st.status # "waiting_hitl"
  BY <1>1, ActorFacts
<1>3. PICK how \in {Top(h).st.status, "failed"} :
        Reaches(h, "end", [Top(h).st EXCEPT !.status = how], "snapshot")
  BY DEF GraphFiled
<1>4. how \in Terminal \cup {"running", "waiting_hitl"} /\ how # "waiting_hitl"
  BY <1>2, <1>3 DEF States, Terminal
<1>5. /\ [Top(h).st EXCEPT !.status = how] \in States
      /\ [Top(h).st EXCEPT !.status = how].status # "waiting_hitl"
  BY <1>2, <1>4 DEF States
<1>6. UNCHANGED <<row, used>> /\ "snapshot" \in Onward
  BY DEF GraphFiled, Onward
<1> QED BY <1>1, <1>3, <1>5, <1>6, ReachesIsQuiet

(* What comes back asks the chief only for a run without a row.            *)
LEMMA ReturnsIsQuiet ==
  ASSUME StoreInv, ClosedInv, NEW h \in Handlers, GraphReturns(h)
  PROVE  ClosedInv'
<1> DEFINE cp == checkpoint[Run(h)]
           st == CASE cp.at = "none" -> Top(h).st
                   [] cp.at = "human" -> [cp.st EXCEPT !.status = "waiting_hitl"]
                   [] OTHER -> cp.st
<1>1. Doing(h, "snapshot") /\ "snapshot" \in GraphOps
  BY DEF GraphReturns, GraphOps
<1>2. /\ Top(h).st \in States /\ Run(h) \in Runs
      /\ cp.at = "human" \/ Top(h).st.status = "waiting_hitl" => Run(h) \notin Existing
  BY <1>1, ActorFacts
<1>3. /\ cp.st \in States /\ cp.at \in {"none", "human", "run", "end"}
      /\ cp.at \in {"run", "end"} => cp.st.status # "waiting_hitl"
  BY <1>2, CheckpointFacts DEF ClosedInv
<1>4. st \in States /\ (st.status = "waiting_hitl" => Run(h) \notin Existing)
  <2> HIDE DEF cp
  <2>1. [cp.st EXCEPT !.status = "waiting_hitl"] \in States
    BY <1>3, StateFacts
  <2>2. CASE cp.at = "none"
    BY <1>2, <2>2
  <2>3. CASE cp.at = "human"
    BY <1>2, <2>1, <2>3
  <2>4. CASE cp.at \in {"run", "end"}
    BY <1>3, <2>4
  <2> QED BY <1>3, <2>2, <2>3, <2>4
<1>5. Instead(h, Persist(Top(h), st)) /\ UNCHANGED <<row, checkpoint, used>>
  BY DEF GraphReturns, stores
<1> HIDE DEF st
<1> QED BY <1>1, <1>4, <1>5, PersistStep

(* A run whose graph raised is closed.                                     *)
LEMMA RaisesIsQuiet ==
  ASSUME StoreInv, ClosedInv, NEW h \in Handlers, GraphRaises(h)
  PROVE  ClosedInv'
<1> DEFINE st == [Top(h).base EXCEPT !.status = "failed"]
<1>1. PICK op \in GraphOps : Doing(h, op)
  BY DEF GraphRaises, GraphOps
<1>2. Top(h).base \in States
  BY <1>1, ActorFacts
<1>3. st \in States /\ st.status # "waiting_hitl"
  BY <1>2 DEF States, Terminal
<1>4. Instead(h, Persist(Top(h), st)) /\ UNCHANGED <<row, checkpoint, used>>
  BY DEF GraphRaises, stores
<1> HIDE DEF st
<1> QED BY <1>1, <1>3, <1>4, PersistStep

(* Every step of a graph.                                                  *)
LEMMA GraphIsQuiet ==
  ASSUME StoreInv, ClosedInv, NEW h \in Handlers, Graph(h)
  PROVE  ClosedInv'
BY BeginsIsQuiet, ChecksIsQuiet, ResumesIsQuiet, DecidesIsQuiet, SubmitIsQuiet, FiledIsQuiet,
   ReturnsIsQuiet, RaisesIsQuiet DEF Graph

-----------------------------------------------------------------------------
(* The stores.                                                             *)

(* Tasks of the housekeeping on top of a stack.                            *)
LEMMA QuietTasksStep ==
  ASSUME StoreInv, ClosedInv, NEW h \in Handlers, todo[h] # <<>>,
         NEW tasks \in Seq(Below), Instead(h, tasks), UNCHANGED <<row, checkpoint, used>>
  PROVE  ClosedInv'
<1>1. Piled(tasks, Below, OnTop)
  BY HeadTailProperties, SeqMonotonic DEF Piled
<1>2. tasks # <<>> => Head(tasks) \in Below
  BY HeadTailProperties
<1>3. ASSUME tasks # <<>>, Head(tasks).op \in Acting, Head(tasks).run \notin Existing
      PROVE  FALSE
  BY <1>2, <1>3 DEF Below, QuietTasks, Acting
<1> QED BY <1>1, <1>3, QuietStep

(* A row is there once it has been saved, and it waits only if it is new.  *)
LEMMA SavesFacts ==
  ASSUME StoreInv, ClosedInv, NEW h \in Handlers, Saves(h)
  PROVE  /\ todo[h] # <<>> /\ Run(h) \in Runs /\ Run(h) \in used /\ Top(h).op \in Acting
         /\ Existing' = Existing \cup {Run(h)}
         /\ row'[Run(h)].status = Top(h).st.status
         /\ Top(h).st.status = "waiting_hitl" => Run(h) \notin Existing
         /\ \A r \in Runs \ {Run(h)} : row'[r] = row[r]
<1>1. Doing(h, "save") /\ "save" \notin OfNoRun
  BY DEF Saves, OfNoRun
<1>2. todo[h] # <<>> /\ Top(h).op = "save" /\ Top(h).st \in States /\ Run(h) \in Runs
  BY <1>1, TopFacts, RunFacts
<1>3. Top(h) \in Below \cup OnTop
  BY <1>2, StackFacts
<1>4. /\ Run(h) \in used
      /\ Top(h).st.status = "waiting_hitl" => Run(h) \notin Existing
  BY <1>2, <1>3 DEF Below, OnTop, QuietTasks, FrontTasks, ClosedInv, Run
<1>5. /\ row'[Run(h)].status = Top(h).st.status
      /\ \A r \in Runs \ {Run(h)} : row'[r] = row[r]
  BY <1>2 DEF Saves, StoreInv
<1>6. row'[Run(h)].status # "none"
  BY <1>2, <1>5 DEF States, Terminal
<1>7. Existing' = Existing \cup {Run(h)}
  BY <1>2, <1>5, <1>6 DEF Existing
<1> QED BY <1>2, <1>4, <1>5, <1>7 DEF Acting

(* No other graph works on a run that gets its row.                        *)
LEMMA SavesIsQuiet ==
  ASSUME StoreInv, ClosedInv, NEW h \in Handlers, Saves(h)
  PROVE  ClosedInv'
<1>1. /\ todo[h] # <<>> /\ Run(h) \in Runs /\ Run(h) \in used /\ Top(h).op \in Acting
      /\ Existing' = Existing \cup {Run(h)}
  BY SavesFacts
<1>2. Instead(h, <<>>) /\ checkpoint' = checkpoint /\ used' = used
  BY DEF Saves
<1>3. \A g \in Handlers \ {h} : todo[g] # <<>> /\ Top(g) \in OnTop => Top(g) \in OnTop'
  <2> SUFFICES ASSUME NEW g \in Handlers \ {h}, todo[g] # <<>>, Top(g) \in OnTop
               PROVE  Top(g) \in OnTop'
    OBVIOUS
  <2>1. Run(g) = Run(h) => Run(h) \in Existing
    BY <1>1 DEF ClosedInv, Creating, OnTop, FrontTasks, Run
  <2>2. Run(g) \in Existing' => Run(g) \in Existing
    BY <1>1, <2>1
  <2> QED BY <1>1, <1>2, <2>2 DEF OnTop, FrontTasks, Run
<1>4. Piled(<<>>, Below', OnTop')
  BY EmptySeq DEF Piled
<1>5. \A r \in Runs : checkpoint'[r].at \in {"run", "end"} => checkpoint'[r].st.status # "waiting_hitl"
  BY <1>2 DEF ClosedInv
<1>6. Existing \subseteq Existing' /\ Existing' \subseteq used
  BY <1>1 DEF ClosedInv
<1> DEFINE tasks == <<>>
<1>7. /\ Instead(h, tasks) /\ Piled(tasks, Below', OnTop')
      /\ ~(tasks # <<>>)
  BY <1>2, <1>4
<1> HIDE DEF tasks
<1> QED BY <1>1, <1>2, <1>3, <1>5, <1>6, <1>7, HandlerStep

(* A checkpoint less does not make a graph ask.                            *)
LEMMA ClearsIsQuiet ==
  ASSUME StoreInv, ClosedInv, NEW h \in Handlers, Clears(h)
  PROVE  ClosedInv'
<1>1. PICK op : Doing(h, op) /\ op \notin OfNoRun
  BY DEF Clears, OfNoRun
<1>2. todo[h] # <<>> /\ Run(h) \in Runs
  BY <1>1, TopFacts, RunFacts
<1>3. /\ \/ checkpoint' = [checkpoint EXCEPT ![Run(h)] = NoCheckpoint]
         \/ checkpoint' = checkpoint
      /\ Instead(h, <<>>) /\ row' = row /\ used' = used
  BY DEF Clears
<1>4. \A r \in Runs : checkpoint'[r] = checkpoint[r] \/ checkpoint'[r] = NoCheckpoint
  BY <1>2, <1>3 DEF StoreInv
<1>5. NoCheckpoint.at = "none"
  BY DEF NoCheckpoint
<1>6. Existing' = Existing /\ Existing \subseteq used
  BY <1>3 DEF Existing, ClosedInv
<1>7. \A g \in Handlers \ {h} : todo[g] # <<>> /\ Top(g) \in OnTop => Top(g) \in OnTop'
  BY <1>3, <1>4, <1>5, <1>6 DEF OnTop, FrontTasks, AtChief
<1>8. \A r \in Runs : checkpoint'[r].at \in {"run", "end"} => checkpoint'[r].st.status # "waiting_hitl"
  BY <1>4, <1>5 DEF ClosedInv
<1> DEFINE tasks == <<>>
<1>9. Instead(h, tasks) /\ Piled(tasks, Below', OnTop') /\ ~(tasks # <<>>)
  BY <1>3, EmptySeq DEF Piled
<1> HIDE DEF tasks
<1> QED BY <1>2, <1>3, <1>6, <1>7, <1>8, <1>9, HandlerStep

(* A task made from scratch does not wait.                                 *)
LEMMA FreshFacts == Fresh \in States /\ Fresh.status # "waiting_hitl"
BY StateFacts DEF Fresh

(* Saving a state over a row that is there, unless the state waits.        *)
LEMMA SnapshotIsQuiet ==
  ASSUME NEW r \in Existing, NEW st \in States, st.status # "waiting_hitl"
  PROVE  Snapshot(r, st) \in Seq(Below)
<1>1. r \in Runs
  BY DEF Existing
<1>2. Task("save", r, st) \in Below /\ StoreTask("scan") \in Below
  BY <1>1, QuietFacts DEF Below
<1> QED BY <1>2, Stacks DEF Snapshot

(* What the housekeeping finds there and fails has a row.                  *)
LEMMA FailsIsQuiet ==
  ASSUME StoreInv, ClosedInv, NEW h \in Handlers, Expires(h) \/ GivesUp(h)
  PROVE  ClosedInv'
<1> DEFINE st == [Loaded(Run(h)) EXCEPT !.status = "failed"]
<1>1. PICK op \in {"expire", "give_up"} : Doing(h, op)
  BY DEF Expires, GivesUp
<1>2. todo[h] # <<>> /\ Top(h).op = op /\ op \notin Acting
  BY <1>1 DEF Doing, Top, Acting, GraphOps
<1>3. Run(h) \in Existing
  BY <1>2, StackFacts DEF Below, OnTop, QuietTasks, FrontTasks, Run
<1>4. st \in States /\ st.status # "waiting_hitl" /\ Run(h) \in Runs
  <2>1. Run(h) \in Runs /\ "failed" \in Terminal \cup {"running", "waiting_hitl"}
    BY <1>3 DEF Existing, Terminal
  <2> QED BY <2>1, LoadedFacts DEF Loaded
<1>5. /\ \/ Instead(h, Snapshot(Run(h), st) \o <<Task("clear", Run(h), Fresh)>>)
         \/ Instead(h, Snapshot(Run(h), st))
      /\ UNCHANGED <<row, checkpoint, used>>
  BY DEF Expires, GivesUp, stores
<1> HIDE DEF st
<1>6. Snapshot(Run(h), st) \in Seq(Below)
  BY <1>3, <1>4, SnapshotIsQuiet
<1>7. <<Task("clear", Run(h), Fresh)>> \in Seq(Below)
  <2>1. Task("clear", Run(h), Fresh) \in Below
    BY <1>4, FreshFacts, QuietFacts DEF Below
  <2> QED BY <2>1
<1>8. Snapshot(Run(h), st) \o <<Task("clear", Run(h), Fresh)>> \in Seq(Below)
  BY <1>6, <1>7, ConcatProperties
<1> QED BY <1>2, <1>5, <1>6, <1>8, QuietTasksStep

(* The waits found too old or beyond help have a row, and so do those an   *)
(* audit has read.                                                         *)
LEMMA LooksIsQuiet ==
  ASSUME StoreInv, ClosedInv, NEW h \in Handlers, Scans(h) \/ AuditsRows(h) \/ AuditsCheckpoints(h)
  PROVE  ClosedInv'
<1>1. PICK op \in {"scan", "audit_rows", "audit_checkpoints"} : Doing(h, op)
  BY DEF Scans, AuditsRows, AuditsCheckpoints
<1>2. /\ todo[h] # <<>> /\ Top(h).op = op /\ op \notin Acting
      /\ UNCHANGED <<row, checkpoint, used>>
  BY <1>1 DEF Doing, Top, Acting, GraphOps, Scans, AuditsRows, AuditsCheckpoints, stores
<1>3. Top(h) \in Below /\ Top(h) \in Tasks
  BY <1>2, StackFacts DEF OnTop, FrontTasks
<1>4. /\ \A R \in SUBSET Runs : Each(R, "clear") \in Seq(Below)
      /\ \A R \in SUBSET Existing : Each(R, "expire") \in Seq(Below) /\ Each(R, "give_up") \in Seq(Below)
  <2>1. \A r \in Runs : /\ Task("clear", r, Fresh) \in Below
                        /\ r \in Existing => /\ Task("expire", r, Fresh) \in Below
                                             /\ Task("give_up", r, Fresh) \in Below
    BY FreshFacts, QuietFacts DEF Below
  <2>2. Existing \subseteq Runs
    BY DEF Existing
  <2> QED BY <2>1, <2>2, EachIsASequence
<1>5. /\ Overdue \in SUBSET Existing /\ Waiting \in SUBSET Existing
      /\ WithCheckpoint \in SUBSET Runs /\ Existing \in SUBSET Runs
  BY DEF Overdue, Waiting, WithCheckpoint, Existing
<1>6. CASE Scans(h)
  BY <1>2, <1>4, <1>5, <1>6, QuietTasksStep DEF Scans
<1>7. CASE AuditsRows(h)
  <2> DEFINE t == [Top(h) EXCEPT !.op = "audit_checkpoints", !.seen = Existing, !.waiting = Waiting]
  <2>1. Waiting \in SUBSET Runs
    BY <1>5
  <2>2. t \in Tasks /\ t.op = "audit_checkpoints" /\ t.waiting = Waiting
    BY <1>3, <1>5, <2>1 DEF Tasks, Ops
  <2>3. Instead(h, <<t>>)
    BY <1>7 DEF AuditsRows
  <2> HIDE DEF t
  <2>4. t \in Below
    BY <1>5, <2>2 DEF Below, QuietTasks, GraphOps
  <2>5. <<t>> \in Seq(Below)
    BY <2>4
  <2> QED BY <1>2, <2>3, <2>5, QuietTasksStep
<1>8. CASE AuditsCheckpoints(h)
  <2> DEFINE orphans  == WithCheckpoint \ Top(h).seen
             ended    == (WithCheckpoint \cap Top(h).seen) \ Top(h).waiting
             hopeless == Top(h).waiting \ WithCheckpoint
  <2>1. Top(h).waiting \subseteq Existing
    BY <1>3, <1>8 DEF Below, QuietTasks, AuditsCheckpoints, Doing, Top
  <2>2. orphans \in SUBSET Runs /\ ended \in SUBSET Runs /\ hopeless \in SUBSET Existing
    BY <1>5, <2>1
  <2>3. Instead(h, Each(orphans, "clear") \o Each(ended, "clear") \o Each(hopeless, "give_up"))
    BY <1>8 DEF AuditsCheckpoints
  <2> HIDE DEF orphans, ended, hopeless
  <2>4. /\ Each(orphans, "clear") \in Seq(Below) /\ Each(ended, "clear") \in Seq(Below)
        /\ Each(hopeless, "give_up") \in Seq(Below)
    BY <1>4, <2>2
  <2>5. Each(orphans, "clear") \o Each(ended, "clear") \in Seq(Below)
    BY <2>4, ConcatProperties
  <2>6. Each(orphans, "clear") \o Each(ended, "clear") \o Each(hopeless, "give_up") \in Seq(Below)
    BY <2>4, <2>5, ConcatProperties
  <2> QED BY <1>2, <2>3, <2>6, QuietTasksStep
<1> QED BY <1>6, <1>7, <1>8

(* A repair.                                                               *)
LEMMA RepairIsQuiet == Repair \in Seq(Below) /\ <<>> \in Seq(Below)
<1>1. StoreTask("scan") \in Below /\ StoreTask("audit_rows") \in Below
  <2>1. \A op \in {"scan", "audit_rows"} :
          /\ Task(op, "all", Fresh) \in Tasks /\ Task(op, "all", Fresh).op = op
    BY FreshFacts DEF Task, Tasks, Ops
  <2> QED BY <2>1 DEF Below, QuietTasks, GraphOps, StoreTask
<1> QED BY <1>1, Stacks, EmptySeq DEF Repair

(* Every access to a store.                                                *)
LEMMA StoreIsQuiet ==
  ASSUME StoreInv, ClosedInv, NEW h \in Handlers, Store(h)
  PROVE  ClosedInv'
BY SavesIsQuiet, ClearsIsQuiet, FailsIsQuiet, LooksIsQuiet DEF Store

-----------------------------------------------------------------------------
(* Requests, and the world around.                                         *)

(* A request starts a stack; a run without a row that it is about is new.  *)
LEMMA AcceptsIsQuiet ==
  ASSUME StoreInv, ClosedInv, NEW h \in Handlers, NEW tasks, Accepts(h, tasks),
         UNCHANGED <<row, checkpoint>>, used \subseteq used',
         Piled(tasks, Below', OnTop'),
         tasks # <<>> /\ Head(tasks).op \in Acting /\ Head(tasks).run \notin Existing
           => Head(tasks).run \notin used
  PROVE  ClosedInv'
<1>1. todo \in [Handlers -> Seq(SafeTasks(approved, outbox))]
  BY DEF StoreInv
<1>2. todo'[h] = tasks /\ \A g \in Handlers \ {h} : todo'[g] = todo[g]
  BY <1>1 DEF Accepts
<1>3. Existing' = Existing /\ Below' = Below /\ OnTop \subseteq OnTop'
  BY DEF Existing, Below, OnTop, FrontTasks
<1>4. todo'[h] # <<>> => Head(todo'[h]) \in Below' \cup OnTop' /\ Tail(todo'[h]) \in Seq(Below')
  BY <1>2, HeadTailProperties DEF Piled
<1>5. \A g \in Handlers \ {h} : todo'[g] # <<>> =>
        Head(todo'[g]) \in Below' \cup OnTop' /\ Tail(todo'[g]) \in Seq(Below')
  BY <1>2, <1>3, StackFacts DEF Top
<1>6. \A g \in Handlers, r \in Runs : Creating(g, r) => r \in used
  BY StackFacts DEF Creating, Below, OnTop, QuietTasks, FrontTasks, Acting, Run
<1>7. ASSUME NEW f \in Handlers, NEW g \in Handlers, NEW r \in Runs, Creating(f, r)', Creating(g, r)'
      PROVE  f = g
  <2>1. \A d \in Handlers \ {h} : Creating(d, r)' => Creating(d, r)
    BY <1>2, <1>3 DEF Creating, Top, Run
  <2>2. Creating(h, r)' => r \notin used
    BY <1>2, <1>3 DEF Creating, Top, Run
  <2>3. \A d \in Handlers \ {h} : Creating(d, r)' => ~Creating(h, r)'
    BY <1>6, <2>1, <2>2
  <2>4. CASE f # h /\ g # h
    BY <1>7, <2>1, <2>4 DEF ClosedInv
  <2> QED BY <1>7, <2>3, <2>4
<1>8. Existing' \subseteq used'
  BY <1>3 DEF ClosedInv
<1>9. (\A r \in Runs : checkpoint[r].at \in {"run", "end"} => checkpoint[r].st.status # "waiting_hitl")'
  BY DEF ClosedInv
<1>10. (\A g \in Handlers : todo[g] # <<>> =>
          /\ Top(g) \in QuietTasks(Existing) \cup FrontTasks(Existing, checkpoint, used)
          /\ Tail(todo[g]) \in Seq(QuietTasks(Existing)))'
  BY <1>4, <1>5 DEF Top, Below, OnTop
<1> QED BY <1>7, <1>8, <1>9, <1>10 DEF ClosedInv

(* Every request.                                                          *)
LEMMA RequestIsQuiet ==
  ASSUME StoreInv, ClosedInv, NEW h \in Handlers, Request(h)
  PROVE  ClosedInv'
<1>1. ASSUME NEW r \in Runs \ used, used' = used \cup {r}, UNCHANGED stores,
             NEW t \in Tasks, t.op = "begin", t.run = r, Accepts(h, <<t>>)
      PROVE  ClosedInv'
  <2>2. row' = row /\ checkpoint' = checkpoint /\ r \notin Existing
    BY <1>1 DEF stores, ClosedInv
  <2>3. t \in OnTop'
    <3>1. Existing' = Existing
      BY <2>2 DEF Existing
    <3> QED BY <1>1, <2>2, <3>1 DEF OnTop, FrontTasks, Acting, GraphOps, Carrying, Writing
  <2> DEFINE tasks == <<t>>
  <2>4. Piled(tasks, Below', OnTop') /\ Head(tasks).run = r
    BY <1>1, <2>3, ShortPiles
  <2>5. Accepts(h, tasks)
    BY <1>1
  <2> HIDE DEF tasks
  <2> QED BY <1>1, <2>2, <2>4, <2>5, AcceptsIsQuiet
<1>2. CASE CreateRun(h)
  <2>1. PICK r \in Runs \ used : used' = used \cup {r} /\ Accepts(h, <<Task("begin", r, Fresh)>>)
    BY <1>2 DEF CreateRun
  <2>2. UNCHANGED stores
    BY <1>2 DEF CreateRun
  <2> DEFINE t == Task("begin", r, Fresh)
  <2>3. t \in Tasks /\ t.op = "begin" /\ t.run = r
    BY FreshFacts DEF Task, Tasks, Ops
  <2> HIDE DEF t
  <2> QED BY <1>1, <2>1, <2>2, <2>3 DEF t
<1>3. CASE ValidatePlaybook(h)
  <2>1. PICK r \in Runs \ used :
          used' = used \cup {r} /\ Accepts(h, <<[Task("begin", r, Fresh) EXCEPT !.keep = FALSE]>>)
    BY <1>3 DEF ValidatePlaybook
  <2>2. UNCHANGED stores
    BY <1>3 DEF ValidatePlaybook
  <2> DEFINE t == [Task("begin", r, Fresh) EXCEPT !.keep = FALSE]
  <2>3. t \in Tasks /\ t.op = "begin" /\ t.run = r
    BY FreshFacts DEF Task, Tasks, Ops
  <2> HIDE DEF t
  <2> QED BY <1>1, <2>1, <2>2, <2>3 DEF t
<1>4. CASE DecideHitl(h)
  <2>1. PICK r \in Waiting, d \in {"approve", "reject", "return"} :
          Accepts(h, <<Task("check", r, [Loaded(r) EXCEPT !.decision = d])>>)
    BY <1>4 DEF DecideHitl
  <2> DEFINE st == [Loaded(r) EXCEPT !.decision = d]
             t == Task("check", r, st)
  <2>2. row' = row /\ checkpoint' = checkpoint /\ used' = used
    BY <1>4 DEF DecideHitl, stores
  <2>3. r \in Runs /\ r \in Existing /\ r \in used /\ row[r].status = "waiting_hitl"
    BY DEF Waiting, Existing, ClosedInv
  <2>4. st \in States
    <3>1. Loaded(r) \in States /\ d \in {"none", "approve", "reject", "return"}
      BY <2>3, LoadedFacts
    <3> QED BY <3>1, StateFacts
  <2> HIDE DEF st
  <2>5. t \in Tasks /\ t.op = "check" /\ t.run = r /\ t.keep
    BY <2>3, <2>4 DEF Task, Tasks, Ops
  <2> HIDE DEF t
  <2>6. t \in OnTop'
    <3>1. Existing' = Existing
      BY <2>2 DEF Existing
    <3> QED BY <2>2, <2>3, <2>5, <3>1 DEF OnTop, FrontTasks, Acting, GraphOps, Carrying, Writing
  <2> DEFINE tasks == <<t>>
  <2>7. Piled(tasks, Below', OnTop') /\ Head(tasks).run = r
    BY <2>5, <2>6, ShortPiles
  <2>8. Accepts(h, tasks)
    BY <2>1 DEF t, st
  <2> HIDE DEF tasks
  <2> QED BY <2>2, <2>3, <2>7, <2>8, AcceptsIsQuiet
<1>5. ASSUME NEW tasks \in Seq(Below), Accepts(h, tasks), UNCHANGED <<stores, used>>
      PROVE  ClosedInv'
  <2>1. row' = row /\ checkpoint' = checkpoint /\ used' = used
    BY <1>5 DEF stores
  <2>2. Below' = Below
    BY <2>1 DEF Below, Existing
  <2>3. Piled(tasks, Below', OnTop')
    BY <2>2, HeadTailProperties, SeqMonotonic DEF Piled
  <2>4. tasks # <<>> => Head(tasks) \in Below
    BY HeadTailProperties
  <2>5. tasks # <<>> /\ Head(tasks).op \in Acting /\ Head(tasks).run \notin Existing
          => Head(tasks).run \notin used
    BY <2>4 DEF Below, QuietTasks, Acting
  <2> QED BY <1>5, <2>1, <2>3, <2>5, AcceptsIsQuiet
<1>6. CASE CancelRun(h)
  <2>1. PICK r \in Existing :
          Accepts(h, Snapshot(r, [Loaded(r) EXCEPT !.status = "cancelled"]) \o <<Task("clear", r, Fresh)>>)
    BY <1>6 DEF CancelRun
  <2> DEFINE st == [Loaded(r) EXCEPT !.status = "cancelled"]
  <2>2. r \in Runs /\ "cancelled" \in Terminal \cup {"running", "waiting_hitl"}
    BY DEF Existing, Terminal
  <2>3. st \in States /\ st.status # "waiting_hitl"
    BY <2>2, LoadedFacts DEF Loaded
  <2> HIDE DEF st
  <2>4. Snapshot(r, st) \in Seq(Below)
    BY <2>3, SnapshotIsQuiet
  <2>5. Task("clear", r, Fresh) \in Below
    BY <2>2, FreshFacts, QuietFacts DEF Below
  <2>6. Snapshot(r, st) \o <<Task("clear", r, Fresh)>> \in Seq(Below)
    BY <2>4, <2>5, Stacks, ConcatProperties
  <2>7. UNCHANGED <<stores, used>>
    BY <1>6 DEF CancelRun
  <2> QED BY <1>5, <2>1, <2>6, <2>7 DEF st
<1>7. CASE PersistenceRepair(h)
  BY <1>5, <1>7, RepairIsQuiet DEF PersistenceRepair
<1> QED BY <1>2, <1>3, <1>4, <1>6, <1>7 DEF Request

(* The startup, healthy or not.                                            *)
LEMMA StartsUpIsQuiet ==
  ASSUME StoreInv, ClosedInv, StartsUp
  PROVE  ClosedInv'
<1>1. "startup" \in Handlers /\ todo["startup"] # <<>> /\ UNCHANGED <<row, checkpoint, used>>
  BY DEF Handlers, StartsUp, Doing, stores
<1> QED BY <1>1, RepairIsQuiet, QuietTasksStep DEF StartsUp

(* A wait that grows too old has a row, and keeps it.                      *)
LEMMA AgesIsQuiet ==
  ASSUME StoreInv, ClosedInv, Ages
  PROVE  ClosedInv' /\ \A r \in Runs : row'[r].status = row[r].status
<1>1. PICK r \in Waiting : row' = [row EXCEPT ![r].overdue = TRUE]
  BY DEF Ages
<1>2. \A q \in Runs : row'[q].status = row[q].status
  BY <1>1 DEF StoreInv, Waiting
<1>3. Existing' = Existing
  BY <1>2 DEF Existing
<1>4. UNCHANGED <<checkpoint, todo, used>>
  BY DEF Ages
<1> QED BY <1>2, <1>3, <1>4 DEF ClosedInv, Creating, Top, Run, Doing

(* A crash leaves nothing but the startup.                                 *)
LEMMA CrashesIsQuiet ==
  ASSUME StoreInv, ClosedInv, Crashes
  PROVE  ClosedInv'
<1>1. UNCHANGED <<row, checkpoint, used>>
  BY DEF Crashes, stores
<1> DEFINE t == StoreTask("startup")
<1>2. t \in Below' /\ t.op = "startup"
  BY <1>1, FreshFacts DEF Below, QuietTasks, GraphOps, StoreTask, Task, Tasks, Ops
<1>3. todo' = [h \in Handlers |-> IF h = "startup" THEN <<t>> ELSE <<>>]
  BY DEF Crashes
<1> HIDE DEF t
<1>4. <<t>> # <<>> /\ Head(<<t>>) = t /\ Tail(<<t>>) = <<>> /\ <<>> \in Seq(Below')
  BY EmptySeq
<1>5. \A h \in Handlers : todo'[h] # <<>> => Head(todo'[h]) = t /\ Tail(todo'[h]) \in Seq(Below')
  BY <1>3, <1>4
<1>6. Existing' = Existing
  BY <1>1 DEF Existing
<1>7. (\A h \in Handlers : todo[h] # <<>> =>
          /\ Top(h) \in QuietTasks(Existing) \cup FrontTasks(Existing, checkpoint, used)
          /\ Tail(todo[h]) \in Seq(QuietTasks(Existing)))'
  BY <1>2, <1>5 DEF Top, Below
<1>8. (\A g, h \in Handlers, r \in Runs : ~Creating(g, r))'
  BY <1>2, <1>5 DEF Creating, Top, Acting, GraphOps
<1> QED BY <1>1, <1>6, <1>7, <1>8 DEF ClosedInv

(* All of the steps together.                                              *)
LEMMA StepIsQuiet == StoreInv /\ ClosedInv /\ [Next]_vars => ClosedInv'
<1> SUFFICES ASSUME StoreInv, ClosedInv, [Next]_vars PROVE ClosedInv'
  OBVIOUS
<1>1. Threads \subseteq Handlers /\ "startup" \in Handlers
  BY DEF Handlers
<1>2. ASSUME NEW h \in Threads, Request(h) \/ Work(h) PROVE ClosedInv'
  BY <1>1, <1>2, RequestIsQuiet, GraphIsQuiet, StoreIsQuiet DEF Work
<1>3. CASE StartsUp \/ Store("startup") \/ Ages \/ Crashes
  BY <1>1, <1>3, StartsUpIsQuiet, StoreIsQuiet, AgesIsQuiet, CrashesIsQuiet
<1>4. CASE UNCHANGED vars
  BY <1>4 DEF vars, ClosedInv, Creating, Top, Run, Existing
<1> QED BY <1>2, <1>3, <1>4 DEF Next

(* At first there are no stacks and no rows.                               *)
LEMMA InitIsQuiet == Init => ClosedInv
BY DEF Init, ClosedInv, Existing, NoRow, NoCheckpoint, Creating

(* Whoever works on a run that has a row can no longer bring it back to    *)
(* the chief: only the handler that created a run, and it alone, holds a   *)
(* state that waits, and only until the first save (runner.py _persist).   *)
THEOREM GraphsOfClosedRunsAreDone == Spec => []ClosedInv
BY InitIsQuiet, StepIsQuiet, StoresAreSafe, PTL DEF Spec

(* Only a save and the passing of time change a row, and only the submit   *)
(* node changes a file.                                                    *)
LEMMA WhoWrites ==
  ASSUME [Next]_vars
  PROVE  /\ row' = row \/ Ages \/ \E h \in Handlers : Saves(h)
         /\ \/ outbox' = outbox
            \/ \E h \in Handlers : row' = row /\ (GraphOpensFile(h) \/ GraphFiles(h))
BY DEF vars, Next, Request, CreateRun, ValidatePlaybook, DecideHitl, CancelRun, PersistenceRepair,
   Work, Graph, GraphBegins, ChecksCheckpoint, GraphResumes, GraphDecides, GraphReplays,
   GraphFindsNoFile, GraphOpensFile, GraphFiles, SubmitFails, GraphFiled, GraphReturns,
   GraphRaises, Ticket, Store, Saves, Scans, Expires, Clears, AuditsRows, AuditsCheckpoints, GivesUp,
   StartsUp, Ages, Crashes, Handlers, stores

(* A run that has closed never waits for the chief again, however many     *)
(* threads decide, cancel, repair and expire it at once and wherever it    *)
(* crashes (main.py decide_hitl, cancel_run; tracing/store.py).            *)
THEOREM ClosedRunsStayClosed == Spec => NeverWaitsAgain
<1> DEFINE Closed == \A r \in Runs : row[r].status \in Terminal => row'[r].status # "waiting_hitl"
<1>1. StoreInv /\ ClosedInv /\ [Next]_vars => Closed
  <2> SUFFICES ASSUME StoreInv, ClosedInv, [Next]_vars, NEW r \in Runs, row[r].status \in Terminal
               PROVE  row'[r].status # "waiting_hitl"
    OBVIOUS
  <2>1. row[r].status # "waiting_hitl" /\ r \in Existing
    BY DEF Terminal, Existing
  <2>2. CASE row' = row
    BY <2>1, <2>2
  <2>3. ASSUME NEW h \in Handlers, Saves(h) PROVE row'[r].status # "waiting_hitl"
    BY <2>1, <2>3, SavesFacts
  <2>4. CASE Ages
    BY <2>1, <2>4, AgesIsQuiet
  <2> QED BY <2>2, <2>3, <2>4, WhoWrites
<1> QED BY <1>1, StoresAreSafe, GraphsOfClosedRunsAreDone, PTL DEF Spec, NeverWaitsAgain

=============================================================================
