--------------------------- MODULE PartsDesk_proofs ---------------------------
(***************************************************************************)
(* Proofs about PartsDesk, for any number of threads, edits and checks and *)
(* any contents of the ledger file.                                        *)
(***************************************************************************)
EXTENDS PartsDesk, SequenceTheorems, TLAPS

-----------------------------------------------------------------------------
(* What a version of the ledger file says of a hint, and what makes the    *)
(* ledger not know it.                                                     *)
ListedIn(bk, v, p) == p \in DOMAIN bk[v].rows
AliasedIn(bk, v, p) == p \in bk[v].aliases

Unlisted(bk, v, h) == ~ListedIn(bk, v, h.part) \/ (h.form = "alias" /\ ~AliasedIn(bk, v, h.part))

InStock(bk, v, h, model) ==
  /\ ListedIn(bk, v, h.part)
  /\ bk[v].rows[h.part].stock > 0
  /\ Compatible(model, bk[v].rows[h.part].models)

(* A pre-check on its way.                                                 *)
Indexes == {"no", "name", "alias"}

Checks ==
  [pc : {"stat", "test", "cstat", "ctest", "store", "publish", "reset", "post"},
   stage : {"draft", "node", "check", "fallback"}, req : Requests, hints : Seq(Hints), from : Nat,
   left : Seq(Hints), out : Seq(Hints), seen : SUBSET Hints, want : Indexes \cup {"ledger"},
   names : Nat, stamp : Nat, cstamp : Nat, data : Nat, answer : Answers \cup {None}]

(* No hint gets lost: one with its part is still to be looked at, or has   *)
(* been kept.                                                              *)
Covered(l) ==
  /\ \A h \in ToSet(l.hints) : \E g \in ToSet(l.left) \cup ToSet(l.out) : g.part = h.part
  /\ \A k \in l.seen : \E g \in ToSet(l.out) : g.part = k.part

(* No hint appears from nowhere: it has the part of one that was given,    *)
(* and is an alias only if that was one; a kept alias was unknown.         *)
Sourced(l, bk) ==
  \A g \in ToSet(l.left) \cup ToSet(l.out) : \E h \in ToSet(l.hints) :
    /\ h.part = g.part
    /\ g.form = "alias" => h.form = "alias"
    /\ g.form = "alias" /\ g \in ToSet(l.out) => \E v \in l.from .. Len(bk) : Unlisted(bk, v, h)

(* What holds whatever the pre-check does next.                            *)
Ready(l, bk) ==
  /\ l \in Checks /\ l.from \in 1 .. Len(bk)
  /\ Covered(l) /\ Sourced(l, bk)

(* What it has in hand is no older than it thinks, nor than its start.     *)
Timely(l, now) ==
  /\ l.pc \in {"stat", "test", "publish"} => l.want # "ledger"
  /\ l.want # "ledger" /\ l.pc \notin {"reset", "post"} => l.left # <<>>
  /\ l.want = "ledger" \/ l.pc = "post" => l.left = <<>>
  /\ l.want = "alias" => l.names \in l.from .. now
  /\ l.pc \in {"test", "cstat", "ctest", "store", "publish"} /\ l.want # "ledger" =>
       l.stamp \in l.from .. now
  /\ l.want = "ledger" => l.stamp = 0
  /\ l.pc \in {"ctest", "store"} => l.cstamp \in l.from .. now /\ l.stamp <= l.cstamp
  /\ l.pc = "store" => l.data \in l.cstamp .. now
  /\ l.pc = "publish" => l.data \in l.stamp .. now

(* The WMS is asked only where there is one.                               *)
Busy(l, bk, rm) == Ready(l, bk) /\ Timely(l, Len(bk)) /\ (l.pc = "post" => rm)

(* A pre-check that is done, and what its verdict is worth.                *)
Verdicts == [shortage : BOOLEAN, unknown_parts : BOOLEAN, model_mismatch : BOOLEAN,
             ledger_degraded : BOOLEAN]

Finished(l, bk, rm) ==
  /\ l.pc = "done" /\ l.hints \in Seq(Hints) /\ l.from \in 1 .. l.until /\ l.until \in 1 .. Len(bk)
  /\ l.verdict \in Verdicts \cup {None}
  /\ ~rm /\ Clean(l.verdict) =>
       \A h \in ToSet(l.hints) : \E v \in l.from .. l.until : InStock(bk, v, h, l.req.model)
  /\ ~rm /\ l.verdict # None /\ l.verdict.unknown_parts =>
       \E h \in ToSet(l.hints), v \in l.from .. l.until : Unlisted(bk, v, h)
  /\ l.verdict = None => \E v \in l.from .. l.until : ~bk[v].whole

Sound(l, bk, rm) == l = Idle \/ Busy(l, bk, rm) \/ Finished(l, bk, rm)

(* A cache was read after it was stamped.                                  *)
Caches(now) == {None} \cup {c \in [data : 1 .. now, stamp : 1 .. now] : c.stamp <= c.data}

DeskInv ==
  /\ remote \in BOOLEAN
  /\ book \in Seq(Contents) /\ Now \in 1 .. MaxEdits + 1
  /\ cat \in Caches(Now) /\ master \in Caches(Now)
  /\ checks \in 0 .. MaxChecks
  /\ th = [t \in Threads |-> th[t]]
  /\ \A t \in Threads : Sound(th[t], book, remote)

-----------------------------------------------------------------------------
(* What is on a list, when its head is taken off or something is added.    *)
LEMMA OnList ==
  ASSUME NEW S, NEW s \in Seq(S)
  PROVE  /\ ToSet(s) \subseteq S /\ <<>> \in Seq(S) /\ ToSet(<<>>) = {}
         /\ s # <<>> => /\ Head(s) \in S /\ Tail(s) \in Seq(S)
                        /\ ToSet(s) = {Head(s)} \cup ToSet(Tail(s))
         /\ \A e \in S : Append(s, e) \in Seq(S) /\ ToSet(Append(s, e)) = ToSet(s) \cup {e}
<1>1. ToSet(s) \subseteq S /\ <<>> \in Seq(S) /\ ToSet(<<>>) = {}
  BY LenProperties, EmptySeq DEF ToSet
<1>2. ASSUME s # <<>>
      PROVE  Head(s) \in S /\ Tail(s) \in Seq(S) /\ ToSet(s) = {Head(s)} \cup ToSet(Tail(s))
  <2>1. /\ Len(s) \in Nat \ {0} /\ DOMAIN s = 1 .. Len(s) /\ Head(s) = s[1] /\ Head(s) \in S
        /\ Tail(s) \in Seq(S) /\ Len(Tail(s)) = Len(s) - 1
        /\ \A i \in 1 .. Len(s) - 1 : Tail(s)[i] = s[i + 1]
    BY <1>2, EmptySeq, LenProperties, HeadTailProperties
  <2>2. DOMAIN Tail(s) = 1 .. Len(s) - 1
    BY <2>1, LenProperties
  <2>3. \A i \in 1 .. Len(s) : i = 1 \/ (i - 1 \in 1 .. Len(s) - 1 /\ s[i] = Tail(s)[i - 1])
    BY <2>1
  <2>4. ToSet(s) \subseteq {Head(s)} \cup ToSet(Tail(s))
    <3>1. \A i \in 1 .. Len(s) - 1 : Tail(s)[i] \in ToSet(Tail(s))
      BY <2>2 DEF ToSet
    <3>2. \A i \in 1 .. Len(s) : s[i] \in {Head(s)} \cup ToSet(Tail(s))
      BY <2>1, <2>3, <3>1
    <3> QED BY <2>1, <3>2 DEF ToSet
  <2>5. \A i \in 1 .. Len(s) - 1 : i + 1 \in 1 .. Len(s) /\ Tail(s)[i] = s[i + 1]
    BY <2>1
  <2>6. ToSet(Tail(s)) \subseteq ToSet(s) /\ Head(s) \in ToSet(s)
    BY <2>1, <2>2, <2>5 DEF ToSet
  <2> QED BY <2>1, <2>4, <2>6
<1>3. ASSUME NEW e \in S
      PROVE  Append(s, e) \in Seq(S) /\ ToSet(Append(s, e)) = ToSet(s) \cup {e}
  <2> DEFINE n == Len(s)
  <2>1. /\ n \in Nat /\ DOMAIN s = 1 .. n /\ Append(s, e) \in Seq(S) /\ Len(Append(s, e)) = n + 1
        /\ Append(s, e)[n + 1] = e /\ \A i \in 1 .. n : Append(s, e)[i] = s[i]
    BY AppendProperties, LenProperties
  <2>2. DOMAIN Append(s, e) = 1 .. n + 1
    BY <2>1, LenProperties
  <2> HIDE DEF n
  <2>3. \A i \in 1 .. n + 1 : i = n + 1 \/ i \in 1 .. n
    BY <2>1
  <2>4. \A i \in 1 .. n : i \in 1 .. n + 1
    BY <2>1
  <2>5. n + 1 \in 1 .. n + 1
    BY <2>1
  <2>6. \A x \in ToSet(Append(s, e)) : x \in ToSet(s) \cup {e}
    BY <2>1, <2>2, <2>3 DEF ToSet
  <2>7. \A x \in ToSet(s) \cup {e} : x \in ToSet(Append(s, e))
    BY <2>1, <2>2, <2>4, <2>5 DEF ToSet
  <2> QED BY <2>1, <2>6, <2>7
<1> QED BY <1>1, <1>2, <1>3

-----------------------------------------------------------------------------
(* How a pre-check goes on.                                                *)

(* Nothing of what a pre-check has to do, or has done, is touched.         *)
SameWork(l, m) ==
  /\ m.hints = l.hints /\ m.from = l.from /\ m.left = l.left /\ m.out = l.out /\ m.seen = l.seen
  /\ m.stage = l.stage /\ m.req = l.req

(* A check that goes on with the same work is as fit to go on as it was.   *)
LEMMA SameWorkIsReady ==
  ASSUME NEW bk, NEW l, Ready(l, bk), NEW m \in Checks, SameWork(l, m)
  PROVE  Ready(m, bk)
BY DEF Ready, SameWork, Covered, Sourced

(* A look at an index, or at the ledger, starts from its time stamp.       *)
LEMMA LookFacts ==
  ASSUME NEW l \in Checks, NEW index \in Indexes \cup {"ledger"}
  PROVE  /\ Look(l, index) \in Checks /\ SameWork(l, Look(l, index))
         /\ Look(l, index).pc = "stat" /\ Look(l, index).want = index
         /\ Look(l, index).stamp = 0 /\ Look(l, index).cstamp = 0 /\ Look(l, index).data = 0
         /\ index = "alias" => Look(l, index).names = l.names
         /\ index # "alias" => Look(l, index).names = 0
         /\ Look(l, index).answer = l.answer
BY DEF Look, Checks, SameWork

(* A check with parts left to look up may turn to any index of the book.   *)
LEMMA LookIsBusy ==
  ASSUME NEW bk, NEW rm, NEW l, Ready(l, bk), l.left # <<>>, NEW index \in Indexes,
         index = "alias" => l.names \in l.from .. Len(bk)
  PROVE  Busy(Look(l, index), bk, rm)
<1> DEFINE m == Look(l, index)
<1>1. l \in Checks /\ index \in Indexes \cup {"ledger"} /\ index # "ledger"
  BY DEF Ready, Indexes
<1>2. /\ m \in Checks /\ SameWork(l, m) /\ m.pc = "stat" /\ m.want = index
      /\ index = "alias" => m.names = l.names
  BY <1>1, LookFacts
<1> HIDE DEF m
<1>3. Ready(m, bk)
  BY <1>2, SameWorkIsReady
<1>4. Timely(m, Len(bk))
  BY <1>1, <1>2 DEF Timely, SameWork
<1> QED BY <1>2, <1>3, <1>4 DEF Busy, m

(* The next stage starts with what the last one kept.                      *)
LEMMA StageIsReady ==
  ASSUME NEW bk, NEW rm, NEW l, Ready(l, bk), l.left = <<>>,
         NEW stage \in {"node", "check", "fallback"}, NEW pc \in {"stat", "reset"},
         pc = "stat" => l.out # <<>>
  PROVE  Busy(Stage(l, stage, pc), bk, rm)
<1> DEFINE k == Look(l, "no")
           m == Stage(l, stage, pc)
<1>1. l \in Checks /\ "no" \in Indexes \cup {"ledger"}
  BY DEF Ready, Indexes
<1>2. k \in Checks /\ SameWork(l, k) /\ k.want = "no" /\ k.stamp = 0
  BY <1>1, LookFacts
<1>3. m = [k EXCEPT !.stage = stage, !.pc = pc, !.left = l.out, !.out = <<>>, !.seen = {}]
  BY DEF Stage
<1> HIDE DEF k, m
<1>4. l.out \in Seq(Hints) /\ <<>> \in Seq(Hints) /\ ToSet(<<>>) = {}
  BY <1>1, OnList DEF Checks
<1>5. /\ m \in Checks /\ m.pc = pc /\ m.want = "no" /\ m.hints = l.hints /\ m.from = l.from
      /\ m.left = l.out /\ m.out = <<>> /\ m.seen = {}
  BY <1>2, <1>3, <1>4 DEF Checks, SameWork
<1>6. Covered(m)
  BY <1>4, <1>5 DEF Ready, Covered
<1>7. Sourced(m, bk)
  BY <1>4, <1>5 DEF Ready, Sourced
<1>8. Timely(m, Len(bk))
  BY <1>5 DEF Timely
<1> QED BY <1>5, <1>6, <1>7, <1>8 DEF Busy, Ready, m

(* The normalised hints go on to the next stage, to the WMS or to the      *)
(* ledger; while there are some left, the next one is looked up.           *)
LEMMA NextIsBusy ==
  ASSUME NEW bk, NEW l, Ready(l, bk)
  PROVE  Busy(NextHint(l), bk, remote)
<1>1. l \in Checks /\ "no" \in Indexes
  BY DEF Ready, Indexes
<1>2. CASE l.left # <<>>
  BY <1>1, <1>2, LookIsBusy DEF NextHint
<1>3. CASE l.left = <<>>
  <2>1. NextHint(l) = Normalised(l)
    BY <1>3 DEF NextHint
  <2>2. CASE l.stage = "draft" /\ l.out # <<>>
    BY <1>3, <2>1, <2>2, StageIsReady DEF Normalised
  <2>3. CASE (l.stage = "draft" /\ l.out = <<>>) \/ l.stage = "node"
    BY <1>3, <2>1, <2>3, StageIsReady DEF Normalised
  <2>4. CASE l.stage = "check" /\ remote
    <3> DEFINE k == Look(l, "no")
               m == [k EXCEPT !.pc = "post"]
    <3>1. k \in Checks /\ SameWork(l, k) /\ k.want = "no"
      BY <1>1, LookFacts
    <3>2. NextHint(l) = m
      BY <2>1, <2>4 DEF Normalised
    <3> HIDE DEF k
    <3>3. m \in Checks /\ SameWork(l, m) /\ m.want = "no" /\ m.pc = "post"
      BY <3>1 DEF Checks, SameWork
    <3> HIDE DEF m
    <3>4. Ready(m, bk)
      BY <3>3, SameWorkIsReady
    <3>5. Timely(m, Len(bk))
      BY <1>3, <3>3 DEF Timely, SameWork
    <3> QED BY <2>4, <3>2, <3>4, <3>5 DEF Busy
  <2>5. CASE ~(l.stage = "draft" \/ l.stage = "node" \/ (l.stage = "check" /\ remote))
    <3> DEFINE k == Look(l, "ledger")
               m == [k EXCEPT !.pc = "cstat", !.seen = {}]
    <3>1. k \in Checks /\ SameWork(l, k) /\ k.want = "ledger" /\ k.stamp = 0
      BY <1>1, LookFacts
    <3>2. NextHint(l) = m
      BY <2>1, <2>5 DEF Normalised, LoadLedger
    <3> HIDE DEF k
    <3>3. /\ m \in Checks /\ m.want = "ledger" /\ m.pc = "cstat" /\ m.stamp = 0
          /\ m.hints = l.hints /\ m.from = l.from /\ m.left = l.left /\ m.out = l.out /\ m.seen = {}
      BY <3>1 DEF Checks, SameWork
    <3> HIDE DEF m
    <3>4. Ready(m, bk)
      BY <3>3 DEF Ready, Covered, Sourced
    <3>5. Timely(m, Len(bk))
      BY <1>3, <3>3 DEF Timely
    <3> QED BY <3>2, <3>3, <3>4, <3>5 DEF Busy
  <2> QED BY <2>2, <2>3, <2>4, <2>5
<1> QED BY <1>2, <1>3

(* The hint at hand is kept, in some form, or had been kept before.        *)
LEMMA KeepIsReady ==
  ASSUME NEW bk, NEW l, Ready(l, bk), l.left # <<>>, NEW g \in Hints, NEW key \in Hints,
         g.part = Head(l.left).part, key.part = g.part,
         g.form = "alias" => g = Head(l.left) /\ \E v \in l.from .. Len(bk) : Unlisted(bk, v, g)
  PROVE  Ready(Keep([l EXCEPT !.left = Tail(@)], g, key), bk)
<1> DEFINE rest == [l EXCEPT !.left = Tail(@)]
           m == Keep(rest, g, key)
           top == Head(l.left)
<1>1. l \in Checks /\ l.left \in Seq(Hints) /\ l.out \in Seq(Hints) /\ l.hints \in Seq(Hints)
  BY DEF Ready, Checks
<1>2. /\ top \in Hints /\ Tail(l.left) \in Seq(Hints) /\ ToSet(l.left) = {top} \cup ToSet(Tail(l.left))
      /\ Append(l.out, g) \in Seq(Hints) /\ ToSet(Append(l.out, g)) = ToSet(l.out) \cup {g}
  BY <1>1, OnList
<1>3. /\ rest \in Checks /\ rest.hints = l.hints /\ rest.from = l.from /\ rest.left = Tail(l.left)
      /\ rest.out = l.out /\ rest.seen = l.seen
  BY <1>1, <1>2 DEF Checks
<1> HIDE DEF rest, top
<1>4. /\ m \in Checks /\ m.hints = l.hints /\ m.from = l.from /\ m.left = Tail(l.left)
      /\ \/ key \in l.seen /\ m.out = l.out /\ m.seen = l.seen
         \/ m.out = Append(l.out, g) /\ m.seen = l.seen \cup {key}
  <2>1. CASE key \in l.seen
    BY <1>3, <2>1 DEF Keep
  <2>2. CASE key \notin l.seen
    <3> DEFINE out == Append(l.out, g)
               seen == l.seen \cup {key}
    <3>1. m = [rest EXCEPT !.out = out, !.seen = seen]
      BY <1>3, <2>2 DEF Keep
    <3>2. seen \in SUBSET Hints
      BY <1>1 DEF Checks
    <3>3. out \in Seq(Hints)
      BY <1>2
    <3> HIDE DEF m, out, seen
    <3>4. m \in Checks /\ m.out = out /\ m.seen = seen
      BY <1>3, <3>1, <3>2, <3>3 DEF Checks
    <3>5. m.hints = l.hints /\ m.from = l.from /\ m.left = Tail(l.left)
      BY <1>3, <3>1 DEF Checks
    <3> QED BY <3>4, <3>5 DEF out, seen
  <2> QED BY <2>1, <2>2
<1> HIDE DEF m
<1>5. /\ ToSet(m.out) \subseteq ToSet(l.out) \cup {g} /\ ToSet(l.out) \subseteq ToSet(m.out)
      /\ key \notin l.seen => g \in ToSet(m.out)
  BY <1>2, <1>4
<1>6. \A k \in m.seen : \E f \in ToSet(m.out) : f.part = k.part
  <2>1. \A k \in l.seen : \E f \in ToSet(m.out) : f.part = k.part
    BY <1>5 DEF Ready, Covered
  <2> QED BY <1>4, <1>5, <2>1
<1>7. \E f \in ToSet(m.out) : f.part = top.part
  <2>1. CASE key \in l.seen
    BY <2>1, <1>5 DEF Ready, Covered, top
  <2>2. CASE key \notin l.seen
    BY <2>2, <1>5 DEF top
  <2> QED BY <2>1, <2>2
<1>8. Covered(m)
  <2> SUFFICES ASSUME NEW h \in ToSet(m.hints)
               PROVE  \E f \in ToSet(m.left) \cup ToSet(m.out) : f.part = h.part
    BY <1>6 DEF Covered
  <2>1. PICK f \in ToSet(l.left) \cup ToSet(l.out) : f.part = h.part
    BY <1>4 DEF Ready, Covered
  <2>2. CASE f = top
    BY <1>7, <2>1, <2>2
  <2>3. CASE f # top
    BY <1>2, <1>4, <1>5, <2>1, <2>3
  <2> QED BY <2>2, <2>3
<1>9. Sourced(m, bk)
  <2> SUFFICES ASSUME NEW f \in ToSet(m.left) \cup ToSet(m.out)
               PROVE  \E h \in ToSet(l.hints) :
                        /\ h.part = f.part
                        /\ f.form = "alias" => h.form = "alias"
                        /\ f.form = "alias" /\ f \in ToSet(m.out) =>
                             \E v \in l.from .. Len(bk) : Unlisted(bk, v, h)
    BY <1>4 DEF Sourced
  <2>1. CASE f = g /\ g.form = "alias"
    <3>1. g = top /\ g \in ToSet(l.left)
      BY <1>2, <2>1 DEF top
    <3>2. PICK h \in ToSet(l.hints) : h.part = g.part /\ h.form = "alias"
      BY <2>1, <3>1 DEF Ready, Sourced
    <3>3. PICK v \in l.from .. Len(bk) : Unlisted(bk, v, g)
      BY <2>1
    <3>4. Unlisted(bk, v, h)
      BY <2>1, <3>2, <3>3 DEF Unlisted
    <3> QED BY <2>1, <3>2, <3>4
  <2>2. CASE f = g /\ g.form # "alias"
    <3>1. PICK h \in ToSet(l.hints) : h.part = top.part
      BY <1>2 DEF Ready, Sourced
    <3> QED BY <2>2, <3>1 DEF top
  <2>3. CASE f # g
    <3>1. f \in ToSet(l.left) \cup ToSet(l.out) /\ (f \in ToSet(m.out) => f \in ToSet(l.out))
      BY <1>2, <1>4, <1>5, <2>3
    <3>2. PICK h \in ToSet(l.hints) :
            /\ h.part = f.part
            /\ f.form = "alias" => h.form = "alias"
            /\ f.form = "alias" /\ f \in ToSet(l.out) => \E v \in l.from .. Len(bk) : Unlisted(bk, v, h)
      BY <3>1 DEF Ready, Sourced
    <3> QED BY <3>1, <3>2
  <2> QED BY <2>1, <2>2, <2>3
<1>10. Ready(m, bk)
  BY <1>4, <1>8, <1>9 DEF Ready
<1> QED BY <1>10 DEF m, rest

(* A hint that an index has is kept under its name.                        *)
LEMMA MatchedIsBusy ==
  ASSUME NEW bk, NEW l, Ready(l, bk), l.left # <<>>
  PROVE  Busy(NextHint(Matched([l EXCEPT !.left = Tail(@)], Head(l.left))), bk, remote)
<1> DEFINE h == Head(l.left)
           g == [h EXCEPT !.form = "name"]
           key == [h EXCEPT !.form = "no"]
<1>1. l.left \in Seq(Hints)
  BY DEF Ready, Checks
<1>2. h \in Hints
  BY <1>1, OnList
<1>3. g \in Hints /\ key \in Hints /\ g.part = h.part /\ key.part = h.part /\ g.form # "alias"
  BY <1>2 DEF Hints
<1>4. Matched([l EXCEPT !.left = Tail(@)], h) = Keep([l EXCEPT !.left = Tail(@)], g, key)
  BY DEF Matched
<1> HIDE DEF g, key
<1>5. Ready(Keep([l EXCEPT !.left = Tail(@)], g, key), bk)
  BY <1>3, KeepIsReady
<1> QED BY <1>4, <1>5, NextIsBusy

(* One index is consulted, and the hint is kept or looked up in the next.  *)
LEMMA ResolveIsBusy ==
  ASSUME NEW l, Ready(l, book), l.left # <<>>, l.want \in Indexes, NEW v \in l.from .. Now,
         l.want = "alias" => l.names \in l.from .. Now
  PROVE  Busy(Resolve(l, v), book, remote)
<1> DEFINE h == Head(l.left)
           rest == [l EXCEPT !.left = Tail(@)]
<1>1. l.left \in Seq(Hints) /\ l \in Checks /\ l.from \in 1 .. Len(book) /\ Now = Len(book)
  BY DEF Ready, Checks, Now
<1>2. h \in Hints
  BY <1>1, OnList
<1>3. Busy(NextHint(Matched(rest, h)), book, remote)
  BY MatchedIsBusy
<1>4. CASE l.want = "no"
  <2>1. Busy(Look(l, "name"), book, remote)
    BY LookIsBusy DEF Indexes
  <2>2. Resolve(l, v) \in {NextHint(Matched(rest, h)), Look(l, "name")}
    BY <1>4 DEF Resolve
  <2> QED BY <1>3, <2>1, <2>2
<1>5. CASE l.want = "name"
  <2> DEFINE k == [l EXCEPT !.names = v]
  <2>1. v \in Nat /\ v \in l.from .. Len(book)
    BY <1>1
  <2>2. k \in Checks /\ SameWork(l, k) /\ k.names = v
    BY <1>1, <2>1 DEF Checks, SameWork
  <2> HIDE DEF k
  <2>3. Ready(k, book)
    BY <2>2, SameWorkIsReady
  <2>4. Busy(Look(k, "alias"), book, remote)
    BY <2>1, <2>2, <2>3, LookIsBusy DEF Indexes, SameWork
  <2>5. Resolve(l, v) \in {NextHint(Matched(rest, h)), Look(k, "alias")}
    BY <1>5 DEF Resolve, k
  <2> QED BY <1>3, <2>4, <2>5
<1>6. CASE l.want = "alias"
  <2>1. CASE h.form = "alias" /\ Aliased(v, h.part) /\ Listed(l.names, h.part)
    <3>1. Resolve(l, v) = NextHint(Matched(rest, h))
      BY <1>6, <2>1 DEF Resolve
    <3> QED BY <1>3, <3>1
  <2>2. CASE ~(h.form = "alias" /\ Aliased(v, h.part) /\ Listed(l.names, h.part))
    <3>1. Resolve(l, v) = NextHint(Keep(rest, h, h))
      BY <1>6, <2>2 DEF Resolve
    <3>2. h.form = "alias" => Unlisted(book, v, h) \/ Unlisted(book, l.names, h)
      BY <2>2 DEF Unlisted, Listed, Aliased, ListedIn, AliasedIn
    <3>3. h.form = "alias" => \E w \in l.from .. Len(book) : Unlisted(book, w, h)
      BY <1>1, <1>6, <3>2
    <3>4. Ready(Keep(rest, h, h), book)
      BY <1>2, <3>3, KeepIsReady
    <3> QED BY <3>1, <3>4, NextIsBusy
  <2> QED BY <2>1, <2>2
<1> QED BY <1>4, <1>5, <1>6 DEF Indexes

-----------------------------------------------------------------------------
(* How a pre-check ends.                                                   *)

(* A verdict says which statuses it was made of.                           *)
LEMMA VerdictFacts ==
  ASSUME NEW statuses, NEW degraded \in BOOLEAN
  PROVE  /\ Verdict(statuses, degraded) \in Verdicts /\ None \notin Verdicts
         /\ Verdict(statuses, degraded).shortage = ("shortage" \in statuses)
         /\ Verdict(statuses, degraded).unknown_parts = ("unknown" \in statuses)
         /\ Verdict(statuses, degraded).model_mismatch = ("model_mismatch" \in statuses)
BY DeskAssumption DEF Verdict, Verdicts

(* Every pre-check that returns has the run it came with.                  *)
LEMMA ReturnsFacts ==
  ASSUME NEW l, NEW verdict
  PROVE  /\ Returns(l, verdict).pc = "done" /\ Returns(l, verdict).req = l.req
         /\ Returns(l, verdict).hints = l.hints /\ Returns(l, verdict).from = l.from
         /\ Returns(l, verdict).until = Now /\ Returns(l, verdict).verdict = verdict
BY DEF Returns

(* The local ledger knows, part by part, what its verdict says.            *)
LEMMA CheckIsFinished ==
  ASSUME book \in Seq(Contents), NEW l, Ready(l, book), l.left = <<>>, NEW v \in l.from .. Now
  PROVE  Finished(CheckLedger(l, v), book, remote)
<1> DEFINE statuses == {Status(l, v, l.out[i]) : i \in DOMAIN l.out}
           verdict == Verdict(statuses, l.stage = "fallback")
           m == CheckLedger(l, v)
<1>1. /\ l \in Checks /\ l.hints \in Seq(Hints) /\ l.out \in Seq(Hints) /\ l.from \in 1 .. Now
      /\ Now = Len(book) /\ Now \in Nat /\ ToSet(<<>>) = {}
  BY EmptySeq, LenProperties DEF Ready, Checks, Now, ToSet
<1>2. /\ verdict \in Verdicts /\ verdict # None
      /\ verdict.shortage = ("shortage" \in statuses)
      /\ verdict.unknown_parts = ("unknown" \in statuses)
      /\ verdict.model_mismatch = ("model_mismatch" \in statuses)
  BY VerdictFacts
<1>3. /\ m.pc = "done" /\ m.req = l.req /\ m.hints = l.hints /\ m.from = l.from /\ m.until = Now
      /\ m.verdict = verdict
  BY ReturnsFacts DEF CheckLedger
<1>4. \A g \in ToSet(l.out) : Status(l, v, g) \in statuses
  BY DEF ToSet
<1>5. \A x \in statuses : \E g \in ToSet(l.out) : x = Status(l, v, g)
  BY DEF ToSet
<1> HIDE DEF m, verdict, statuses
<1>6. ASSUME Clean(m.verdict), NEW h \in ToSet(m.hints)
      PROVE  \E w \in m.from .. m.until : InStock(book, w, h, m.req.model)
  <2>1. PICK g \in ToSet(l.out) : g.part = h.part
    BY <1>1, <1>3 DEF Ready, Covered
  <2>2. Status(l, v, g) \notin {"shortage", "unknown", "model_mismatch"}
    BY <1>2, <1>3, <1>4, <1>6 DEF Clean
  <2>3. InStock(book, v, g, l.req.model)
    BY <2>2 DEF Status, InStock, Listed, ListedIn
  <2>4. InStock(book, v, h, l.req.model)
    BY <2>1, <2>3 DEF InStock
  <2> QED BY <1>3, <2>4
<1>7. ASSUME m.verdict.unknown_parts
      PROVE  \E h \in ToSet(m.hints), w \in m.from .. m.until : Unlisted(book, w, h)
  <2>1. PICK g \in ToSet(l.out) : Status(l, v, g) = "unknown"
    BY <1>2, <1>3, <1>5, <1>7
  <2>2. g.form = "alias" \/ ~ListedIn(book, v, g.part)
    BY <2>1 DEF Status, Listed, ListedIn
  <2>3. PICK h \in ToSet(l.hints) :
          h.part = g.part /\ (g.form = "alias" => \E w \in l.from .. Len(book) : Unlisted(book, w, h))
    BY DEF Ready, Sourced
  <2>4. CASE g.form = "alias"
    BY <1>1, <1>3, <2>3, <2>4
  <2>5. CASE ~ListedIn(book, v, g.part)
    <3>1. Unlisted(book, v, h)
      BY <2>3, <2>5 DEF Unlisted
    <3> QED BY <1>3, <3>1
  <2> QED BY <2>2, <2>4, <2>5
<1>8. /\ m.hints \in Seq(Hints) /\ m.from \in 1 .. m.until /\ m.until \in 1 .. Len(book)
      /\ m.verdict \in Verdicts /\ m.verdict # None
  BY <1>1, <1>2, <1>3
<1>9. Finished(m, book, remote)
  BY <1>3, <1>6, <1>7, <1>8 DEF Finished
<1> QED BY <1>9 DEF m

-----------------------------------------------------------------------------
(* Steps.                                                                  *)

(* A thread that has a pc of a pre-check on its way is on its way.         *)
LEMMA BusyFacts ==
  ASSUME DeskInv, NEW t \in Threads, th[t].pc \notin {"idle", "done"}
  PROVE  /\ Busy(th[t], book, remote) /\ Ready(th[t], book) /\ Timely(th[t], Now)
         /\ th[t] \in Checks /\ th[t].from \in 1 .. Now /\ Now \in Nat /\ Now = Len(book)
<1>1. Busy(th[t], book, remote)
  BY DEF DeskInv, Sound, Idle, Finished
<1>2. Now \in Nat /\ Now = Len(book)
  BY LenProperties DEF DeskInv, Now
<1> QED BY <1>1, <1>2 DEF Busy, Ready

(* The step of one thread, while nobody edits the file.                    *)
LEMMA ThreadStep ==
  ASSUME DeskInv, NEW t \in Threads, NEW l, Moves(t, l), Sound(l, book, remote),
         remote' = remote, book' = book, checks' \in 0 .. MaxChecks,
         cat' \in Caches(Now), master' \in Caches(Now)
  PROVE  DeskInv'
<1>1. th' = [u \in Threads |-> IF u = t THEN l ELSE th[u]]
  BY DEF Moves, DeskInv
<1>2. \A u \in Threads : Sound(th'[u], book, remote)
  BY <1>1 DEF DeskInv
<1>3. Now' = Now
  BY DEF Now
<1>4. (\A u \in Threads : Sound(th[u], book, remote))'
  BY <1>2
<1>5. (th = [u \in Threads |-> th[u]])'
  BY <1>1
<1> QED BY <1>3, <1>4, <1>5 DEF DeskInv

(* A thread that takes note of something works on as before.               *)
LEMMA NotesIsReady ==
  ASSUME NEW bk, NEW l, Ready(l, bk), NEW m \in Checks, SameWork(l, m), Timely(m, Len(bk)),
         m.pc # "post", NEW rm
  PROVE  Sound(m, bk, rm)
BY SameWorkIsReady DEF Sound, Busy

(* A pre-check begins.                                                     *)
LEMMA BeginIsSound ==
  ASSUME DeskInv, NEW t \in Threads, Begin(t)
  PROVE  DeskInv'
<1>1. PICK r \in Requests :
        LET hints == IF r.forced # <<>> THEN r.forced ELSE RawHints(r)
            l == [pc |-> "stat", stage |-> IF r.forced # <<>> THEN "node" ELSE "draft",
                  req |-> r, hints |-> hints, from |-> Now, left |-> hints, out |-> <<>>,
                  seen |-> {}, want |-> "no", names |-> 0, stamp |-> 0, cstamp |-> 0, data |-> 0,
                  answer |-> None]
        IN  Moves(t, NextHint(l))
  BY DEF Begin
<1> DEFINE hints == IF r.forced # <<>> THEN r.forced ELSE RawHints(r)
           stage == IF r.forced # <<>> THEN "node" ELSE "draft"
           now == Now
           l == [pc |-> "stat", stage |-> stage,
                 req |-> r, hints |-> hints, from |-> now, left |-> hints, out |-> <<>>,
                 seen |-> {}, want |-> "no", names |-> 0, stamp |-> 0, cstamp |-> 0, data |-> 0,
                 answer |-> None]
<1>2. Moves(t, NextHint(l))
  BY <1>1
<1>3. hints \in Seq(Hints) /\ <<>> \in Seq(Hints) /\ ToSet(<<>>) = {}
  BY HintsAssumption, EmptySeq, OnList
<1>4. now \in Nat /\ now \in 1 .. Len(book) /\ now = Len(book)
  BY LenProperties DEF DeskInv, Now
<1>5. stage \in {"draft", "node", "check", "fallback"}
  OBVIOUS
<1> HIDE DEF hints, stage, now
<1>6. "no" \in Indexes \cup {"ledger"}
  BY DEF Indexes
<1>7. l \in Checks
  BY <1>3, <1>4, <1>5, <1>6 DEF Checks
<1>8. l.hints = hints /\ l.from = now /\ l.left = hints /\ l.out = <<>> /\ l.seen = {}
  OBVIOUS
<1> HIDE DEF l
<1>9. Ready(l, book)
  BY <1>3, <1>4, <1>7, <1>8 DEF Ready, Covered, Sourced
<1>10. Sound(NextHint(l), book, remote)
  BY <1>9, NextIsBusy DEF Sound
<1>11. checks' \in 0 .. MaxChecks /\ UNCHANGED <<remote, book, cat, master>>
  BY DeskAssumption DEF Begin, DeskInv
<1>12. cat' \in Caches(Now) /\ master' \in Caches(Now)
  BY <1>11 DEF DeskInv
<1> QED BY <1>2, <1>10, <1>11, <1>12, ThreadStep

(* What a step of a pre-check leaves alone.                                *)
LEMMA SameFacts ==
  ASSUME DeskInv, Same
  PROVE  /\ remote' = remote /\ book' = book /\ checks' \in 0 .. MaxChecks
         /\ cat' = cat => cat' \in Caches(Now)
         /\ master' = master => master' \in Caches(Now)
         /\ None \in Caches(Now)
BY DEF DeskInv, Same, Caches

(* The time of the file is read: it is that of the newest version.         *)
LEMMA StatIsSound ==
  ASSUME DeskInv, NEW t \in Threads, Stat(t) \/ CatalogStat(t)
  PROVE  DeskInv'
<1> DEFINE l == th[t]
<1>1. Same /\ cat' = cat /\ master' = master
  BY DEF Stat, CatalogStat
<1>2. l.pc \notin {"idle", "done"}
  BY DEF Stat, CatalogStat
<1>3. /\ Ready(l, book) /\ Timely(l, Now) /\ l \in Checks /\ l.from \in 1 .. Now /\ Now \in Nat
      /\ Now = Len(book)
  BY <1>2, BusyFacts
<1>4. CASE Stat(t)
  <2> DEFINE m == [l EXCEPT !.stamp = Now, !.pc = "test"]
  <2>1. l.pc = "stat" /\ Moves(t, m)
    BY <1>4 DEF Stat
  <2> HIDE DEF l
  <2>2. /\ m \in Checks /\ SameWork(l, m) /\ m.pc = "test" /\ m.stamp = Now
        /\ m.want = l.want /\ m.names = l.names
    BY <1>3 DEF Checks, SameWork
  <2> HIDE DEF m
  <2>3. Timely(m, Len(book))
    BY <1>3, <2>1, <2>2 DEF Timely, SameWork, Checks
  <2>4. Sound(m, book, remote)
    BY <1>3, <2>2, <2>3, NotesIsReady
  <2> QED BY <1>1, <2>1, <2>4, SameFacts, ThreadStep
<1>5. CASE CatalogStat(t)
  <2> DEFINE m == [l EXCEPT !.cstamp = Now, !.pc = "ctest"]
  <2>1. l.pc = "cstat" /\ Moves(t, m)
    BY <1>5 DEF CatalogStat
  <2> HIDE DEF l
  <2>2. /\ m \in Checks /\ SameWork(l, m) /\ m.pc = "ctest" /\ m.cstamp = Now /\ m.stamp = l.stamp
        /\ m.want = l.want /\ m.names = l.names
    BY <1>3 DEF Checks, SameWork
  <2> HIDE DEF m
  <2>3. Timely(m, Len(book))
    BY <1>3, <2>1, <2>2 DEF Timely, SameWork, Checks
  <2>4. Sound(m, book, remote)
    BY <1>3, <2>2, <2>3, NotesIsReady
  <2> QED BY <1>1, <2>1, <2>4, SameFacts, ThreadStep
<1> QED BY <1>4, <1>5

(* Indexes that pass for current, or that were just built, are consulted.  *)
LEMMA IndexesAreSound ==
  ASSUME DeskInv, NEW t \in Threads, UseIndexes(t) \/ StoreIndexes(t)
  PROVE  DeskInv'
<1> DEFINE l == th[t]
<1>1. Same /\ cat' = cat /\ l.pc \in {"test", "publish"}
  BY DEF UseIndexes, StoreIndexes
<1>2. /\ Ready(l, book) /\ Timely(l, Now) /\ l \in Checks /\ l.from \in 1 .. Now /\ Now \in Nat
      /\ Now = Len(book)
  BY <1>1, BusyFacts
<1>3. /\ l.want \in Indexes /\ l.left # <<>> /\ l.stamp \in l.from .. Now
      /\ l.want = "alias" => l.names \in l.from .. Now
      /\ l.pc = "publish" => l.data \in l.stamp .. Now
  BY <1>1, <1>2 DEF Timely, Checks
<1>4. CASE UseIndexes(t)
  <2>1. master # None /\ master.stamp = l.stamp /\ Moves(t, Resolve(l, master.data)) /\ master' = master
    BY <1>4 DEF UseIndexes, Fresh
  <2>2. master.data \in l.from .. Now
    BY <1>2, <1>3, <2>1 DEF DeskInv, Caches
  <2>3. Sound(Resolve(l, master.data), book, remote)
    BY <1>2, <1>3, <2>2, ResolveIsBusy DEF Sound
  <2> QED BY <1>1, <2>1, <2>3, SameFacts, ThreadStep
<1>5. CASE StoreIndexes(t)
  <2>1. master' = [data |-> l.data, stamp |-> l.stamp] /\ Moves(t, Resolve(l, l.data))
        /\ l.pc = "publish"
    BY <1>5 DEF StoreIndexes
  <2>2. l.data \in l.from .. Now /\ l.data \in 1 .. Now /\ l.stamp \in 1 .. Now /\ l.stamp <= l.data
    BY <1>2, <1>3, <2>1
  <2>3. Sound(Resolve(l, l.data), book, remote)
    BY <1>2, <1>3, <2>2, ResolveIsBusy DEF Sound
  <2>4. master' \in Caches(Now)
    BY <2>1, <2>2 DEF Caches
  <2> QED BY <1>1, <2>1, <2>3, <2>4, SameFacts, ThreadStep
<1> QED BY <1>4, <1>5

(* Stale indexes are built anew, and the catalog under them is dropped.    *)
LEMMA RebuildIsSound ==
  ASSUME DeskInv, NEW t \in Threads, Rebuild(t)
  PROVE  DeskInv'
<1> DEFINE l == th[t]
           m == [l EXCEPT !.pc = "cstat"]
<1>1. Same /\ cat' = None /\ master' = master /\ l.pc = "test" /\ Moves(t, m)
  BY DEF Rebuild
<1>2. /\ Ready(l, book) /\ Timely(l, Now) /\ l \in Checks /\ Now = Len(book)
  BY <1>1, BusyFacts
<1> HIDE DEF l
<1>3. /\ m \in Checks /\ SameWork(l, m) /\ m.pc = "cstat" /\ m.stamp = l.stamp
      /\ m.want = l.want /\ m.names = l.names
  BY <1>2 DEF Checks, SameWork
<1> HIDE DEF m
<1>4. Timely(m, Len(book))
  BY <1>1, <1>2, <1>3 DEF Timely, SameWork, Checks
<1>5. Sound(m, book, remote)
  BY <1>2, <1>3, <1>4, NotesIsReady
<1> QED BY <1>1, <1>5, SameFacts, ThreadStep

(* The ledger in hand is no older than the time stamp that was read.       *)
LEMMA LoadedIsSound ==
  ASSUME DeskInv, NEW t \in Threads, th[t].pc \in {"ctest", "store"}, NEW v \in th[t].cstamp .. Now
  PROVE  Sound(Loaded(th[t], v), book, remote)
<1> DEFINE l == th[t]
           m == [l EXCEPT !.data = v, !.pc = "publish"]
<1>1. /\ Ready(l, book) /\ Timely(l, Now) /\ l \in Checks /\ l.from \in 1 .. Now /\ Now \in Nat
      /\ Now = Len(book)
  BY BusyFacts
<1>2. /\ l.cstamp \in l.from .. Now /\ l.stamp <= l.cstamp /\ l.stamp \in Nat /\ l.cstamp \in Nat
      /\ l.want = "ledger" => l.left = <<>>
      /\ l.want # "ledger" => l.left # <<>> /\ l.stamp \in l.from .. Now
      /\ l.want = "alias" => l.names \in l.from .. Now
  BY <1>1 DEF Timely, Checks
<1>3. v \in l.from .. Now /\ v \in l.stamp .. Now /\ v \in Nat
  BY <1>1, <1>2
<1>4. CASE l.want = "ledger"
  <2>1. Finished(CheckLedger(l, v), book, remote)
    BY <1>1, <1>2, <1>3, <1>4, CheckIsFinished DEF DeskInv
  <2> QED BY <1>4, <2>1 DEF Loaded, Sound
<1>5. CASE l.want # "ledger"
  <2> HIDE DEF l
  <2>1. /\ m \in Checks /\ SameWork(l, m) /\ m.pc = "publish" /\ m.stamp = l.stamp
        /\ m.want = l.want /\ m.names = l.names /\ m.data = v
    BY <1>1, <1>3 DEF Checks, SameWork
  <2>2. Loaded(l, v) = m
    BY <1>5 DEF Loaded
  <2> HIDE DEF m
  <2>3. Timely(m, Len(book))
    BY <1>1, <1>2, <1>3, <1>5, <2>1 DEF Timely, SameWork
  <2>4. Sound(m, book, remote)
    BY <1>1, <2>1, <2>3, NotesIsReady
  <2> QED BY <2>2, <2>4 DEF l
<1> QED BY <1>4, <1>5

(* The catalog is taken from its cache, read, and stored.                  *)
LEMMA CatalogIsSound ==
  ASSUME DeskInv, NEW t \in Threads, UseCatalog(t) \/ StoreCatalog(t) \/ ReadFile(t)
  PROVE  DeskInv'
<1> DEFINE l == th[t]
<1>1. Same /\ master' = master /\ l.pc \in {"ctest", "store"}
  BY DEF UseCatalog, StoreCatalog, ReadFile
<1>2. /\ Ready(l, book) /\ Timely(l, Now) /\ l \in Checks /\ l.from \in 1 .. Now /\ Now \in Nat
      /\ Now = Len(book) /\ book \in Seq(Contents)
  BY <1>1, BusyFacts DEF DeskInv
<1>3. /\ l.cstamp \in l.from .. Now /\ l.cstamp \in Nat /\ l.cstamp \in 1 .. Now /\ l.stamp <= l.cstamp
      /\ l.pc = "store" => l.data \in l.cstamp .. Now
  BY <1>1, <1>2 DEF Timely, Checks
<1>4. CASE UseCatalog(t)
  <2>1. cat # None /\ cat.stamp = l.cstamp /\ Moves(t, Loaded(l, cat.data)) /\ cat' = cat
    BY <1>4 DEF UseCatalog, Fresh
  <2>2. cat.data \in l.cstamp .. Now
    BY <1>3, <2>1 DEF DeskInv, Caches
  <2>3. Sound(Loaded(l, cat.data), book, remote)
    BY <1>1, <2>2, LoadedIsSound
  <2> QED BY <1>1, <2>1, <2>3, SameFacts, ThreadStep
<1>5. CASE StoreCatalog(t)
  <2>1. cat' = [data |-> l.data, stamp |-> l.cstamp] /\ Moves(t, Loaded(l, l.data)) /\ l.pc = "store"
    BY <1>5 DEF StoreCatalog
  <2>2. Sound(Loaded(l, l.data), book, remote)
    BY <1>1, <1>3, <2>1, LoadedIsSound
  <2>3. l.data \in 1 .. Now /\ l.cstamp <= l.data
    BY <1>2, <1>3, <2>1
  <2>4. cat' \in Caches(Now)
    BY <1>3, <2>1, <2>3 DEF Caches
  <2> QED BY <1>1, <2>1, <2>2, <2>4, SameFacts, ThreadStep
<1>6. CASE ReadFile(t)
  <2> DEFINE m == [l EXCEPT !.data = Now, !.pc = "store"]
  <2>1. l.pc = "ctest" /\ Moves(t, IF book[Now].whole THEN m ELSE Raises(l)) /\ cat' = cat
    BY <1>6 DEF ReadFile
  <2>2. CASE book[Now].whole
    <3>1. Moves(t, m)
      BY <2>1, <2>2
    <3> HIDE DEF l
    <3>2. /\ m \in Checks /\ SameWork(l, m) /\ m.pc = "store" /\ m.stamp = l.stamp /\ m.cstamp = l.cstamp
          /\ m.want = l.want /\ m.names = l.names /\ m.data = Now
      BY <1>2 DEF Checks, SameWork
    <3> HIDE DEF m
    <3>3. Timely(m, Len(book))
      BY <1>2, <1>3, <2>1, <3>2 DEF Timely, SameWork
    <3>4. Sound(m, book, remote)
      BY <1>2, <3>2, <3>3, NotesIsReady
    <3> QED BY <1>1, <2>1, <3>1, <3>4, SameFacts, ThreadStep
  <2>3. CASE ~book[Now].whole
    <3> DEFINE d == Raises(l)
    <3>1. Moves(t, d)
      BY <2>1, <2>3
    <3>2. /\ d.pc = "done" /\ d.hints = l.hints /\ d.from = l.from /\ d.until = Now /\ d.verdict = None
      BY ReturnsFacts DEF Raises
    <3>3. l.hints \in Seq(Hints)
      BY <1>2 DEF Checks
    <3> HIDE DEF d, l
    <3>4. ~Clean(None)
      BY DEF Clean
    <3>5. Finished(d, book, remote)
      BY <1>2, <2>3, <3>2, <3>3, <3>4 DEF Finished
    <3> QED BY <1>1, <2>1, <3>1, <3>5, SameFacts, ThreadStep DEF Sound
  <2> QED BY <2>2, <2>3
<1> QED BY <1>4, <1>5, <1>6

(* The caches are dropped, and the first hint of the stage is looked up.   *)
LEMMA ResetIsSound ==
  ASSUME DeskInv, NEW t \in Threads, Reset(t)
  PROVE  DeskInv'
<1>1. Same /\ cat' = None /\ master' = None /\ th[t].pc = "reset" /\ Moves(t, NextHint(th[t]))
  BY DEF Reset
<1>2. Sound(NextHint(th[t]), book, remote)
  BY <1>1, BusyFacts, NextIsBusy DEF Sound
<1> QED BY <1>1, <1>2, SameFacts, ThreadStep

(* What the WMS says is a verdict, whatever it leaves out.                 *)
LEMMA WmsVerdictFacts ==
  ASSUME NEW a
  PROVE  WmsVerdict(a) \in Verdicts /\ WmsVerdict(a) # None
<1>1. \A field : Says(a, field) \in BOOLEAN
  BY DEF Says
<1>2. \A w, x, y, z \in BOOLEAN :
        [shortage |-> w, unknown_parts |-> x, model_mismatch |-> y, ledger_degraded |-> z] \in Verdicts
  BY DEF Verdicts
<1>3. WmsVerdict(a) \in Verdicts
  BY <1>1, <1>2 DEF WmsVerdict
<1> QED BY <1>3, DeskAssumption DEF Verdicts

(* The WMS gives its verdict, or the local ledger does.                    *)
LEMMA WmsIsSound ==
  ASSUME DeskInv, NEW t \in Threads, WmsAnswers(t)
  PROVE  DeskInv'
<1>1. Same /\ cat' = cat /\ master' = master /\ th[t].pc = "post"
  BY DEF WmsAnswers
<1>2. PICK a \in Answers :
        Moves(t, IF a.kind \in {"object", "no_body"} THEN Returns([th[t] EXCEPT !.answer = a], WmsVerdict(a))
                 ELSE Stage([th[t] EXCEPT !.answer = a], "fallback", "reset"))
  BY DEF WmsAnswers
<1> DEFINE l == th[t]
           m == [l EXCEPT !.answer = a]
<1>3. /\ Ready(l, book) /\ Timely(l, Now) /\ l \in Checks /\ l.from \in 1 .. Now /\ Now \in Nat
      /\ Now = Len(book)
  BY <1>1, BusyFacts
<1>4. m \in Checks /\ SameWork(l, m)
  BY <1>3 DEF Checks, SameWork
<1>5. l.left = <<>>
  BY <1>1, <1>3 DEF Timely
<1>6. CASE a.kind \in {"object", "no_body"}
  <2> DEFINE verdict == WmsVerdict(a)
             d == Returns(m, verdict)
  <2>1. verdict \in Verdicts /\ verdict # None
    BY WmsVerdictFacts
  <2>2. m.hints = l.hints /\ m.from = l.from
    BY <1>4 DEF SameWork
  <2>3. remote /\ l.hints \in Seq(Hints)
    BY <1>1, <1>3, BusyFacts DEF Busy, Checks
  <2>4. Moves(t, d)
    BY <1>2, <1>6
  <2> HIDE DEF m, verdict, l
  <2>5. /\ d.pc = "done" /\ d.hints = m.hints /\ d.from = m.from /\ d.until = Now
        /\ d.verdict = verdict
    BY ReturnsFacts
  <2> HIDE DEF d
  <2>6. Finished(d, book, remote)
    BY <1>3, <2>1, <2>2, <2>3, <2>5 DEF Finished
  <2> QED BY <1>1, <2>4, <2>6, SameFacts, ThreadStep DEF Sound
<1>7. CASE a.kind \notin {"object", "no_body"}
  <2>1. m.left = <<>> /\ Ready(m, book)
    BY <1>3, <1>4, <1>5, SameWorkIsReady DEF SameWork
  <2>2. Moves(t, Stage(m, "fallback", "reset"))
    BY <1>2, <1>7
  <2> HIDE DEF m
  <2>3. Sound(Stage(m, "fallback", "reset"), book, remote)
    BY <2>1, StageIsReady DEF Sound
  <2> QED BY <1>1, <2>2, <2>3, SameFacts, ThreadStep
<1> QED BY <1>6, <1>7

(* An edit adds a version and changes none; what was read before it is as  *)
(* good as it was.                                                         *)
LEMMA EditIsHarmless ==
  ASSUME NEW bk \in Seq(Contents), NEW c \in Contents, NEW rm, NEW l, Sound(l, bk, rm)
  PROVE  Sound(l, Append(bk, c), rm)
<1> DEFINE new == Append(bk, c)
<1>1. /\ Len(bk) \in Nat /\ Len(new) = Len(bk) + 1 /\ \A v \in 1 .. Len(bk) : new[v] = bk[v]
  BY LenProperties, AppendProperties
<1> HIDE DEF new
<1>2. /\ \A v \in 1 .. Len(bk) : \A h : Unlisted(new, v, h) <=> Unlisted(bk, v, h)
      /\ \A v \in 1 .. Len(bk) : \A h, model : InStock(new, v, h, model) <=> InStock(bk, v, h, model)
  BY <1>1 DEF Unlisted, InStock, ListedIn, AliasedIn
<1>3. CASE Busy(l, bk, rm)
  <2>1. l \in Checks /\ l.from \in 1 .. Len(bk) /\ l.from \in 1 .. Len(new) /\ l.from \in Nat
    BY <1>1, <1>3 DEF Busy, Ready
  <2>2. \A v \in l.from .. Len(bk) : v \in l.from .. Len(new) /\ v \in 1 .. Len(bk)
    BY <1>1, <2>1
  <2>3. Sourced(l, new)
    <3> SUFFICES ASSUME NEW g \in ToSet(l.left) \cup ToSet(l.out)
                 PROVE  \E h \in ToSet(l.hints) :
                          /\ h.part = g.part
                          /\ g.form = "alias" => h.form = "alias"
                          /\ g.form = "alias" /\ g \in ToSet(l.out) =>
                               \E v \in l.from .. Len(new) : Unlisted(new, v, h)
      BY DEF Sourced
    <3>1. PICK h \in ToSet(l.hints) :
            /\ h.part = g.part
            /\ g.form = "alias" => h.form = "alias"
            /\ g.form = "alias" /\ g \in ToSet(l.out) => \E v \in l.from .. Len(bk) : Unlisted(bk, v, h)
      BY <1>3 DEF Busy, Ready, Sourced
    <3> QED BY <1>2, <2>2, <3>1
  <2>4. Timely(l, Len(bk))
    BY <1>3 DEF Busy
  <2>5. Timely(l, Len(new))
    <3>1. l.stamp \in Nat /\ l.cstamp \in Nat /\ l.data \in Nat /\ l.names \in Nat
      BY <2>1 DEF Checks
    <3>2. \A a, b \in Nat : b \in a .. Len(bk) => b \in a .. Len(new)
      BY <1>1
    <3> QED BY <2>1, <2>4, <3>1, <3>2 DEF Timely
  <2> QED BY <1>3, <2>1, <2>3, <2>5 DEF Busy, Ready, Sound, new
<1>4. CASE Finished(l, bk, rm)
  <2>1. l.from \in 1 .. l.until /\ l.until \in 1 .. Len(bk) /\ l.until \in 1 .. Len(new)
    BY <1>1, <1>4 DEF Finished
  <2>2. \A v \in l.from .. l.until : v \in 1 .. Len(bk)
    BY <1>1, <2>1
  <2>3. Finished(l, new, rm)
    BY <1>1, <1>2, <1>4, <2>1, <2>2 DEF Finished
  <2> QED BY <2>3 DEF Sound, new
<1> QED BY <1>3, <1>4 DEF Sound

(* An edit of the file: what was read before it is now the older, but the  *)
(* file a cache or a check knows by its time stamp is still in the book.   *)
LEMMA EditIsSound ==
  ASSUME DeskInv, Edit
  PROVE  DeskInv'
<1>1. PICK c \in Contents : book' = Append(book, c)
  BY DEF Edit
<1>2. UNCHANGED <<remote, cat, master, th, checks>> /\ Now <= MaxEdits
  BY DEF Edit
<1>3. /\ book \in Seq(Contents) /\ Now \in Nat /\ Now >= 1
      /\ book' \in Seq(Contents) /\ Now' = Now + 1
  BY <1>1, LenProperties, AppendProperties DEF DeskInv, Now
<1>4. Now' \in 1 .. MaxEdits + 1
  BY <1>2, <1>3, DeskAssumption
<1>5. Caches(Now) \subseteq Caches(Now')
  <2>1. 1 .. Now \subseteq 1 .. Now'
    BY <1>3
  <2> QED BY <2>1 DEF Caches
<1>6. \A t \in Threads : Sound(th[t], book', remote)
  BY <1>1, <1>3, EditIsHarmless DEF DeskInv
<1>7. (\A t \in Threads : Sound(th[t], book, remote))'
  BY <1>2, <1>6
<1>8. (th = [t \in Threads |-> th[t]])'
  BY <1>2 DEF DeskInv
<1> QED BY <1>2, <1>3, <1>4, <1>5, <1>7, <1>8 DEF DeskInv

(* POST /admin/reload-ledger drops the caches under everybody's feet.      *)
LEMMA ReloadIsSound ==
  ASSUME DeskInv, ReloadLedger
  PROVE  DeskInv'
<1>1. UNCHANGED <<remote, book, th, checks>> /\ cat' = None /\ master' = None
  BY DEF ReloadLedger
<1> QED BY <1>1 DEF DeskInv, Caches, Now

(* All of the steps together.                                              *)
LEMMA StepIsSound == DeskInv /\ [Next]_vars => DeskInv'
<1> SUFFICES ASSUME DeskInv, [Next]_vars PROVE DeskInv'
  OBVIOUS
<1>1. ASSUME NEW t \in Threads, Begin(t) \/ Step(t) PROVE DeskInv'
  BY <1>1, BeginIsSound, StatIsSound, IndexesAreSound, RebuildIsSound, CatalogIsSound, ResetIsSound,
     WmsIsSound DEF Step
<1>2. CASE UNCHANGED vars
  BY <1>2 DEF vars, DeskInv, Now
<1> QED BY <1>1, <1>2, EditIsSound, ReloadIsSound DEF Next

(* At first the file has one version, and nobody checks anything.          *)
LEMMA InitIsSound == Init => DeskInv
<1> SUFFICES ASSUME Init PROVE DeskInv
  OBVIOUS
<1>1. PICK c \in Contents : book = <<c>>
  BY DEF Init
<1>2. book \in Seq(Contents) /\ Now = 1
  BY <1>1 DEF Now
<1>3. 1 \in 1 .. MaxEdits + 1 /\ 0 \in 0 .. MaxChecks
  BY DeskAssumption
<1> QED BY <1>2, <1>3 DEF Init, DeskInv, Caches, Sound

(* A pre-check that is done is sound as such.                              *)
LEMMA DoneFacts ==
  ASSUME DeskInv, NEW t \in Threads, Done(t)
  PROVE  Finished(th[t], book, remote)
<1>1. Sound(th[t], book, remote) /\ th[t].pc = "done"
  BY DEF DeskInv, Done
<1>2. ~Busy(th[t], book, remote)
  BY <1>1 DEF Busy, Ready, Checks
<1> QED BY <1>1, <1>2 DEF Sound, Idle

-----------------------------------------------------------------------------
(* What holds in every reachable state.                                    *)

(* However resets, rebuilds, reloads and edits overlap: caches are stamped *)
(* before they are read, no pre-check loses a hint or makes one up, and    *)
(* what it knows comes from versions the file had while it ran             *)
(* (domain/parts_master.py, domain/parts_catalog.py, parts_ledger.py).     *)
THEOREM DeskIsSound == Spec => []DeskInv
BY InitIsSound, StepIsSound, PTL DEF Spec

(* The state has its type.                                                 *)
THEOREM DeskHasItsType == Spec => []TypeOK
<1>1. DeskInv => TypeOK
  <2> SUFFICES ASSUME DeskInv PROVE TypeOK
    OBVIOUS
  <2>1. cat \in CacheOf /\ master \in CacheOf
    BY DEF DeskInv, Caches, CacheOf, Versions
  <2>2. \A t \in Threads :
          th[t].pc \in {"idle", "stat", "test", "cstat", "ctest", "store", "publish", "reset", "post", "done"}
    BY DEF DeskInv, Sound, Idle, Busy, Ready, Checks, Finished
  <2> QED BY <2>1, <2>2 DEF DeskInv, TypeOK
<1> QED BY <1>1, DeskIsSound, PTL

(* A cache that passes for the current file holds the current file: a      *)
(* reader stamps it with the time it read before the data, so that an edit *)
(* in between leaves a stamp that no longer passes (parts_master.py        *)
(* _ensure_master_indexes, parts_catalog.py load_parts_catalog_raw).       *)
THEOREM CachesFollowTheFile == Spec => []CachesAreCurrent
<1>1. DeskInv => CachesAreCurrent
  BY DEF DeskInv, Caches, CachesAreCurrent
<1> QED BY <1>1, DeskIsSound, PTL

(* A clean verdict of the local ledger is backed, part by part, by what    *)
(* the file said while the check ran, whatever other checks, reloads and   *)
(* edits did to the caches (parts_ledger.py JsonPartsLedger.check_parts).  *)
THEOREM CleanPartsAreInStock == Spec => []CleanIsInStock
<1>1. DeskInv => CleanIsInStock
  <2> SUFFICES ASSUME DeskInv, NEW t \in Threads, Done(t), ~remote, Clean(th[t].verdict), NEW h \in HintsOf(t)
               PROVE  \E v \in Window(t) :
                        /\ Listed(v, h.part)
                        /\ book[v].rows[h.part].stock > 0
                        /\ Compatible(th[t].req.model, book[v].rows[h.part].models)
    BY DEF CleanIsInStock
  <2>1. Finished(th[t], book, remote)
    BY DoneFacts
  <2>2. PICK v \in th[t].from .. th[t].until : InStock(book, v, h, th[t].req.model)
    BY <2>1 DEF Finished, HintsOf
  <2> QED BY <2>2 DEF InStock, Window, Listed, ListedIn
<1> QED BY <1>1, DeskIsSound, PTL

(* A part that the file lists all the time, under the hint used for it, is *)
(* not called unknown (parts_master.py resolve_part_hint, three lookups    *)
(* that other checks may reset in between).                                *)
THEOREM ListedPartsAreFound == Spec => []KnownPartIsFound
<1>1. DeskInv => KnownPartIsFound
  <2> SUFFICES ASSUME DeskInv, NEW t \in Threads, Done(t), ~remote, th[t].verdict # None,
                      th[t].verdict.unknown_parts
               PROVE  \E h \in HintsOf(t), v \in Window(t) :
                        ~Listed(v, h.part) \/ (h.form = "alias" /\ ~Aliased(v, h.part))
    BY DEF KnownPartIsFound
  <2>1. Finished(th[t], book, remote)
    BY DoneFacts
  <2>2. PICK h \in HintsOf(t), v \in Window(t) : Unlisted(book, v, h)
    BY <2>1 DEF Finished, HintsOf, Window
  <2> QED BY <2>2 DEF Unlisted, Listed, ListedIn, Aliased, AliasedIn
<1> QED BY <1>1, DeskIsSound, PTL

(* A pre-check raises only if the file was cut short while it ran; a reset *)
(* under its feet does not make it fail (parts_catalog.py                  *)
(* load_parts_catalog_raw).                                                *)
THEOREM ResetsRaiseNothing == Spec => []OnlyABrokenFileRaises
<1>1. DeskInv => OnlyABrokenFileRaises
  <2> SUFFICES ASSUME DeskInv, NEW t \in Threads, Done(t), th[t].verdict = None
               PROVE  \E v \in Window(t) : ~book[v].whole
    BY DEF OnlyABrokenFileRaises
  <2>1. Finished(th[t], book, remote)
    BY DoneFacts
  <2> QED BY <2>1 DEF Finished, Window
<1> QED BY <1>1, DeskIsSound, PTL

=============================================================================
