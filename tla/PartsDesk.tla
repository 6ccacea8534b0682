------------------------------- MODULE PartsDesk -------------------------------
(***************************************************************************)
(* The pre-check of parts: graph/nodes.py parts_node, tools/parts_ledger.py*)
(* and the two caches under it, domain/parts_master.py (indexes by number, *)
(* name and alias) and domain/parts_catalog.py (the ledger file).  The     *)
(* caches are module globals without a lock, shared by the threads of the  *)
(* request pool, and the ledger file may be edited at any time.            *)
(*                                                                         *)
(* A step is the code between two points where CPython 3.11 (Dockerfile)   *)
(* may switch threads: calls and backward jumps.  So the five globals of   *)
(* parts_master, tested together and assigned together without a call in   *)
(* between, are one value, and so are the two of parts_catalog.            *)
(***************************************************************************)
EXTENDS Integers, Sequences, SequencesExt

CONSTANTS
  Threads,       (* threads of the request pool                            *)
  Contents,      (* what the ledger file may hold                          *)
  Parts,         (* what a hint may name, in the ledger or not             *)
  Requests,      (* what a run brings to parts_node                        *)
  Answers,       (* what the WMS may answer to POST /parts/check           *)
  Family,        (* pairs of machine models one of which prefixes the other*)
  None,          (* an empty cache, a ticket without a machine model       *)
  MaxEdits, MaxChecks   (* bounds: edits of the file, pre-checks           *)

ASSUME DeskAssumption ==
  /\ MaxEdits \in Nat /\ MaxChecks \in Nat
  /\ None \notin [data : Nat, stamp : Nat]
  /\ None \notin [shortage : BOOLEAN, unknown_parts : BOOLEAN,
                 model_mismatch : BOOLEAN, ledger_degraded : BOOLEAN]

VARIABLES
  remote,        (* PARTS_LEDGER_URL is set: HttpPartsLedger               *)
  book,          (* history of the ledger file; a version is an index of it*)
  cat,           (* _cache_data, _cache_mtime                              *)
  master,        (* _items_cache .. _by_name_cache, _master_mtime          *)
  th,            (* th[t]: the pre-check thread t is in                    *)
  checks         (* pre-checks begun                                       *)

vars == <<remote, book, cat, master, th, checks>>

Now == Len(book)

Idle == [pc |-> "idle"]

Init ==
  /\ remote \in BOOLEAN
  /\ book \in {<<c>> : c \in Contents}
  /\ cat = None /\ master = None
  /\ th = [t \in Threads |-> Idle]
  /\ checks = 0

-----------------------------------------------------------------------------
(* A hint names a part by number, name or alias.                           *)
Hints == [part : Parts, form : {"no", "name", "alias"}]

(* The ledger file: rows by part, each with its stock and the machine      *)
(* models it fits (none: all), and the parts that have an alias.           *)
Listed(v, p) == p \in DOMAIN book[v].rows

Aliased(v, p) == p \in book[v].aliases

(* _model_compatible: without a list, or without a model, nothing is       *)
(* refused; a prefix of a listed model, or an extension of one, fits.      *)
Compatible(model, models) ==
  \/ models = {} \/ model = None
  \/ \E a \in models : a = model \/ {a, model} \in Family

(* hints_from_rag_and_draft: the draft's parts, then those of the work     *)
(* order that are new; words of the answer only if there are none of these *)
(* and the setting allows it.                                              *)
RawHints(r) ==
  LET structured == r.draft \o SelectSeq(r.order, LAMBDA h : ~Contains(r.draft, h))
  IN  IF structured = <<>> /\ r.scanAnswer THEN r.tokens ELSE structured

ASSUME HintsAssumption == \A r \in Requests : {r.forced, RawHints(r)} \subseteq Seq(Hints)

(* normalize_part_hints keeps one hint per part number, or per text where  *)
(* there is no row.                                                        *)
Keep(l, h, key) ==
  IF key \in l.seen THEN l
  ELSE [l EXCEPT !.out = Append(@, h), !.seen = @ \cup {key}]

Matched(l, h) == Keep(l, [h EXCEPT !.form = "name"], [h EXCEPT !.form = "no"])

-----------------------------------------------------------------------------
(* Where a pre-check goes on to.  hints_from_rag_and_draft ("draft"),      *)
(* parts_node ("node"), check_parts ("check") and the local check a failed *)
(* WMS falls back to ("fallback") each normalise the hints once more.      *)
Look(l, index) ==
  [l EXCEPT !.want = index, !.pc = "stat", !.stamp = 0, !.cstamp = 0, !.data = 0,
            !.names = IF index = "alias" THEN @ ELSE 0]

Stage(l, stage, pc) ==
  [Look(l, "no") EXCEPT !.stage = stage, !.pc = pc, !.left = l.out, !.out = <<>>, !.seen = {}]

LoadLedger(l) == [Look(l, "ledger") EXCEPT !.pc = "cstat", !.seen = {}]

Normalised(l) ==
  CASE l.stage = "draft" /\ l.out # <<>> -> Stage(l, "node", "stat")
    [] l.stage = "draft" /\ l.out = <<>> -> Stage(l, "check", "reset")
    [] l.stage = "node"                  -> Stage(l, "check", "reset")
    [] l.stage = "check" /\ remote       -> [Look(l, "no") EXCEPT !.pc = "post"]
    [] OTHER                             -> LoadLedger(l)

NextHint(l) == IF l.left = <<>> THEN Normalised(l) ELSE Look(l, "no")

(* Mutant: aliases are not consulted.                                      *)
ResolveWithoutAliases(l, v) ==
  LET h    == Head(l.left)
      rest == [l EXCEPT !.left = Tail(@)]
  IN  IF h.form = l.want /\ Listed(v, h.part) THEN NextHint(Matched(rest, h))
      ELSE IF l.want = "no" THEN Look(l, "name") ELSE NextHint(Keep(rest, h, h))

(* resolve_part_hint, one index after the other; v is the version of the   *)
(* file the index in hand was made from.                                   *)
Resolve(l, v) ==
  LET h    == Head(l.left)
      rest == [l EXCEPT !.left = Tail(@)]
  IN  CASE l.want = "no" ->
             IF h.form = "no" /\ Listed(v, h.part) THEN NextHint(Matched(rest, h))
             ELSE Look(l, "name")
        [] l.want = "name" ->
             IF h.form = "name" /\ Listed(v, h.part) THEN NextHint(Matched(rest, h))
             ELSE Look([l EXCEPT !.names = v], "alias")
        [] l.want = "alias" ->
             IF h.form = "alias" /\ Aliased(v, h.part) /\ Listed(l.names, h.part)
             THEN NextHint(Matched(rest, h))
             ELSE NextHint(Keep(rest, h, h))

-----------------------------------------------------------------------------
(* The verdict on one hint, by the ledger of version v: looked up by name  *)
(* or number, no alias.  Mutant: a stock of none will do.                  *)
StatusOffByOne(l, v, h) ==
  IF h.form = "alias" \/ ~Listed(v, h.part) THEN "unknown"
  ELSE LET row == book[v].rows[h.part]
       IN  IF ~Compatible(l.req.model, row.models) THEN "model_mismatch"
           ELSE IF row.stock >= 0 THEN "ok" ELSE "shortage"

Status(l, v, h) ==
  IF h.form = "alias" \/ ~Listed(v, h.part) THEN "unknown"
  ELSE LET row == book[v].rows[h.part]
       IN  IF ~Compatible(l.req.model, row.models) THEN "model_mismatch"
           ELSE IF row.stock > 0 THEN "ok" ELSE "shortage"

Verdict(statuses, degraded) ==
  [shortage       |-> "shortage" \in statuses,
   unknown_parts  |-> "unknown" \in statuses,
   model_mismatch |-> "model_mismatch" \in statuses,
   ledger_degraded |-> degraded]

Returns(l, verdict) ==
  [pc |-> "done", req |-> l.req, hints |-> l.hints, answer |-> l.answer,
   from |-> l.from, until |-> Now, verdict |-> verdict]

Raises(l) == Returns(l, None)

(* Mutant: a hint without a row is not skipped.                            *)
CheckLedgerUnguarded(l, v) ==
  LET statuses == {Status(l, v, l.out[i]) : i \in DOMAIN l.out}
  IN  IF "unknown" \in statuses THEN Raises(l)
      ELSE Returns(l, Verdict(statuses, l.stage = "fallback"))

CheckLedger(l, v) ==
  Returns(l, Verdict({Status(l, v, l.out[i]) : i \in DOMAIN l.out}, l.stage = "fallback"))

(* load_parts_catalog has the data of version v in hand.                   *)
Loaded(l, v) ==
  IF l.want = "ledger" THEN CheckLedger(l, v) ELSE [l EXCEPT !.data = v, !.pc = "publish"]

Moves(t, l) == th' = [th EXCEPT ![t] = l]

Same == UNCHANGED <<remote, book, checks>>

-----------------------------------------------------------------------------
(* parts_node begins: forced hints skip hints_from_rag_and_draft.          *)
Begin(t) ==
  /\ th[t].pc \in {"idle", "done"}
  /\ checks < MaxChecks
  /\ checks' = checks + 1
  /\ \E r \in Requests :
       LET hints == IF r.forced # <<>> THEN r.forced ELSE RawHints(r)
           l == [pc |-> "stat", stage |-> IF r.forced # <<>> THEN "node" ELSE "draft",
                 req |-> r, hints |-> hints, from |-> Now, left |-> hints, out |-> <<>>,
                 seen |-> {}, want |-> "no", names |-> 0, stamp |-> 0, cstamp |-> 0, data |-> 0,
                 answer |-> None]
       IN  Moves(t, NextHint(l))
  /\ UNCHANGED <<remote, book, cat, master>>

(* _ensure_master_indexes: the time of the file first, then the caches.    *)
Stat(t) ==
  /\ th[t].pc = "stat"
  /\ Moves(t, [th[t] EXCEPT !.stamp = Now, !.pc = "test"])
  /\ UNCHANGED <<cat, master>> /\ Same

Fresh(cache, stamp) == cache # None /\ cache.stamp = stamp

UseIndexes(t) ==
  /\ th[t].pc = "test"
  /\ Fresh(master, th[t].stamp)
  /\ Moves(t, Resolve(th[t], master.data))
  /\ UNCHANGED <<cat, master>> /\ Same

Rebuild(t) ==
  /\ th[t].pc = "test"
  /\ ~Fresh(master, th[t].stamp)
  /\ cat' = None
  /\ Moves(t, [th[t] EXCEPT !.pc = "cstat"])
  /\ UNCHANGED master /\ Same

(* load_parts_catalog_raw: the same once more for the file itself, by      *)
(* another reading of its time.                                            *)
CatalogStat(t) ==
  /\ th[t].pc = "cstat"
  /\ Moves(t, [th[t] EXCEPT !.cstamp = Now, !.pc = "ctest"])
  /\ UNCHANGED <<cat, master>> /\ Same

UseCatalog(t) ==
  /\ th[t].pc = "ctest"
  /\ Fresh(cat, th[t].cstamp)
  /\ Moves(t, Loaded(th[t], cat.data))
  /\ UNCHANGED <<cat, master>> /\ Same

(* A file that is being written does not parse; nobody catches that.       *)
ReadFile(t) ==
  /\ th[t].pc = "ctest"
  /\ ~Fresh(cat, th[t].cstamp)
  /\ Moves(t, IF book[Now].whole THEN [th[t] EXCEPT !.data = Now, !.pc = "store"]
              ELSE Raises(th[t]))
  /\ UNCHANGED <<cat, master>> /\ Same

StoreCatalog(t) ==
  /\ th[t].pc = "store"
  /\ cat' = [data |-> th[t].data, stamp |-> th[t].cstamp]
  /\ Moves(t, Loaded(th[t], th[t].data))
  /\ UNCHANGED master /\ Same

(* Mutant: the indexes are stamped with the time after the build.          *)
StoreIndexesLateStamp(t) ==
  /\ th[t].pc = "publish"
  /\ master' = [data |-> th[t].data, stamp |-> Now]
  /\ Moves(t, Resolve(th[t], th[t].data))
  /\ UNCHANGED cat /\ Same

StoreIndexes(t) ==
  /\ th[t].pc = "publish"
  /\ master' = [data |-> th[t].data, stamp |-> th[t].stamp]
  /\ Moves(t, Resolve(th[t], th[t].data))
  /\ UNCHANGED cat /\ Same

(* Mutant: the reset clears the time and forgets the data.                 *)
ResetStampOnly(t) ==
  /\ th[t].pc = "reset"
  /\ cat' = None
  /\ master' = IF master = None THEN None ELSE [master EXCEPT !.stamp = 0]
  /\ Moves(t, NextHint(th[t]))
  /\ Same

(* check_parts begins with reset_parts_master_cache.                       *)
Reset(t) ==
  /\ th[t].pc = "reset"
  /\ cat' = None /\ master' = None
  /\ Moves(t, NextHint(th[t]))
  /\ Same

-----------------------------------------------------------------------------
(* HttpPartsLedger.  A body that is an object is the verdict, with False   *)
(* for what it does not say; no body at all counts as an empty object.     *)
Says(a, field) == a.kind = "object" /\ field \in a.true

WmsVerdict(a) ==
  [shortage |-> Says(a, "shortage"), unknown_parts |-> Says(a, "unknown_parts"),
   model_mismatch |-> Says(a, "model_mismatch"), ledger_degraded |-> Says(a, "ledger_degraded")]

WmsAnswers(t) ==
  /\ th[t].pc = "post"
  /\ \E a \in Answers :
       LET l == [th[t] EXCEPT !.answer = a]
       IN  Moves(t, IF a.kind \in {"object", "no_body"} THEN Returns(l, WmsVerdict(a))
                   ELSE Stage(l, "fallback", "reset"))
  /\ UNCHANGED <<cat, master>> /\ Same

(* Somebody edits the ledger file.                                         *)
Edit ==
  /\ Now <= MaxEdits
  /\ \E c \in Contents \ {book[Now]} : book' = Append(book, c)
  /\ UNCHANGED <<remote, cat, master, th, checks>>

(* POST /admin/reload-ledger.                                              *)
ReloadLedger ==
  /\ cat' = None /\ master' = None
  /\ UNCHANGED <<remote, book, th, checks>>

Step(t) ==
  \/ Stat(t) \/ UseIndexes(t) \/ Rebuild(t)
  \/ CatalogStat(t) \/ UseCatalog(t) \/ ReadFile(t)
  \/ StoreCatalog(t) \/ StoreIndexes(t) \/ Reset(t) \/ WmsAnswers(t)

Next ==
  \/ \E t \in Threads : Begin(t) \/ Step(t)
  \/ Edit
  \/ ReloadLedger

Spec == Init /\ [][Next]_vars

-----------------------------------------------------------------------------
Versions == 1..Now

CacheOf == {None} \cup [data : Versions, stamp : Versions]

TypeOK ==
  /\ remote \in BOOLEAN
  /\ book \in Seq(Contents) /\ Now \in 1..(MaxEdits + 1)
  /\ cat \in CacheOf /\ master \in CacheOf
  /\ checks \in 0..MaxChecks
  /\ \A t \in Threads :
       th[t].pc \in {"idle", "stat", "test", "cstat", "ctest", "store", "publish", "reset",
                     "post", "done"}

(* E1 (parts_ledger.py:62): after an edit the next run sees the new stock. *)
(* No cache that passes for the current file holds an older one, however   *)
(* resets, rebuilds and edits overlap.                                     *)
CachesAreCurrent ==
  \A c \in {cat, master} : c # None /\ c.stamp = Now => c.data = Now

Done(t) == th[t].pc = "done"

Window(t) == th[t].from .. th[t].until

HintsOf(t) == ToSet(th[t].hints)

Clean(verdict) ==
  verdict # None /\ ~verdict.shortage /\ ~verdict.unknown_parts
    /\ ~verdict.model_mismatch /\ ~verdict.ledger_degraded

(* A clean verdict of the local ledger is backed, part by part, by a       *)
(* content the file had while the check ran: listed, in stock, fitting.    *)
CleanIsInStock ==
  \A t \in Threads : Done(t) /\ ~remote /\ Clean(th[t].verdict) =>
    \A h \in HintsOf(t) : \E v \in Window(t) :
      /\ Listed(v, h.part)
      /\ book[v].rows[h.part].stock > 0
      /\ Compatible(th[t].req.model, book[v].rows[h.part].models)

(* Neither a reset by another check nor an edit makes a part unknown that  *)
(* the file lists, under the hint used for it, all the time.               *)
KnownPartIsFound ==
  \A t \in Threads : Done(t) /\ ~remote /\ th[t].verdict # None /\ th[t].verdict.unknown_parts =>
    \E h \in HintsOf(t), v \in Window(t) :
      ~Listed(v, h.part) \/ (h.form = "alias" /\ ~Aliased(v, h.part))

(* A pre-check raises, and its run fails, only if the file was unreadable  *)
(* while it ran.                                                           *)
OnlyABrokenFileRaises ==
  \A t \in Threads : Done(t) /\ th[t].verdict = None =>
    \E v \in Window(t) : ~book[v].whole

(* parts_ledger.py:266: falling back must be visible, a false success must *)
(* not pass for the WMS.  A clean verdict on parts, with a WMS in use, is  *)
(* one the WMS gave.                                                       *)
NoFalseWms ==
  \A t \in Threads : Done(t) /\ remote /\ th[t].hints # <<>> /\ Clean(th[t].verdict) =>
    th[t].answer.kind = "object"

=============================================================================
