----------------------------- MODULE MCPartsDesk -----------------------------
(* A small shop for PartsDesk: a pump and a seal.                          *)
EXTENDS PartsDesk

Swap == Permutations(Threads)

Row(stock, models) == [stock |-> stock, models |-> models]

Shelf == [rows |-> ("pump" :> Row(1, {"SY215"}) @@ "seal" :> Row(0, {})),
          aliases |-> {"pump"}, whole |-> TRUE]

(* In stock; the pump for another machine and without an alias, the seal   *)
(* struck off the list; a file cut short.                                  *)
MCContents ==
  {Shelf,
   [Shelf EXCEPT !.rows = "pump" :> Row(0, {"SY60"}), !.aliases = {}],
   [Shelf EXCEPT !.whole = FALSE]}

Hint(part, form) == [part |-> part, form |-> form]

Bare == [forced |-> <<>>, draft |-> <<>>, order |-> <<>>, tokens |-> <<>>,
         scanAnswer |-> FALSE, model |-> "SY215C"]

MCRequests ==
  {[Bare EXCEPT !.draft = <<Hint("pump", "alias")>>],
   [Bare EXCEPT !.forced = <<Hint("seal", "name"), Hint("pump", "no")>>, !.model = None],
   [Bare EXCEPT !.tokens = <<Hint("seal", "no")>>]}

MCFamily == {{"SY215", "SY215C"}}

MCAnswers == [kind : {"object"}, true : {{}, {"shortage"}}] \cup [kind : {"no_body", "error"}]

=============================================================================
