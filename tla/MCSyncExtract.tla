---------------------------- MODULE MCSyncExtract -----------------------------
(***************************************************************************)
(* A small instance of SyncExtract for TLC: deeds with owners, and a slip  *)
(* with one field. Owners are a person with a tax id in two spellings,     *)
(* persons without one whose names nest, and one nobody wrote down.        *)
(***************************************************************************)
EXTENDS SyncExtract

W(stem) == <<stem, "plain">>
Accented(stem) == <<stem, "accented">>

\* "B-12", "B12", "-", "Ana Gil", "ANA GIL", "Ana Gil SL", "Rio", "Sol"
IdDashed  == <<W("b"), W("-"), W("12")>>
IdPlain   == <<W("b"), W("12")>>
IdOther   == <<W("c9")>>
IdDash    == <<W("-")>>
AnaGil    == <<W("ana"), W("gil")>>
AnaGilSL  == <<Accented("ana"), W("gil"), W("sl")>>
Rio       == <<W("rio")>>
Sol       == <<W("sol")>>

Raw(value, conf, page, box) == [value |-> value, conf |-> conf, page |-> page, box |-> box]
Owner(id, name, share, page) ==
    [id |-> Raw(id, 90, page, None), name |-> Raw(name, 60, page, "box"), share |-> Raw(share, 90, None, None)]
Owners(rows) == [rows |-> rows, pages |-> {}, conf |-> 90]

NoCheck == [id |-> {}, name |-> {}, share |-> {[accepts |-> 1 .. 60, warning |-> FALSE]}]
Scalar(name) == [name |-> name, kind |-> "scalar", plain |-> FALSE, columns |-> <<>>,
                 checks |-> {[accepts |-> {Rio}, warning |-> TRUE], [accepts |-> {Rio, Sol}, warning |-> FALSE]}]
Array(name, columns, plain) ==
    [name |-> name, kind |-> "array", plain |-> plain, columns |-> columns, checks |-> {}]

Deed == [id |-> "deed", checks |-> {"stamp"},
         groups |-> << [name |-> "head", fields |-> <<Scalar("place"), Array("notes", [note |-> {}], TRUE)>>],
                       [name |-> "owners", fields |-> <<Array("owners", NoCheck, FALSE)>>] >>]
Slip == [id |-> "slip", checks |-> {"seal"}, groups |-> << [name |-> "head", fields |-> <<Scalar("place")>>] >>]

Pair == <<Owner(IdDashed, AnaGil, 60, 1), Owner(Blank, Rio, 40, 2)>>
\* The second one is trusted more, and was not placed on its page.
Trio == <<Owner(None, AnaGil, 50, 1),
          [Owner(IdPlain, AnaGilSL, 50, 2) EXCEPT !.name = Raw(AnaGilSL, 90, 2, None)],
          Owner(None, AnaGilSL, 10, 3)>>
Dash == <<Owner(IdDash, Rio, 50, 1), Owner(IdOther, Sol, 70, 2)>>

MCAnswers ==
    [deed |-> { <<>>,
                [place |-> Raw(Rio, 90, 1, "box")],
                [place |-> Raw(Blank, 90, 1, "box"), owners |-> Owners(Pair)],
                [place |-> Raw(Sol, 60, 2, None), owners |-> Owners(Trio)],
                [owners |-> Owners(Dash), notes |-> [Owners(<<[note |-> Raw(Rio, 90, 1, None)]>>)
                                                       EXCEPT !.pages = {3}]] },
     slip |-> { [place |-> Raw(AnaGil, 90, 1, "box")] }]

Draft(id, name, share, cites) == [values |-> [id |-> id, name |-> name, share |-> share], cites |-> cites]

\* Rewritten in place; consolidated with citations; invented without one
MCDrafts ==
    { <<>>,
      <<Draft(None, AnaGil, 60, <<>>), Draft(None, Rio, 40, <<>>)>>,
      <<Draft(IdPlain, AnaGil, 80, <<2>>), Draft(None, Sol, 50, <<9>>), Draft(None, Rio, 30, <<1, 2>>)>>,
      <<Draft(IdOther, <<W("eve")>>, 90, <<2>>), Draft(None, AnaGilSL, 90, <<1>>), Draft(None, Sol, 90, <<>>)>> }

File(pin, pages) == [pin |-> pin, pages |-> pages, encoded |-> 4, wellFormed |-> TRUE]
Rule(id, fields, checks, parents) == [id |-> id, fields |-> fields, checks |-> checks, parents |-> parents]

Entity == [type |-> "entity_resolution", scope |-> "task", target |-> "owners", output |-> None,
           key |-> "id", name |-> "name", minShared |-> 2, invariant |-> None]
Llm == [Entity EXCEPT !.type = "llm"]
Whole == [share |-> "share", total |-> 100, tolerance |-> 0, repair |-> TRUE]

Plain == [files |-> <<File("deed", 3)>>, docs |-> <<Deed, Slip>>, rules |-> <<>>,
          stages |-> {"field_validation", "transform", "rules"}, transformations |-> <<>>]
WithRules(rules) == [Plain EXCEPT !.files = <<File("slip", 1)>>, !.rules = rules]
Transforming(trs) == [Plain EXCEPT !.transformations = trs, !.stages = @ \ {"rules"}]

RulePlace == Rule("a", {<<"slip", "place">>}, {}, {})
MCRuleRequests ==
    { WithRules(<<RulePlace, Rule("b", {}, {<<"deed", "stamp">>}, {"a"}), Rule("c", {}, {}, {"a", "b"})>>),
      [WithRules(<<Rule("c", {<<"slip", "place">>}, {}, {"a", "b"}), RulePlace,
                   Rule("b", {}, {<<"slip", "seal">>}, {})>>)
         EXCEPT !.files = @ \o @, !.stages = @ \cup {"visual_authenticity"}],
      WithRules(<<Rule("a", {}, {}, {"b"}), Rule("b", {}, {}, {"c"}), Rule("c", {}, {}, {"a"})>>),
      WithRules(<<RulePlace, Rule("b", {}, {}, {"b"})>>),
      WithRules(<<RulePlace, Rule("a", {}, {}, {"z"})>>),
      WithRules(<<Rule("a", {<<"bill", "x">>, <<"slip", "x">>}, {<<"slip", "x">>}, {})>>),
      [WithRules(<<>>) EXCEPT !.stages = {"rules", "repair", "splitter", "visual_authenticity"},
                              !.docs = <<Slip>>] }

MCGateRequests ==
    { [Plain EXCEPT !.files = <<[File("deed", 1) EXCEPT !.encoded = 12]>>],
      [Plain EXCEPT !.files = <<[File("deed", 1) EXCEPT !.wellFormed = FALSE]>>],
      [Plain EXCEPT !.files = <<File("bill", 1)>>],
      [Plain EXCEPT !.docs = <<Slip, Slip, [Deed EXCEPT !.groups = <<>>]>>],
      [Plain EXCEPT !.docs = <<[Deed EXCEPT !.groups = @ \o <<@[1], [name |-> "none", fields |-> <<>>]>>]>>] }

MCTransformRequests ==
    { Transforming(<<Entity, [Llm EXCEPT !.invariant = Whole, !.output = "cap"]>>),
      Transforming(<<[Llm EXCEPT !.invariant = [Whole EXCEPT !.repair = FALSE]], [Entity EXCEPT !.name = None]>>),
      [Transforming(<<[Entity EXCEPT !.scope = "request"],
                      [Llm EXCEPT !.scope = "request", !.output = "all", !.invariant = Whole]>>)
         EXCEPT !.files = <<File("deed", 1), File("deed", 1)>>] }

MCRequests == MCRuleRequests \cup MCGateRequests \cup MCTransformRequests
=============================================================================
