---------------------------- MODULE MCSelection ----------------------------
(***************************************************************************)
(* Selection on five urls: two localized copies of one page, an original   *)
(* of another shape, one the rules drop and one that does not parse.       *)
(***************************************************************************)
EXTENDS Selection

LOCAL R(rules, original, shape) == [rules |-> rules, original |-> original, shape |-> shape]

MCTraits == <<R({}, 2, 20), R({}, Undefined, 30), R({}, Undefined, 20),
              R({"taxonomy", "feed"}, Undefined, 10), R({"unparseable"}, Undefined, 0)>>
=============================================================================
