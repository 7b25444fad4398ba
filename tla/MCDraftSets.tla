---------------------------- MODULE MCDraftSets ----------------------------
(* Two phrases, a text with one and one with both; a draft that cites the  *)
(* first span, and one that quotes a second, which may not be there.  One  *)
(* text is enough where edits are many: the second span is cut there.      *)
EXTENDS DraftSets, TLC

CONSTANTS ph1, ph2

TextsHere == { << ph1 >>, << ph1, ph2 >> }
OneText == { << ph1, ph2 >> }
AnswersHere ==
    { [body |-> {ph1}, claims |-> { [text |-> ph1, kind |-> "fact", cites |-> {1}] }],
      [body |-> {ph2}, claims |-> { [text |-> ph2, kind |-> "quote", cites |-> {2}] }] }

Symmetry == Permutations(Requests) \cup Permutations(Drafts)
=============================================================================
