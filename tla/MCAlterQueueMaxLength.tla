------------------------ MODULE MCAlterQueueMaxLength ------------------------
(* Attacks on one queue, and policies of others: "low" and "high" below and above the
   default priority, "pcre" with a pattern that matches the queue for the broker and that
   the regular expressions of Go do not know, such as a look-ahead, and "other" of a
   still higher priority for another queue. *)
EXTENDS AlterQueueMaxLength, TLC

MCPriority == [p \in Foreign |-> CASE p = "low" -> -1 [] p = "other" -> 7 [] OTHER -> 5]
MCGoMatching == {"low", "high"} \cap Foreign
MCAllMatching == MCGoMatching \cup ({"pcre"} \cap Foreign)
MCSymmetry == Permutations(Attacks)
=============================================================================
