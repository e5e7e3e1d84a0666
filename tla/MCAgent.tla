------------------------------ MODULE MCAgent -------------------------------
(* Replies of no call, of one of each kind and of two, of which one is the *)
(* submission; texts with every mark at every place the prompt has.        *)
EXTENDS Agent

MCJobs ==
  [kind : {"assessment"}, interactive : BOOLEAN, waited : {FALSE},
   data : {-1, 0}, kept : {0, 1}, self : {0}, exchange : {0, 1}]
  \cup
  [kind : {"diagnosis"}, interactive : {FALSE}, waited : BOOLEAN,
   data : {0, 1}, kept : {0}, self : {-1, 1}, exchange : {0}]

Makes(name, says) ==
  [name |-> name, says |-> says, pieces |-> 1, concludes |-> ""]
Submits(concludes, says, pieces) ==
  [name |-> "submit", says |-> says, pieces |-> pieces, concludes |-> concludes]
Ends == {Submits("settled", 0, 2), Submits("settled", 2, 1), Submits("wait", 1, 1),
         Submits("fix", 0, 1), Submits("incomplete", 2, 1)}
Asks == {Makes(name, says) : name \in Tools, says \in {-1, 0, 1}}
          \cup {Makes("unknown", says) : says \in {-1, 0, 2}}
          \cup {Makes("garbled", 1)}
MCReplies ==
  {[content |-> TRUE, quotes |-> text, calls |-> <<>>] : text \in 0..2}
  \cup {[content |-> TRUE, quotes |-> 0, calls |-> <<e>>] : e \in Ends}
  \cup {[content |-> FALSE, quotes |-> 0, calls |-> <<a>>] : a \in Asks}
  \cup {[content |-> FALSE, quotes |-> 0, calls |-> <<Makes("read", 0), Submits("settled", 0, 2)>>],
        [content |-> FALSE, quotes |-> 0, calls |-> <<Submits("settled", 0, 2), Makes("fetch", 1)>>],
        [content |-> TRUE, quotes |-> 0, calls |-> <<Makes("search", 0), Makes("unknown", 0)>>]}
=============================================================================
