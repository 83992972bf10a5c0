------------------------------- MODULE MCPhases -------------------------------
(* Instances of Phases for TLC. *)
EXTENDS Phases

Kind(has) == [captured |-> FALSE, http10 |-> FALSE, head |-> FALSE, filters |-> FALSE,
              body |-> FALSE, abort |-> FALSE, has |-> has]

All == {"server_rewrite", "rewrite", "access", "precontent", "content"}

MCKinds == {[Kind(All) EXCEPT !.abort = TRUE],
            [Kind({"rewrite", "content"}) EXCEPT !.body = TRUE, !.http10 = TRUE],
            [Kind({"access"}) EXCEPT !.body = TRUE, !.head = TRUE],
            [Kind({"content"}) EXCEPT !.filters = TRUE],
            [Kind({"server_rewrite", "precontent"}) EXCEPT !.http10 = TRUE],
            [Kind({"rewrite", "content"}) EXCEPT !.captured = TRUE]}

================================================================================
