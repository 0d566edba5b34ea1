--------------------------- MODULE MCPretoolGuard ---------------------------
(* A tool in a repository that others change at any time.  Tools write nothing
   that other tools' hooks read, so that one stands for each of several. *)
EXTENDS PretoolGuard

Plain == [push |-> <<>>, removal |-> <<>>, script |-> <<>>, protectedPath |-> FALSE,
          rule |-> "allow"]

Push(refspecs, elsewhere) ==
    <<[force |-> FALSE, delete |-> FALSE, all |-> FALSE, refspecs |-> refspecs,
       elsewhere |-> elsewhere]>>
To(ref)        == [force |-> FALSE, delete |-> FALSE, to |-> ref]
Remove(dir)    == <<[recursive |-> TRUE, noPreserveRoot |-> FALSE, operands |-> {dir}]>>

Commands ==
    {[Plain EXCEPT !.push = Push({To("HEAD")}, FALSE)],
     [Plain EXCEPT !.push = Push({To("@"), To("topic")}, TRUE),
                   !.script = <<"deploy.sh", "smoke.sh">>],
     [Plain EXCEPT !.rule = "approval", !.removal = Remove("build")]}
=============================================================================
