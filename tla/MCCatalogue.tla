----------------------------- MODULE MCCatalogue ----------------------------
(* An instance of Catalogue for TLC: the second server's first tool has    *)
(* the name of the first server's second one once both are sanitised.      *)
EXTENDS Catalogue

CONSTANTS s1, s2, t1, t2, search, a, b, d

MCServers  == {1, 2}
MCRemotes  == {t1, t2}
MCLists    == {<<>>, <<t1>>, <<t1, t2>>}
MCNames    == {search, a, b, d}
MCNameOf   == [x \in MCServers \X MCRemotes |->
                 IF x = <<1, t1>> THEN a ELSE IF x = <<2, t2>> THEN d ELSE b]
MCBuiltins == {search}
MCStarters == {s1, s2}
=============================================================================
