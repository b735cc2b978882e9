----------------------------- MODULE MCLauncher -----------------------------
(***************************************************************************)
(* Launcher for TLC: every file of up to three of the lines below, and     *)
(* files of the shape of those under tasks/config.                         *)
(***************************************************************************)
EXTENDS Launcher

MCHash(word) == word \in {"#", "#FROMX"}
MCEquals(word) == word \in {"=", "=2"}
MCBehind(word) == IF word = "=2" THEN "2" ELSE ""
MCNumber(word) == CASE word = "0" -> 0 [] word = "1" -> 1 [] word = "2" -> 2
                    [] word = "12" -> 12 [] word = "-5" -> -5 [] OTHER -> 0

MCSet(p, v) == <<p, "=", v>>
MCLines ==
  {MCSet("DIM", "12"), MCSet("FROMX", "-5"), MCSet("TARGETVALUE", "2"), MCSet("STEPX", "0"),
   MCSet("STOPRUN", "0"), MCSet("STOPRUN", "1"), MCSet("PRINTFLAG", "0"), MCSet("PRINTFLAG", "1"),
   MCSet("BOGUS", "1"), <<>>, <<"#", "text">>, <<"#FROMX", "=", "2">>,
   <<"#", "DIM", "=", "1">>, <<"TOX", "=">>,
   <<"TOY", "=2">>}

(* The shapes of 16task_01.cfg and 20task_01.cfg, their numbers made small.  *)
MCRepository ==
  {<<MCSet("DIM", "1"), <<"#", "text">>, MCSet("FROMX", "1"), <<"#FROMX", "=", "2">>, <<"#">>,
     MCSet("TOX", "2"), <<"#FROMX", "=", "2">>, <<"#", "text">>, MCSet("STOPRUN", "0"),
     MCSet("PRINTFLAG", "1"), MCSet("MODLOG", "12"), <<>>>>,
   <<MCSet("DIM", "2"), <<"#", "text">>, MCSet("FROMX", "-5"), MCSet("FROMZ1", "-5"), <<"#">>,
     MCSet("TOX", "2"), MCSet("TOZ1", "2"), <<"#", "text">>, MCSet("STOPRUN", "0"),
     MCSet("PRINTFLAG", "1"), MCSet("MODLOG", "12"), <<"#FROMX", "=">>, <<>>>>}

MCFiles == {<<>>} \union [1..1 -> MCLines] \union [1..2 -> MCLines] \union [1..3 -> MCLines]
           \union MCRepository
=============================================================================
